------------------------------ MODULE OSProofs -----------------------------
(***************************************************************************)
(* Proofs about the operating system state machine, for every number of    *)
(* cores and threads, every set of addresses and entries and every size of *)
(* memory.                                                                 *)
(*                                                                         *)
(*   IndInv: the lock, the shootdown protocol, no stale translation.       *)
(*                                                                         *)
(*   OverlapInv: mappings and calls never overlap, and a frame that a TLB  *)
(*   still caches is not reused.                                           *)
(*                                                                         *)
(*   RefinesHLSpec: the operating system, with its cores, TLBs, kernel     *)
(*   lock and page table, implements the process-level specification.      *)
(*   What the process sees is a function of the effective mappings: those  *)
(*   of the page table without the ones being unmapped. The proof is about *)
(*   three questions. Do two words of virtual memory ever share a word of  *)
(*   physical memory? Does a store through a translation that the process  *)
(*   has given up reach memory it still sees? Do the checks of os.rs, made *)
(*   against the page table and the cores, agree with those of the process *)
(*   level, made against effective mappings and threads?                   *)
(***************************************************************************)
EXTENDS OSRefinement, TLAPS

LEMMA MappingsType ==
  ASSUME NEW dom, dom \subseteq VAddr, NEW map \in [dom -> PTE]
  PROVE  map \in Mappings
  BY DEF Mappings

(* Inserting a key changes the table at the key only. *)
LEMMA InsertFacts ==
  ASSUME NEW map \in Mappings, NEW key \in VAddr, NEW value \in PTE
  PROVE  /\ Insert(map, key, value) \in Mappings
         /\ DOMAIN Insert(map, key, value) = DOMAIN map \cup {key}
         /\ Insert(map, key, value)[key] = value
         /\ \A k \in DOMAIN map : k # key => Insert(map, key, value)[k] = map[k]
<1>1. PICK dom \in SUBSET VAddr : map \in [dom -> PTE]
  BY DEF Mappings
<1>2. Insert(map, key, value) \in [dom \cup {key} -> PTE]
  BY <1>1 DEF Insert
<1>3. Insert(map, key, value) \in Mappings
  BY <1>2, MappingsType
<1> QED
  BY <1>3 DEF Insert

(* Removing a key leaves the rest of the table as it is. *)
LEMMA RemoveFacts ==
  ASSUME NEW map \in Mappings, NEW key
  PROVE  /\ Remove(map, key) \in Mappings
         /\ DOMAIN Remove(map, key) = DOMAIN map \ {key}
         /\ \A k \in DOMAIN map : k # key => Remove(map, key)[k] = map[k]
<1>1. PICK dom \in SUBSET VAddr : map \in [dom -> PTE]
  BY DEF Mappings
<1>2. Remove(map, key) \in [dom \ {key} -> PTE]
  BY <1>1 DEF Remove
<1>3. Remove(map, key) \in Mappings
  BY <1>2, MappingsType
<1> QED
  BY <1>3 DEF Remove

LEMMA MappingsFacts ==
  ASSUME NEW map \in Mappings
  PROVE  DOMAIN map \subseteq VAddr /\ \A k \in DOMAIN map : map[k] \in PTE
  BY DEF Mappings

(* What the TLBs hold after a fill: what they held, and the new entry. *)
LEMMA FillFacts ==
  ASSUME tlb \in [Core -> Mappings],
         NEW core \in Core, NEW vaddr,
         tlb' = [tlb EXCEPT ![core] = Insert(tlb[core], vaddr, pt[vaddr])],
         NEW c \in Core, NEW v \in DOMAIN tlb'[c]
  PROVE  \/ v \in DOMAIN tlb[c] /\ tlb'[c][v] = tlb[c][v]
         \/ v = vaddr /\ tlb'[c][v] = pt[v]
<1>1. CASE c = core
  <2>1. tlb'[c] = Insert(tlb[c], vaddr, pt[vaddr])
    BY <1>1
  <2> QED
    BY <2>1 DEF Insert
<1>2. CASE c # core
  BY <1>2
<1> QED
  BY <1>1, <1>2

(* After an eviction the TLBs hold nothing that they did not hold before. *)
LEMMA EvictFacts ==
  ASSUME NEW core \in Core, NEW vaddr,
         tlb \in [Core -> Mappings],
         tlb' = [tlb EXCEPT ![core] = Remove(tlb[core], vaddr)],
         NEW c \in Core, NEW v \in DOMAIN tlb'[c]
  PROVE  v \in DOMAIN tlb[c] /\ tlb'[c][v] = tlb[c][v]
<1>1. CASE c = core
  <2>1. tlb[c] \in Mappings /\ tlb'[c] = Remove(tlb[c], vaddr)
    BY <1>1
  <2>2. /\ DOMAIN Remove(tlb[c], vaddr) = DOMAIN tlb[c] \ {vaddr}
        /\ \A k \in DOMAIN tlb[c] : k # vaddr => Remove(tlb[c], vaddr)[k] = tlb[c][k]
    BY <2>1, RemoveFacts
  <2> QED
    BY <2>1, <2>2
<1>2. CASE c # core
  BY <1>2
<1> QED
  BY <1>1, <1>2

LEMMA EmptyMapType == EmptyMap \in Mappings /\ DOMAIN EmptyMap = {}
<1>1. EmptyMap \in [{} -> PTE]
  BY DEF EmptyMap
<1> QED
  BY <1>1 DEF Mappings, EmptyMap

LEMMA TypeInit == Init => TypeOK
  BY OSAssumption, EmptyMapType DEF Init, HWInit, TypeOK, CoreState, Idle

(* The fields of a core's state, by its tag. *)
LEMMA CoreFields ==
  ASSUME TypeOK, NEW core \in Core
  PROVE  /\ core_states[core] # Idle => core_states[core].vaddr \in VAddr
         /\ core_states[core].tag \in MapTags => core_states[core].pte \in PTE
         /\ core_states[core].tag \in UnmapOpTags =>
              core_states[core].result \in PTE \cup {Err}
         /\ core_states[core].tag \in MapTags \cup UnmapOpTags \cup {"UnmapWaiting"} =>
              core_states[core] # Idle
  BY DEF TypeOK, CoreState, Idle, MapTags, UnmapOpTags

(* A core that changes its tag within a phase of a call keeps its type.    *)
LEMMA TagUpdate ==
  ASSUME NEW core \in Core, NEW tag, TypeOK,
         \/ core_states[core].tag = "MapWaiting" /\ tag = "MapExecuting"
         \/ core_states[core].tag \in UnmapOpTags /\ tag \in UnmapOpTags
  PROVE  /\ [core_states[core] EXCEPT !.tag = tag] \in CoreState
         /\ [core_states[core] EXCEPT !.tag = tag].ULT_id = core_states[core].ULT_id
         /\ [core_states[core] EXCEPT !.tag = tag].vaddr = core_states[core].vaddr
         /\ core_states[core] # Idle
  BY DEF TypeOK, CoreState, Idle, MapTags, UnmapOpTags

(* Every step keeps the types of all variables. *)
LEMMA TypeStep == TypeOK /\ [Next]_vars => TypeOK'
<1> SUFFICES ASSUME TypeOK, [Next]_vars PROVE TypeOK'
  OBVIOUS
<1>1. ASSUME NEW core \in Core, NEW vaddr \in VAddr, NEW op \in HWRWOp, NEW base \in VAddr,
             step_HW_ReadWrite_Cached(core, vaddr, op, base)
      PROVE  TypeOK'
  BY <1>1 DEF step_HW_ReadWrite_Cached, step_ReadWrite_Cached, TypeOK, osvars, HWRWOp
<1>2. ASSUME NEW vaddr \in VAddr, step_HW_ReadWrite_Pagefault(vaddr) PROVE TypeOK'
  BY <1>2 DEF step_HW_ReadWrite_Pagefault, step_ReadWrite_Pagefault, TypeOK, osvars, hwvars
<1>3. ASSUME NEW core \in Core, NEW vaddr \in VAddr, step_HW_TLBFill(core, vaddr) PROVE TypeOK'
  <2>1. tlb[core] \in Mappings /\ pt \in Mappings /\ vaddr \in DOMAIN pt
    BY <1>3 DEF TypeOK, step_HW_TLBFill, step_TLBFill
  <2>2. Insert(tlb[core], vaddr, pt[vaddr]) \in Mappings
    BY <2>1, InsertFacts, MappingsFacts
  <2> QED
    BY <1>3, <2>2 DEF step_HW_TLBFill, step_TLBFill, TypeOK, osvars
<1>4. ASSUME NEW core \in Core, NEW vaddr \in VAddr, step_HW_TLBEvict(core, vaddr) PROVE TypeOK'
  <2>1. Remove(tlb[core], vaddr) \in Mappings
    BY RemoveFacts DEF TypeOK
  <2> QED
    BY <1>4, <2>1 DEF step_HW_TLBEvict, step_TLBEvict, TypeOK, osvars
<1>5. ASSUME NEW ULT_id \in ULT, NEW vaddr \in VAddr, NEW pte \in PTE,
             step_Map_Start(ULT_id, vaddr, pte)
      PROVE  TypeOK'
  BY <1>5, OSAssumption
     DEF step_Map_Start, TypeOK, PtStutter, step_PTMemOp, MapState, CoreState, MapTags, Idle
<1>6. ASSUME NEW ULT_id \in ULT, NEW vaddr \in VAddr, step_Unmap_Start(ULT_id, vaddr)
      PROVE  TypeOK'
  BY <1>6, OSAssumption
     DEF step_Unmap_Start, TypeOK, PtStutter, step_PTMemOp, UnmapWaiting, CoreState, Idle
<1>7. ASSUME NEW core \in Core, step_Map_op_Start(core) PROVE TypeOK'
  BY <1>7, TagUpdate DEF step_Map_op_Start, TypeOK, PtStutter, step_PTMemOp
<1>8. ASSUME NEW core \in Core, step_Map_End(core) PROVE TypeOK'
  <2>1. core_states[core].vaddr \in VAddr /\ core_states[core].pte \in PTE
    BY <1>8, CoreFields DEF step_Map_End, MapTags
  <2>2. pt' \in Mappings
    BY <1>8, <2>1, InsertFacts DEF step_Map_End, PtMapEnd, TypeOK
  <2> QED
    BY <1>8, <2>2 DEF step_Map_End, PtMapEnd, TypeOK, step_PTMemOp, CoreState
<1>9. ASSUME NEW core \in Core, step_Unmap_Op_Start(core) PROVE TypeOK'
  <2> DEFINE cs == core_states[core]
             result == IF cs.vaddr \in DOMAIN pt THEN pt[cs.vaddr] ELSE Err
  <2>1. pt' \in Mappings /\ result \in PTE \cup {Err}
    BY <1>9, RemoveFacts, MappingsFacts DEF step_Unmap_Op_Start, PtUnmapStart, TypeOK
  <2>2. cs.vaddr \in VAddr /\ cs.ULT_id \in ULT /\ ULT2core[cs.ULT_id] = core
    BY <1>9 DEF step_Unmap_Op_Start, TypeOK, CoreState, Idle, MapTags, UnmapOpTags
  <2>3. /\ UnmapState("UnmapOpExecuting", cs.ULT_id, cs.vaddr, result) \in CoreState
        /\ UnmapState("UnmapOpExecuting", cs.ULT_id, cs.vaddr, result).ULT_id = cs.ULT_id
    BY <2>1, <2>2 DEF UnmapState, CoreState, UnmapOpTags
  <2> QED
    BY <1>9, <2>1, <2>2, <2>3 DEF step_Unmap_Op_Start, PtUnmapStart, TypeOK, step_PTMemOp
<1>10. ASSUME NEW core \in Core, step_Unmap_Op_End(core) PROVE TypeOK'
  BY <1>10, TagUpdate DEF step_Unmap_Op_End, TypeOK, PtStutter, step_PTMemOp, UnmapOpTags
<1>11. ASSUME NEW core \in Core, step_Unmap_Initiate_Shootdown(core) PROVE TypeOK'
  BY <1>11, TagUpdate
     DEF step_Unmap_Initiate_Shootdown, TypeOK, PtStutter, step_PTMemOp, UnmapOpTags,
         CoreState, Idle, MapTags
<1>12. ASSUME NEW core \in Core, step_Ack_Shootdown_IPI(core) PROVE TypeOK'
  BY <1>12 DEF step_Ack_Shootdown_IPI, TypeOK, PtStutter, step_PTMemOp
<1>13. ASSUME NEW core \in Core, step_Unmap_End(core) PROVE TypeOK'
  BY <1>13 DEF step_Unmap_End, TypeOK, PtStutter, step_PTMemOp, CoreState, Idle
<1>14. ASSUME NEW core \in Core, step_View_Stutter(core) PROVE TypeOK'
  BY <1>14 DEF step_View_Stutter, TypeOK, PtViewStutter, step_PTMemOp, osvars
<1>15. CASE UNCHANGED vars
  BY <1>15 DEF vars, TypeOK
<1> QED
  BY <1>1, <1>2, <1>3, <1>4, <1>5, <1>6, <1>7, <1>8, <1>9, <1>10, <1>11, <1>12, <1>13, <1>14,
     <1>15 DEF Next, HWStep, KernelStep, SyscallStart

(* The type invariant holds in every reachable state of os.rs' machine.    *)
THEOREM TypeCorrect == Spec => []TypeOK
  BY TypeInit, TypeStep, PTL DEF Spec

-----------------------------------------------------------------------------
(***************************************************************************)
(* The TLB argument. NoStaleTranslation is not inductive: that an unmap    *)
(* may return when all cores have answered rests on successful_IPI; that a *)
(* core which has answered cannot fetch the translation again rests on     *)
(* successful_unmaps; that the answers are to this unmap, on               *)
(* ShootdownOwned; and all of them on the kernel lock.                     *)
(***************************************************************************)
IndInv ==
  /\ TypeOK
  /\ LockExclusive
  /\ successful_unmaps
  /\ ShootdownOwned
  /\ successful_IPI
  /\ NoStaleTranslation

Safety == LockExclusive /\ successful_unmaps /\ ShootdownOwned /\ successful_IPI
            /\ NoStaleTranslation

LEMMA SafetyInit == Init => Safety
  BY EmptyMapType
     DEF Init, HWInit, Safety, LockExclusive, successful_unmaps, ShootdownOwned, successful_IPI,
         NoStaleTranslation, Idle, holds_lock, UnmapOpTags

LEMMA SafetyStep == IndInv /\ [Next]_vars => Safety'
<1> SUFFICES ASSUME IndInv, [Next]_vars PROVE Safety'
  OBVIOUS
<1> USE DEF IndInv, Safety, LockExclusive, successful_unmaps, ShootdownOwned, successful_IPI,
            NoStaleTranslation, BeingUnmapped
<1>0. pt \in Mappings /\ tlb \in [Core -> Mappings] /\ core_states \in [Core -> CoreState]
  BY DEF TypeOK
<1>1. ASSUME NEW core \in Core, NEW vaddr \in VAddr, NEW op \in HWRWOp, NEW base \in VAddr,
             step_HW_ReadWrite_Cached(core, vaddr, op, base)
      PROVE  Safety'
  BY <1>1 DEF step_HW_ReadWrite_Cached, step_ReadWrite_Cached, osvars
<1>2. ASSUME NEW vaddr \in VAddr, step_HW_ReadWrite_Pagefault(vaddr) PROVE Safety'
  BY <1>2 DEF step_HW_ReadWrite_Pagefault, step_ReadWrite_Pagefault, osvars, hwvars
<1>3. ASSUME NEW core \in Core, NEW vaddr \in VAddr, step_HW_TLBFill(core, vaddr) PROVE Safety'
  <2>1. /\ UNCHANGED <<pt, core_states, TLB_Shootdown>>
        /\ vaddr \in DOMAIN pt
        /\ tlb' = [tlb EXCEPT ![core] = Insert(tlb[core], vaddr, pt[vaddr])]
    BY <1>3 DEF step_HW_TLBFill, step_TLBFill, osvars
  <2>2. ASSUME NEW c \in Core, NEW v \in DOMAIN tlb'[c]
        PROVE  \/ v \in DOMAIN tlb[c] /\ tlb'[c][v] = tlb[c][v]
               \/ v = vaddr /\ tlb'[c][v] = pt[v]
    <3> HIDE DEF IndInv
    <3> QED
      BY <1>0, <2>1, FillFacts
  <2>3. successful_IPI'
    BY <2>1, <2>2 DEF UnmapOpTags
  <2>4. NoStaleTranslation'
    BY <2>1, <2>2
  <2> QED
    BY <2>1, <2>3, <2>4
<1>4. ASSUME NEW core \in Core, NEW vaddr \in VAddr, step_HW_TLBEvict(core, vaddr) PROVE Safety'
  <2>1. /\ UNCHANGED <<pt, core_states, TLB_Shootdown>>
        /\ tlb' = [tlb EXCEPT ![core] = Remove(tlb[core], vaddr)]
    BY <1>4 DEF step_HW_TLBEvict, step_TLBEvict, osvars
  <2>2. ASSUME NEW c \in Core
        PROVE  \A v \in DOMAIN tlb'[c] : v \in DOMAIN tlb[c] /\ tlb'[c][v] = tlb[c][v]
    BY <2>1, EvictFacts DEF TypeOK
  <2> QED
    BY <2>1, <2>2
<1>5. ASSUME NEW ULT_id \in ULT, NEW vaddr \in VAddr, NEW pte \in PTE,
             step_Map_Start(ULT_id, vaddr, pte)
      PROVE  Safety'
  BY <1>5, OSAssumption
     DEF step_Map_Start, TypeOK, PtStutter, step_PTMemOp, MapState, Idle, holds_lock, UnmapOpTags
<1>6. ASSUME NEW ULT_id \in ULT, NEW vaddr \in VAddr, step_Unmap_Start(ULT_id, vaddr)
      PROVE  Safety'
  BY <1>6, OSAssumption
     DEF step_Unmap_Start, TypeOK, PtStutter, step_PTMemOp, UnmapWaiting, Idle, holds_lock,
         UnmapOpTags
<1>7. ASSUME NEW core \in Core, step_Map_op_Start(core) PROVE Safety'
  BY <1>7, TagUpdate DEF step_Map_op_Start, TypeOK, PtStutter, step_PTMemOp, LockFree, holds_lock,
     UnmapOpTags
<1>8. ASSUME NEW core \in Core, step_Map_End(core) PROVE Safety'
  <2> DEFINE cs == core_states[core]
  <2>1. /\ UNCHANGED <<tlb, TLB_Shootdown>>
        /\ core_states' = [core_states EXCEPT ![core] = Idle]
        /\ cs.tag = "MapExecuting"
    BY <1>8 DEF step_Map_End, PtMapEnd, step_PTMemOp
  <2>2. \A c \in Core : c # core => ~holds_lock(core_states[c])
    BY <2>1 DEF holds_lock
  <2>3. \A c \in Core : core_states'[c].tag \notin UnmapOpTags
    BY <2>1, <2>2 DEF TypeOK, Idle, holds_lock, UnmapOpTags
  <2>4. \A c \in Core : core_states[c].tag \notin UnmapOpTags
    BY <2>1, <2>2 DEF holds_lock, UnmapOpTags
  <2>5. \A v \in DOMAIN pt : v \in DOMAIN pt' /\ pt'[v] = pt[v]
    <3>1. CASE candidate_mapping_overlaps_existing_vmem(pt, cs.vaddr, cs.pte)
      BY <1>8, <3>1 DEF step_Map_End, PtMapEnd
    <3>2. CASE ~candidate_mapping_overlaps_existing_vmem(pt, cs.vaddr, cs.pte)
      <4>1. PICK v \in VAddr, p \in PTE : v = cs.vaddr /\ p = cs.pte
        BY <2>1, CoreFields DEF MapTags
      <4>2. v \notin DOMAIN pt
        BY <3>2, <4>1, OSAssumption DEF candidate_mapping_overlaps_existing_vmem, overlap, Region
      <4>3. pt' = Insert(pt, v, p)
        BY <1>8, <3>2, <4>1 DEF step_Map_End, PtMapEnd
      <4> QED
        BY <4>2, <4>3 DEF Insert
    <3> QED
      BY <3>1, <3>2
  <2>6. LockExclusive'
    BY <2>1, <2>2 DEF TypeOK, holds_lock, Idle
  <2>7. successful_unmaps' /\ ShootdownOwned' /\ successful_IPI'
    BY <2>3 DEF UnmapOpTags
  <2>8. NoStaleTranslation'
    BY <2>1, <2>4, <2>5
  <2> QED
    BY <2>6, <2>7, <2>8
<1>9. ASSUME NEW core \in Core, step_Unmap_Op_Start(core) PROVE Safety'
  <2> DEFINE vaddr  == core_states[core].vaddr
             result == IF vaddr \in DOMAIN pt THEN pt[vaddr] ELSE Err
  <2>1. /\ UNCHANGED <<tlb, TLB_Shootdown>>
        /\ \A c \in Core : ~holds_lock(core_states[c])
        /\ \A c \in Core : c # core => core_states'[c] = core_states[c]
        /\ core_states'[core].tag = "UnmapOpExecuting"
        /\ core_states'[core].vaddr = vaddr
        /\ core_states'[core].result = result
    BY <1>0, <1>9 DEF step_Unmap_Op_Start, PtUnmapStart, step_PTMemOp, LockFree, UnmapState
  <2>2. /\ DOMAIN pt' = DOMAIN pt \ {vaddr}
        /\ \A v \in DOMAIN pt : v # vaddr => pt'[v] = pt[v]
    <3>1. pt' = Remove(pt, vaddr)
      BY <1>9 DEF step_Unmap_Op_Start, PtUnmapStart
    <3>2. /\ DOMAIN Remove(pt, vaddr) = DOMAIN pt \ {vaddr}
          /\ \A v \in DOMAIN pt : v # vaddr => Remove(pt, vaddr)[v] = pt[v]
      BY <1>0, RemoveFacts
    <3> QED
      BY <3>1, <3>2
  <2>3. \A c \in Core : core_states[c].tag \notin UnmapOpTags
    BY <2>1 DEF holds_lock, UnmapOpTags
  <2>4. LockExclusive' /\ ShootdownOwned' /\ successful_IPI'
    BY <2>1 DEF holds_lock
  <2>5. successful_unmaps'
    BY <2>1, <2>2, <2>3
  <2>6. NoStaleTranslation'
    <3>1. ASSUME NEW c \in Core, NEW v \in DOMAIN tlb[c], v # vaddr
          PROVE  v \in DOMAIN pt' /\ pt'[v] = tlb'[c][v]
      BY <2>1, <2>2, <2>3, <3>1
    <3>2. ASSUME NEW c \in Core, vaddr \in DOMAIN tlb[c]
          PROVE  BeingUnmapped(vaddr, tlb[c][vaddr])'
      BY <2>1, <2>3, <3>2 DEF UnmapOpTags
    <3> QED
      BY <2>1, <3>1, <3>2
  <2> QED
    BY <2>4, <2>5, <2>6
<1>10. ASSUME NEW core \in Core, step_Unmap_Op_End(core) PROVE Safety'
  BY <1>10, TagUpdate DEF step_Unmap_Op_End, TypeOK, PtStutter, step_PTMemOp, UnmapOpTags, holds_lock
<1>11. ASSUME NEW core \in Core, step_Unmap_Initiate_Shootdown(core) PROVE Safety'
  <2> DEFINE cs == core_states[core]
  <2>1. /\ UNCHANGED <<tlb, pt>>
        /\ cs.tag = "UnmapOpDone"
        /\ core_states' = [core_states EXCEPT ![core].tag = "UnmapShootdownWaiting"]
        /\ TLB_Shootdown' = [vaddr |-> cs.vaddr, open_requests |-> Core]
    BY <1>11 DEF step_Unmap_Initiate_Shootdown, PtStutter, step_PTMemOp
  <2>2. \A c \in Core : c # core => core_states'[c] = core_states[c] /\ ~holds_lock(core_states[c])
    BY <2>1 DEF holds_lock
  <2>3. /\ core_states'[core].tag = "UnmapShootdownWaiting"
        /\ core_states'[core].vaddr = cs.vaddr
        /\ core_states'[core].result = cs.result
    BY <1>0, <2>1 DEF CoreState, Idle, MapTags, UnmapOpTags
  <2>4. LockExclusive'
    BY <2>2, <2>3 DEF holds_lock
  <2>5. successful_unmaps'
    BY <2>1, <2>2, <2>3 DEF UnmapOpTags
  <2>6. ShootdownOwned' /\ successful_IPI'
    BY <2>1, <2>2, <2>3 DEF holds_lock
  <2>7. NoStaleTranslation'
    BY <2>1, <2>2, <2>3 DEF UnmapOpTags
  <2> QED
    BY <2>4, <2>5, <2>6, <2>7
<1>12. ASSUME NEW core \in Core, step_Ack_Shootdown_IPI(core) PROVE Safety'
  BY <1>12 DEF step_Ack_Shootdown_IPI, TypeOK, PtStutter, step_PTMemOp
<1>13. ASSUME NEW core \in Core, step_Unmap_End(core) PROVE Safety'
  <2>1. /\ UNCHANGED <<tlb, pt, TLB_Shootdown>>
        /\ core_states' = [core_states EXCEPT ![core] = Idle]
    BY <1>13 DEF step_Unmap_End, PtStutter, step_PTMemOp
  <2>2. \A c \in Core : core_states'[c] = IF c = core THEN Idle ELSE core_states[c]
    BY <1>0, <2>1
  <2>3. LockExclusive' /\ successful_unmaps' /\ ShootdownOwned' /\ successful_IPI'
    BY <2>1, <2>2 DEF Idle, holds_lock, UnmapOpTags
  <2>4. ASSUME NEW c \in Core, NEW v \in DOMAIN tlb[c],
               core_states[core].tag \in UnmapOpTags, core_states[core].vaddr = v,
               core_states[core].result = tlb[c][v]
        PROVE  FALSE
    <3>1. tlb[c][v] \in PTE
      BY <1>0, MappingsFacts
    <3>2. core_states[core].result # Err
      BY <2>4, <3>1, OSAssumption
    <3>3. core_states[core].tag = "UnmapShootdownWaiting" /\ TLB_Shootdown.open_requests = {}
      BY <1>13, <3>2 DEF step_Unmap_End
    <3> QED
      BY <2>4, <3>3
  <2>5. NoStaleTranslation'
    BY <2>1, <2>2, <2>4
  <2> QED
    BY <2>3, <2>5
<1>14. ASSUME NEW core \in Core, step_View_Stutter(core) PROVE Safety'
  BY <1>14 DEF step_View_Stutter, PtViewStutter, step_PTMemOp, osvars
<1>15. CASE UNCHANGED vars
  BY <1>15 DEF vars
<1> QED
  BY <1>1, <1>2, <1>3, <1>4, <1>5, <1>6, <1>7, <1>8, <1>9, <1>10, <1>11, <1>12, <1>13, <1>14,
     <1>15 DEF Next, HWStep, KernelStep, SyscallStart

LEMMA IndInvariant == Spec => []IndInv
<1>1. Init => IndInv
  BY TypeInit, SafetyInit DEF IndInv, Safety
<1>2. IndInv /\ [Next]_vars => IndInv'
  BY TypeStep, SafetyStep DEF IndInv, Safety
<1> QED
  BY <1>1, <1>2, PTL DEF Spec

(* Only step_Unmap_End takes a core out of an unmap that holds the lock.   *)
LEMMA ReturnStep ==
  ASSUME TypeOK, [Next]_vars, NEW core \in Core,
         core_states[core].tag \in UnmapOpTags, core_states'[core] = Idle
  PROVE  step_Unmap_End(core)
<1> USE DEF UnmapOpTags
<1>0. core_states \in [Core -> CoreState] /\ core_states[core] # Idle
  BY CoreFields DEF TypeOK
<1>1. ASSUME core_states' = core_states PROVE FALSE
  BY <1>0, <1>1
<1>2. ASSUME NEW c \in Core, NEW new, new.tag # "Idle",
             core_states' = [core_states EXCEPT ![c] = new]
      PROVE  FALSE
  BY <1>0, <1>2 DEF Idle
<1>3. ASSUME NEW c \in Core, c # core, NEW new, core_states' = [core_states EXCEPT ![c] = new]
      PROVE  FALSE
  BY <1>0, <1>3
<1>4. ASSUME NEW c \in Core, HWStep(c) PROVE FALSE
  BY <1>1, <1>4 DEF HWStep, step_HW_ReadWrite_Cached, step_HW_ReadWrite_Pagefault,
     step_HW_TLBFill, step_HW_TLBEvict, osvars
<1>5. ASSUME NEW ULT_id \in ULT, SyscallStart(ULT_id) PROVE FALSE
  <2>1. ULT2core[ULT_id] \in Core
    BY OSAssumption
  <2>2. core_states[ULT2core[ULT_id]] = Idle
    BY <1>5 DEF SyscallStart, step_Map_Start, step_Unmap_Start
  <2>3. ULT2core[ULT_id] # core
    BY <1>0, <2>2
  <2> QED
    BY <1>3, <1>5, <2>1, <2>3 DEF SyscallStart, step_Map_Start, step_Unmap_Start
<1>6. ASSUME NEW c \in Core,
             \/ step_Map_op_Start(c) \/ step_Unmap_Op_End(c) \/ step_Unmap_Initiate_Shootdown(c)
      PROVE  FALSE
  <2>1. PICK tag \in {"MapExecuting", "UnmapOpDone", "UnmapShootdownWaiting"} :
          core_states' = [core_states EXCEPT ![c].tag = tag]
    BY <1>6 DEF step_Map_op_Start, step_Unmap_Op_End, step_Unmap_Initiate_Shootdown
  <2>2. core_states[c].tag \in {"MapWaiting", "UnmapOpExecuting", "UnmapOpDone"}
    BY <1>6 DEF step_Map_op_Start, step_Unmap_Op_End, step_Unmap_Initiate_Shootdown
  <2>3. [core_states[c] EXCEPT !.tag = tag].tag = tag
    BY <1>0, <2>2 DEF CoreState, MapTags, Idle
  <2> QED
    BY <1>2, <2>1, <2>3
<1>7. ASSUME NEW c \in Core, step_Unmap_Op_Start(c) PROVE FALSE
  BY <1>2, <1>7 DEF step_Unmap_Op_Start, UnmapState
<1>8. ASSUME NEW c \in Core, step_Map_End(c) PROVE FALSE
  BY <1>3, <1>8 DEF step_Map_End
<1>9. ASSUME NEW c \in Core, step_Unmap_End(c) PROVE step_Unmap_End(core)
  BY <1>3, <1>9 DEF step_Unmap_End
<1>10. ASSUME NEW c \in Core, step_Ack_Shootdown_IPI(c) \/ step_View_Stutter(c) PROVE FALSE
  BY <1>1, <1>10 DEF step_Ack_Shootdown_IPI, step_View_Stutter, osvars
<1> QED
  BY <1>1, <1>4, <1>5, <1>6, <1>7, <1>8, <1>9, <1>10 DEF Next, KernelStep, vars

(* The kernel lock excludes: os.rs wf holds in every reachable state.      *)
THEOREM LockExclusiveCorrect == Spec => []LockExclusive
  BY IndInvariant, PTL DEF IndInv

(* A core that has answered a shootdown stays clean until the initiator    *)
(* returns, whatever the MMUs and the other cores do meanwhile.            *)
THEOREM SuccessfulIPICorrect == Spec => []successful_IPI
  BY IndInvariant, PTL DEF IndInv

(* From step_Unmap_Op_Start to step_Unmap_End the address of an unmap is   *)
(* out of the page table, and from step_Unmap_Initiate_Shootdown on the    *)
(* request vector is about this address: the kernel lock protects both.    *)
THEOREM UnmapOwnsAddressCorrect == Spec => []UnmapOwnsAddress
  BY IndInvariant, PTL DEF IndInv, UnmapOwnsAddress

(* No TLB ever holds a translation that is neither in the page table nor   *)
(* that of an unmap still in flight.                                       *)
THEOREM NoStaleTranslationCorrect == Spec => []NoStaleTranslation
  BY IndInvariant, PTL DEF IndInv

(* When an unmap returns, step_Unmap_End, no core can reach the frame      *)
(* through the old address.                                                *)
THEOREM UnmapReturnsCleanCorrect == Spec => UnmapReturnsClean
<1> DEFINE Clean ==
      \A core \in Core : core_states[core].tag \in UnmapOpTags /\ core_states'[core] = Idle =>
        LET vaddr == core_states[core].vaddr IN
        /\ vaddr \notin DOMAIN pt'
        /\ \A c \in Core : vaddr \notin DOMAIN tlb'[c]
<1>1. IndInv /\ [Next]_vars => Clean
  <2> SUFFICES ASSUME IndInv, [Next]_vars, NEW core \in Core,
                      core_states[core].tag \in UnmapOpTags, core_states'[core] = Idle
               PROVE  /\ core_states[core].vaddr \notin DOMAIN pt'
                      /\ \A c \in Core : core_states[core].vaddr \notin DOMAIN tlb'[c]
    OBVIOUS
  <2> DEFINE vaddr == core_states[core].vaddr
  <2>1. step_Unmap_End(core)
    BY ReturnStep DEF IndInv
  <2>2. UNCHANGED <<pt, tlb>>
    BY <2>1 DEF step_Unmap_End, PtStutter, step_PTMemOp
  <2>3. vaddr \notin DOMAIN pt
    BY DEF IndInv, successful_unmaps
  <2>4. ASSUME NEW c \in Core, vaddr \in DOMAIN tlb[c] PROVE FALSE
    <3>1. CASE core_states[core].tag = "UnmapShootdownWaiting"
      BY <2>1, <2>4, <3>1 DEF step_Unmap_End, IndInv, successful_IPI
    <3>2. CASE core_states[core].tag # "UnmapShootdownWaiting"
      <4>1. core_states[core].result = Err
        BY <2>1, <3>2 DEF step_Unmap_End
      <4>2. PICK other \in Core : /\ core_states[other].tag \in UnmapOpTags
                                 /\ core_states[other].result = tlb[c][vaddr]
        BY <2>3, <2>4 DEF IndInv, NoStaleTranslation, BeingUnmapped
      <4>3. other = core
        BY <4>2 DEF IndInv, LockExclusive, holds_lock, UnmapOpTags
      <4>4. tlb[c] \in Mappings
        BY DEF IndInv, TypeOK
      <4>5. tlb[c][vaddr] \in PTE
        BY <2>4, <4>4, MappingsFacts
      <4> QED
        BY <4>1, <4>2, <4>3, <4>5, OSAssumption
    <3> QED
      BY <3>1, <3>2
  <2> QED
    BY <2>2, <2>3, <2>4
<1> QED
  BY <1>1, IndInvariant, PTL DEF Spec, UnmapReturnsClean

-----------------------------------------------------------------------------
(* Mappings and calls in flight never overlap, in virtual or in physical   *)
(* memory. The checks when a call starts only compare it with what is      *)
(* mapped or in flight at that moment. That they suffice until it ends     *)
(* needs more than the two invariants: an unmap that waits has the size of *)
(* whatever its address maps to later, and what it has removed is in no    *)
(* table any more.                                                         *)

(* The size of the region a call works on, when the page table is map. *)
CallSize(cs, map) ==
  CASE cs.tag \in MapTags -> cs.pte.frame.size
    [] cs.tag = "UnmapWaiting" /\ cs.vaddr \in DOMAIN map -> map[cs.vaddr].frame.size
    [] cs.tag \in UnmapOpTags /\ cs.result # Err -> cs.result.frame.size
    [] OTHER -> 0

CallRegion(cs, map) == Region(cs.vaddr, CallSize(cs, map))

MappingRegion(map, vaddr) == Region(vaddr, map[vaddr].frame.size)

(* The frames of a call that the page table does not hold: to be mapped,   *)
(* or already unmapped.                                                    *)
TakenFrames(cs) ==
  CASE cs.tag \in MapTags -> {cs.pte.frame}
    [] cs.tag \in UnmapOpTags /\ cs.result # Err -> {cs.result.frame}
    [] OTHER -> {}

(* Mappings that exist, are to be made or have been removed are pages.     *)
PagesValid ==
  /\ \A vaddr \in DOMAIN pt : MapArgsValid(vaddr, pt[vaddr])
  /\ \A core \in Core : LET cs == core_states[core] IN
       /\ cs.tag \in MapTags => MapArgsValid(cs.vaddr, cs.pte)
       /\ cs.tag \in UnmapOpTags /\ cs.result # Err => MapArgsValid(cs.vaddr, cs.result)

CallsApart ==
  \A c, d \in Core : c # d /\ core_states[c] # Idle /\ core_states[d] # Idle =>
    ~overlap(CallRegion(core_states[c], pt), CallRegion(core_states[d], pt))

MappingsApart ==
  \A v, w \in DOMAIN pt : v # w => ~overlap(MappingRegion(pt, v), MappingRegion(pt, w))

RemovedApart ==
  \A core \in Core : core_states[core].tag \in UnmapOpTags /\ core_states[core].result # Err =>
    \A v \in DOMAIN pt : ~overlap(CallRegion(core_states[core], pt), MappingRegion(pt, v))

FramesApart ==
  \A v, w \in DOMAIN pt : v # w => ~overlap(pt[v].frame, pt[w].frame)

TakenApart ==
  \A core \in Core : \A frame \in TakenFrames(core_states[core]) : \A v \in DOMAIN pt :
    ~overlap(frame, pt[v].frame)

MapFramesApart ==
  \A c, d \in Core : c # d /\ core_states[c].tag \in MapTags =>
    \A frame \in TakenFrames(core_states[d]) : ~overlap(core_states[c].pte.frame, frame)

OverlapInv ==
  /\ PagesValid
  /\ CallsApart
  /\ MappingsApart
  /\ RemovedApart
  /\ FramesApart
  /\ TakenApart
  /\ MapFramesApart

-----------------------------------------------------------------------------
(* Overlap of regions does not depend on their order. *)
LEMMA OverlapRegions ==
  ASSUME NEW b1 \in Nat, NEW s1 \in Nat, NEW b2 \in Nat, NEW s2 \in Nat
  PROVE  overlap(Region(b1, s1), Region(b2, s2)) <=>
           \/ b1 = b2
           \/ b1 < b2 /\ b2 < b1 + s1
           \/ b2 < b1 /\ b1 < b2 + s2
  BY DEF overlap, Region

LEMMA OverlapSymmetric ==
  ASSUME NEW r1 \in MemRegion, NEW r2 \in MemRegion
  PROVE  overlap(r1, r2) <=> overlap(r2, r1)
  BY DEF overlap, MemRegion

LEMMA EntryTypes ==
  ASSUME NEW pte \in PTE
  PROVE  /\ pte.frame \in MemRegion /\ pte.frame.base \in Nat /\ pte.frame.size \in Nat
         /\ pte # Err
  BY OSAssumption DEF PageTableEntry, MemRegion

(* What the definition of os.rs looks up is the size of the call. *)
LEMMA SizeOfCall ==
  ASSUME NEW cs
  PROVE  vmem_pte_size(cs) = CallSize(cs, pt)
<1>1. \A f : (CHOOSE g \in {f} : TRUE) = f
  OBVIOUS
<1>2. CASE cs.tag \in MapTags
  BY <1>1, <1>2 DEF vmem_pte_size, InflightFrames, CallSize, MapTags, UnmapOpTags
<1>3. CASE cs.tag = "UnmapWaiting"
  BY <1>1, <1>3 DEF vmem_pte_size, InflightFrames, CallSize, MapTags, UnmapOpTags
<1>4. CASE cs.tag \in UnmapOpTags
  BY <1>1, <1>4 DEF vmem_pte_size, InflightFrames, CallSize, MapTags, UnmapOpTags
<1>5. CASE cs.tag \notin MapTags \cup UnmapOpTags \cup {"UnmapWaiting"}
  BY <1>5 DEF vmem_pte_size, InflightFrames, CallSize, MapTags, UnmapOpTags
<1> QED
  BY <1>2, <1>3, <1>4, <1>5

LEMMA CallTypes ==
  ASSUME TypeOK, NEW core \in Core
  PROVE  /\ CallSize(core_states[core], pt) \in Nat
         /\ core_states[core] # Idle => core_states[core].vaddr \in Nat
         /\ TakenFrames(core_states[core]) \subseteq MemRegion
<1>1. pt \in Mappings /\ VAddr \subseteq Nat
  BY OSAssumption DEF TypeOK
<1>2. \A v \in DOMAIN pt : pt[v] \in PTE
  BY <1>1, MappingsFacts
<1>3. \A pte \in PTE : pte.frame \in MemRegion /\ pte.frame.size \in Nat
  BY EntryTypes
<1> QED
  BY <1>1, <1>2, <1>3, CoreFields DEF CallSize, TakenFrames

-----------------------------------------------------------------------------
(* A core that goes on with its call, or returns from it: its new state    *)
(* claims nothing that the old one did not claim.                          *)
Continues(cs, new) ==
  \/ new = Idle
  \/ new = cs
  \/ /\ cs.tag \in MapTags /\ new.tag \in MapTags
     /\ new.vaddr = cs.vaddr /\ new.pte = cs.pte
  \/ /\ cs.tag \in UnmapOpTags /\ new.tag \in UnmapOpTags
     /\ new.vaddr = cs.vaddr /\ new.result = cs.result

LEMMA ContinuesFacts ==
  ASSUME NEW cs \in CoreState, NEW new, Continues(cs, new), new # Idle
  PROVE  /\ cs # Idle
         /\ new.vaddr = cs.vaddr
         /\ \A map : CallSize(new, map) = CallSize(cs, map)
         /\ \A map : CallRegion(new, map) = CallRegion(cs, map)
         /\ TakenFrames(new) = TakenFrames(cs)
         /\ new.tag \in MapTags => cs.tag \in MapTags /\ new.pte = cs.pte
         /\ new.tag \in UnmapOpTags => cs.tag \in UnmapOpTags /\ new.result = cs.result
<1>1. CASE new = cs
  BY <1>1
<1>2. CASE cs.tag \in MapTags /\ new.tag \in MapTags /\ new.vaddr = cs.vaddr /\ new.pte = cs.pte
  BY <1>2 DEF MapTags, UnmapOpTags, CallSize, CallRegion, TakenFrames, Idle
<1>3. CASE /\ cs.tag \in UnmapOpTags /\ new.tag \in UnmapOpTags
           /\ new.vaddr = cs.vaddr /\ new.result = cs.result
  BY <1>3 DEF MapTags, UnmapOpTags, CallSize, CallRegion, TakenFrames, Idle
<1> QED
  BY <1>1, <1>2, <1>3 DEF Continues

LEMMA IdleFacts ==
  /\ TakenFrames(Idle) = {}
  /\ Idle.tag \notin MapTags
  /\ Idle.tag \notin UnmapOpTags
  /\ Idle.tag # "UnmapWaiting"
  BY DEF TakenFrames, Idle, MapTags, UnmapOpTags

(* Steps that leave the mappings alone and start no call. *)
LEMMA QuietStep ==
  ASSUME TypeOK, OverlapInv, pt' = pt,
         \A core \in Core : Continues(core_states[core], core_states'[core])
  PROVE  OverlapInv'
<1> DEFINE new(c) == core_states'[c]
           old(c) == core_states[c]
<1>1. \A c \in Core : new(c) # Idle =>
        /\ old(c) # Idle
        /\ new(c).vaddr = old(c).vaddr
        /\ CallRegion(new(c), pt) = CallRegion(old(c), pt)
        /\ TakenFrames(new(c)) = TakenFrames(old(c))
        /\ new(c).tag \in MapTags => old(c).tag \in MapTags /\ new(c).pte = old(c).pte
        /\ new(c).tag \in UnmapOpTags =>
             old(c).tag \in UnmapOpTags /\ new(c).result = old(c).result
  <2> SUFFICES ASSUME NEW c \in Core, new(c) # Idle PROVE
        /\ old(c) # Idle
        /\ new(c).vaddr = old(c).vaddr
        /\ CallRegion(new(c), pt) = CallRegion(old(c), pt)
        /\ TakenFrames(new(c)) = TakenFrames(old(c))
        /\ new(c).tag \in MapTags => old(c).tag \in MapTags /\ new(c).pte = old(c).pte
        /\ new(c).tag \in UnmapOpTags =>
             old(c).tag \in UnmapOpTags /\ new(c).result = old(c).result
    OBVIOUS
  <2>1. old(c) \in CoreState
    BY DEF TypeOK
  <2> QED
    BY <2>1, ContinuesFacts
<1>2. PagesValid'
  BY <1>1, IdleFacts DEF OverlapInv, PagesValid
<1>3. CallsApart'
  BY <1>1 DEF OverlapInv, CallsApart
<1>4. MappingsApart' /\ FramesApart'
  BY DEF OverlapInv, MappingsApart, FramesApart
<1>5. RemovedApart'
  BY <1>1, IdleFacts DEF OverlapInv, RemovedApart
<1>6. TakenApart'
  BY <1>1, IdleFacts DEF OverlapInv, TakenApart
<1>7. MapFramesApart'
  BY <1>1, IdleFacts DEF OverlapInv, MapFramesApart
<1> QED
  BY <1>2, <1>3, <1>4, <1>5, <1>6, <1>7 DEF OverlapInv

(* Cores are quiet in a step that changes the tag of one of them within a  *)
(* phase of its call, or that ends it.                                     *)
LEMMA TagContinues ==
  ASSUME TypeOK, NEW core \in Core, NEW tag,
         \/ core_states[core].tag = "MapWaiting" /\ tag = "MapExecuting"
         \/ core_states[core].tag \in UnmapOpTags /\ tag \in UnmapOpTags,
         core_states' = [core_states EXCEPT ![core].tag = tag]
  PROVE  \A c \in Core : Continues(core_states[c], core_states'[c])
<1>1. core_states \in [Core -> CoreState]
  BY DEF TypeOK
<1>2. Continues(core_states[core], core_states'[core])
  BY <1>1 DEF CoreState, Idle, MapTags, UnmapOpTags, Continues
<1> QED
  BY <1>1, <1>2 DEF Continues

(* A call that starts is compared with all the others. *)
LEMMA StartStep ==
  ASSUME TypeOK, OverlapInv, pt' = pt, NEW core \in Core, core_states[core] = Idle,
         NEW new \in CoreState, new # Idle, new.tag \in MapTags \cup {"UnmapWaiting"},
         core_states' = [core_states EXCEPT ![core] = new],
         \A c \in Core : core_states[c] # Idle =>
           ~overlap(CallRegion(core_states[c], pt), CallRegion(new, pt)),
         new.tag \in MapTags =>
           /\ MapArgsValid(new.vaddr, new.pte)
           /\ \A v \in DOMAIN pt : ~overlap(new.pte.frame, pt[v].frame)
           /\ \A c \in Core : \A frame \in TakenFrames(core_states[c]) :
                ~overlap(new.pte.frame, frame)
  PROVE  OverlapInv'
<1>1. core_states' \in [Core -> CoreState] /\ core_states'[core] = new
  BY DEF TypeOK
<1>2. \A c \in Core : c # core => core_states'[c] = core_states[c]
  BY DEF TypeOK
<1>3. PagesValid'
  BY <1>1, <1>2 DEF OverlapInv, PagesValid, MapTags, UnmapOpTags
<1>4. CallsApart'
  <2>1. new.vaddr \in Nat /\ CallSize(new, pt) \in Nat
    <3>1. new.vaddr \in VAddr /\ (new.tag \in MapTags => new.pte \in PTE)
      BY DEF CoreState, MapTags, UnmapOpTags, Idle
    <3>2. pt \in Mappings /\ (\A v \in DOMAIN pt : pt[v] \in PTE)
      BY MappingsFacts DEF TypeOK
    <3> QED
      BY <3>1, <3>2, EntryTypes, OSAssumption DEF CallSize, MapTags, UnmapOpTags
  <2>2. \A c \in Core : core_states[c] # Idle =>
           ~overlap(CallRegion(new, pt), CallRegion(core_states[c], pt))
    <3> SUFFICES ASSUME NEW c \in Core, core_states[c] # Idle
                 PROVE  ~overlap(CallRegion(new, pt), CallRegion(core_states[c], pt))
      OBVIOUS
    <3>1. core_states[c].vaddr \in Nat /\ CallSize(core_states[c], pt) \in Nat
      BY CallTypes
    <3>2. CallRegion(new, pt) \in MemRegion /\ CallRegion(core_states[c], pt) \in MemRegion
      BY <2>1, <3>1 DEF CallRegion, Region, MemRegion
    <3> QED
      BY <3>2, OverlapSymmetric
  <2> QED
    BY <1>1, <1>2, <2>2 DEF OverlapInv, CallsApart
<1>5. MappingsApart' /\ FramesApart'
  BY DEF OverlapInv, MappingsApart, FramesApart
<1>6. RemovedApart'
  BY <1>1, <1>2 DEF OverlapInv, RemovedApart, MapTags, UnmapOpTags
<1>7. new.tag \in MapTags => TakenFrames(new) = {new.pte.frame}
  BY DEF TakenFrames, MapTags, UnmapOpTags
<1>8. new.tag \notin MapTags => TakenFrames(new) = {}
  BY DEF TakenFrames, UnmapOpTags
<1>9. TakenApart'
  BY <1>1, <1>2, <1>7, <1>8 DEF OverlapInv, TakenApart
<1>10. MapFramesApart'
  <2>1. ASSUME NEW c \in Core, c # core, core_states[c].tag \in MapTags, new.tag \in MapTags
        PROVE  ~overlap(core_states[c].pte.frame, new.pte.frame)
    <3>1. TakenFrames(core_states[c]) = {core_states[c].pte.frame}
      BY <2>1 DEF TakenFrames, MapTags, UnmapOpTags
    <3>2. core_states[c].pte \in PTE /\ new.pte \in PTE
      BY <2>1, CoreFields DEF CoreState, MapTags, UnmapOpTags, Idle
    <3> QED
      BY <2>1, <3>1, <3>2, EntryTypes, OverlapSymmetric
  <2> QED
    BY <1>1, <1>2, <1>7, <1>8, <2>1 DEF OverlapInv, MapFramesApart
<1> QED
  BY <1>3, <1>4, <1>5, <1>6, <1>9, <1>10 DEF OverlapInv

(* An unmap takes its mapping out of the page table. *)
LEMMA RemoveStep ==
  ASSUME TypeOK, OverlapInv, NEW core \in Core, step_Unmap_Op_Start(core)
  PROVE  OverlapInv'
<1> DEFINE cs     == core_states[core]
           vaddr  == cs.vaddr
           result == IF vaddr \in DOMAIN pt THEN pt[vaddr] ELSE Err
           new    == core_states'[core]
<1>1. /\ cs.tag = "UnmapWaiting" /\ cs # Idle
      /\ core_states \in [Core -> CoreState]
      /\ pt \in Mappings
      /\ pt' = Remove(pt, vaddr)
      /\ new = UnmapState("UnmapOpExecuting", cs.ULT_id, vaddr, result)
      /\ \A c \in Core : c # core => core_states'[c] = core_states[c]
  BY CoreFields DEF step_Unmap_Op_Start, PtUnmapStart, TypeOK
<1>2. DOMAIN pt' = DOMAIN pt \ {vaddr} /\ \A v \in DOMAIN pt' : pt'[v] = pt[v]
  <2>1. /\ DOMAIN Remove(pt, vaddr) = DOMAIN pt \ {vaddr}
        /\ \A v \in DOMAIN pt : v # vaddr => Remove(pt, vaddr)[v] = pt[v]
    BY <1>1, RemoveFacts
  <2> QED
    BY <1>1, <2>1
<1>3. new.tag = "UnmapOpExecuting" /\ new.vaddr = vaddr /\ new.result = result
  BY <1>1 DEF UnmapState
<1>4. \A v \in DOMAIN pt : pt[v] \in PTE /\ pt[v] # Err
  BY <1>1, MappingsFacts, EntryTypes
<1>5. /\ CallSize(new, pt') = CallSize(cs, pt)
      /\ result # Err => TakenFrames(new) = {pt[vaddr].frame} /\ vaddr \in DOMAIN pt
      /\ result = Err => TakenFrames(new) = {}
      /\ vaddr \in DOMAIN pt => CallSize(cs, pt) = pt[vaddr].frame.size
  BY <1>1, <1>3, <1>4 DEF CallSize, TakenFrames, MapTags, UnmapOpTags
<1>6. ASSUME NEW c \in Core, c # core, core_states[c] # Idle
      PROVE  core_states[c].vaddr # vaddr /\ CallSize(core_states[c], pt') = CallSize(core_states[c], pt)
  <2>1. core_states[c].vaddr # vaddr
    <3>1. ~overlap(CallRegion(core_states[c], pt), CallRegion(cs, pt))
      BY <1>1, <1>6 DEF OverlapInv, CallsApart
    <3> QED
      BY <1>1, <1>6, <3>1, CallTypes DEF overlap, CallRegion, Region
  <2> QED
    BY <1>2, <2>1 DEF CallSize
<1>7. PagesValid'
  BY <1>1, <1>2, <1>3, <1>4 DEF OverlapInv, PagesValid, MapTags, UnmapOpTags
<1>8. CallsApart'
  <2>1. CallRegion(new, pt') = CallRegion(cs, pt)
    BY <1>3, <1>5 DEF CallRegion
  <2>2. \A c \in Core : c # core /\ core_states[c] # Idle =>
          CallRegion(core_states'[c], pt') = CallRegion(core_states[c], pt)
    BY <1>1, <1>6 DEF CallRegion
  <2>3. \A c \in Core : core_states'[c] # Idle =>
          /\ core_states[c] # Idle
          /\ CallRegion(core_states'[c], pt') = CallRegion(core_states[c], pt)
    BY <1>1, <2>1, <2>2
  <2> QED
    BY <2>3 DEF OverlapInv, CallsApart
<1>9. MappingsApart' /\ FramesApart'
  BY <1>2 DEF OverlapInv, MappingsApart, FramesApart, MappingRegion
<1>10. RemovedApart'
  <2>1. ASSUME result # Err, NEW v \in DOMAIN pt'
        PROVE  ~overlap(CallRegion(new, pt'), MappingRegion(pt', v))
    <3>1. CallRegion(new, pt') = MappingRegion(pt, vaddr)
      BY <1>3, <1>5, <2>1 DEF CallRegion, MappingRegion
    <3> QED
      BY <1>2, <1>5, <2>1, <3>1 DEF OverlapInv, MappingsApart, MappingRegion
  <2>2. ASSUME NEW c \in Core, c # core, core_states[c].tag \in UnmapOpTags,
               core_states[c].result # Err, NEW v \in DOMAIN pt'
        PROVE  ~overlap(CallRegion(core_states[c], pt'), MappingRegion(pt', v))
    <3>1. CallRegion(core_states[c], pt') = CallRegion(core_states[c], pt)
      BY <1>6, <2>2, CoreFields DEF CallRegion
    <3> QED
      BY <1>2, <2>2, <3>1 DEF OverlapInv, RemovedApart, MappingRegion
  <2> QED
    BY <1>1, <1>3, <2>1, <2>2 DEF RemovedApart
<1>11. TakenApart'
  <2>1. ASSUME NEW frame \in TakenFrames(new), NEW v \in DOMAIN pt'
        PROVE  ~overlap(frame, pt'[v].frame)
    BY <1>2, <1>5, <2>1 DEF OverlapInv, FramesApart
  <2> QED
    BY <1>1, <1>2, <2>1 DEF OverlapInv, TakenApart
<1>12. MapFramesApart'
  <2>1. ASSUME NEW c \in Core, c # core, core_states[c].tag \in MapTags,
               NEW frame \in TakenFrames(new)
        PROVE  ~overlap(core_states[c].pte.frame, frame)
    <3>1. core_states[c].pte.frame \in TakenFrames(core_states[c])
      BY <2>1 DEF TakenFrames, MapTags, UnmapOpTags
    <3> QED
      BY <1>5, <2>1, <3>1 DEF OverlapInv, TakenApart
  <2>2. new.tag \notin MapTags
    BY <1>3 DEF MapTags
  <2> QED
    BY <1>1, <2>1, <2>2 DEF OverlapInv, MapFramesApart
<1> QED
  BY <1>7, <1>8, <1>9, <1>10, <1>11, <1>12 DEF OverlapInv

(* A map that ends enters its mapping, unless another one is in the way.   *)
LEMMA InsertStep ==
  ASSUME TypeOK, OverlapInv, NEW core \in Core, step_Map_End(core)
  PROVE  OverlapInv'
<1> DEFINE cs    == core_states[core]
           vaddr == cs.vaddr
           pte   == cs.pte
<1>1. /\ cs.tag \in MapTags /\ cs # Idle
      /\ vaddr \in VAddr /\ pte \in PTE
      /\ pt \in Mappings /\ core_states \in [Core -> CoreState]
      /\ core_states' = [core_states EXCEPT ![core] = Idle]
  BY CoreFields DEF step_Map_End, TypeOK, MapTags
<1>2. CASE candidate_mapping_overlaps_existing_vmem(pt, vaddr, pte)
  <2>1. pt' = pt
    BY <1>2 DEF step_Map_End, PtMapEnd
  <2>2. \A c \in Core : Continues(core_states[c], core_states'[c])
    BY <1>1 DEF Continues
  <2> QED
    BY <2>1, <2>2, QuietStep
<1>3. CASE ~candidate_mapping_overlaps_existing_vmem(pt, vaddr, pte)
  <2>1. /\ DOMAIN pt' = DOMAIN pt \cup {vaddr}
        /\ pt'[vaddr] = pte
        /\ \A v \in DOMAIN pt : v # vaddr => pt'[v] = pt[v]
    <3>1. /\ DOMAIN Insert(pt, vaddr, pte) = DOMAIN pt \cup {vaddr}
          /\ Insert(pt, vaddr, pte)[vaddr] = pte
          /\ \A v \in DOMAIN pt : v # vaddr => Insert(pt, vaddr, pte)[v] = pt[v]
      BY <1>1, InsertFacts
    <3> QED
      BY <1>3, <3>1 DEF step_Map_End, PtMapEnd
  <2>2. /\ core_states'[core] = Idle
        /\ \A c \in Core : c # core => core_states'[c] = core_states[c]
    BY <1>1
  <2>3. DOMAIN pt \subseteq Nat /\ \A v \in DOMAIN pt : pt[v] \in PTE
    BY <1>1, MappingsFacts, OSAssumption
  <2>4. CallSize(cs, pt) = pte.frame.size /\ TakenFrames(cs) = {pte.frame}
    BY <1>1 DEF CallSize, TakenFrames, MapTags, UnmapOpTags
  <2>5. ASSUME NEW v \in DOMAIN pt
        PROVE  /\ v # vaddr
               /\ ~overlap(Region(vaddr, pte.frame.size), Region(v, pt[v].frame.size))
               /\ ~overlap(Region(v, pt[v].frame.size), Region(vaddr, pte.frame.size))
    <3>1. ~overlap(Region(vaddr, pte.frame.size), Region(v, pt[v].frame.size))
      BY <1>3, <2>5 DEF candidate_mapping_overlaps_existing_vmem
    <3>2. vaddr \in Nat /\ v \in Nat /\ pte.frame.size \in Nat /\ pt[v].frame.size \in Nat
      BY <1>1, <2>3, EntryTypes, OSAssumption
    <3> QED
      BY <3>1, <3>2, OverlapRegions
  <2>6. ASSUME NEW v \in DOMAIN pt
        PROVE  ~overlap(pte.frame, pt[v].frame) /\ ~overlap(pt[v].frame, pte.frame)
    <3>1. ~overlap(pte.frame, pt[v].frame)
      BY <2>4 DEF OverlapInv, TakenApart
    <3> QED
      BY <1>1, <2>3, <3>1, EntryTypes, OverlapSymmetric
  <2>7. ASSUME NEW c \in Core, c # core, core_states[c] # Idle
        PROVE  /\ ~overlap(CallRegion(core_states[c], pt), Region(vaddr, pte.frame.size))
               /\ CallSize(core_states[c], pt') = CallSize(core_states[c], pt)
    <3>1. ~overlap(CallRegion(core_states[c], pt), CallRegion(cs, pt))
      BY <1>1, <2>7 DEF OverlapInv, CallsApart
    <3>2. core_states[c].vaddr # vaddr
      BY <1>1, <2>7, <3>1, CallTypes DEF overlap, CallRegion, Region
    <3>3. CallSize(core_states[c], pt') = CallSize(core_states[c], pt)
      BY <2>1, <3>2 DEF CallSize
    <3> QED
      BY <2>4, <3>1, <3>3 DEF CallRegion
  <2>8. PagesValid'
    <3>1. MapArgsValid(vaddr, pte)
      BY <1>1 DEF OverlapInv, PagesValid
    <3> QED
      BY <2>1, <2>2, <3>1, IdleFacts DEF OverlapInv, PagesValid
  <2>9. CallsApart'
    <3>1. \A c \in Core : core_states'[c] # Idle =>
            /\ core_states[c] # Idle
            /\ CallRegion(core_states'[c], pt') = CallRegion(core_states[c], pt)
      BY <2>2, <2>7 DEF CallRegion
    <3> QED
      BY <3>1 DEF OverlapInv, CallsApart
  <2>10. MappingsApart'
    BY <2>1, <2>5 DEF OverlapInv, MappingsApart, MappingRegion
  <2>11. RemovedApart'
    <3> SUFFICES ASSUME NEW c \in Core, c # core, core_states[c].tag \in UnmapOpTags,
                        core_states[c].result # Err, NEW v \in DOMAIN pt'
                 PROVE  ~overlap(CallRegion(core_states[c], pt'), MappingRegion(pt', v))
      BY <2>2, IdleFacts DEF RemovedApart
    <3>1. /\ ~overlap(CallRegion(core_states[c], pt), Region(vaddr, pte.frame.size))
          /\ CallRegion(core_states[c], pt') = CallRegion(core_states[c], pt)
      BY <2>7, CoreFields DEF CallRegion
    <3>2. CASE v = vaddr
      BY <2>1, <3>1, <3>2 DEF MappingRegion
    <3>3. CASE v # vaddr
      BY <2>1, <3>1, <3>3 DEF OverlapInv, RemovedApart, MappingRegion
    <3> QED
      BY <3>2, <3>3
  <2>12. FramesApart'
    BY <2>1, <2>6 DEF OverlapInv, FramesApart
  <2>13. TakenApart'
    <3> SUFFICES ASSUME NEW c \in Core, c # core, NEW frame \in TakenFrames(core_states[c]),
                        NEW v \in DOMAIN pt'
                 PROVE  ~overlap(frame, pt'[v].frame)
      BY <2>2, IdleFacts DEF TakenApart
    <3>1. ~overlap(pte.frame, frame)
      BY <1>1 DEF OverlapInv, MapFramesApart
    <3>2. ~overlap(frame, pte.frame)
      BY <1>1, <3>1, CallTypes, EntryTypes, OverlapSymmetric
    <3>3. CASE v = vaddr
      BY <2>1, <3>2, <3>3
    <3>4. CASE v # vaddr
      BY <2>1, <3>4 DEF OverlapInv, TakenApart
    <3> QED
      BY <3>3, <3>4
  <2>14. MapFramesApart'
    BY <2>2, IdleFacts DEF OverlapInv, MapFramesApart
  <2> QED
    BY <2>8, <2>9, <2>10, <2>11, <2>12, <2>13, <2>14 DEF OverlapInv
<1> QED
  BY <1>2, <1>3

-----------------------------------------------------------------------------
LEMMA OverlapInit == Init => OverlapInv
  BY EmptyMapType, IdleFacts
     DEF Init, HWInit, OverlapInv, PagesValid, CallsApart, MappingsApart, RemovedApart, FramesApart,
         TakenApart, MapFramesApart

(* map is called: what its guard has compared is what the waiting call     *)
(* claims.                                                                 *)
LEMMA MapStartStep ==
  ASSUME TypeOK, OverlapInv, NEW ULT_id \in ULT, NEW vaddr \in VAddr, NEW pte \in PTE,
         step_Map_Start(ULT_id, vaddr, pte)
  PROVE  OverlapInv'
<1> DEFINE core == ULT2core[ULT_id]
           new  == MapState("MapWaiting", ULT_id, vaddr, pte)
<1>1. /\ core \in Core /\ core_states[core] = Idle
      /\ core_states' = [core_states EXCEPT ![core] = new]
      /\ pt' = pt
      /\ MapArgsValid(vaddr, pte)
      /\ step_Map_sound(vaddr, pte)
  BY OSAssumption DEF step_Map_Start, PtStutter, step_Map_enabled
<1>2. new \in CoreState /\ new # Idle /\ new.tag \in MapTags \cup {"UnmapWaiting"}
  BY DEF MapState, CoreState, Idle, MapTags
<1>3. CallRegion(new, pt) = Region(vaddr, pte.frame.size)
  BY DEF CallRegion, CallSize, MapState, MapTags, UnmapOpTags
<1>4. \A c \in Core : core_states[c] # Idle =>
        ~overlap(CallRegion(core_states[c], pt), CallRegion(new, pt))
  BY <1>1, <1>3, SizeOfCall
     DEF step_Map_sound, candidate_mapping_overlaps_inflight_vmem, CallRegion
<1>5. \A c \in Core : TakenFrames(core_states[c]) \subseteq InflightFrames(core_states[c])
  BY DEF TakenFrames, InflightFrames, MapTags, UnmapOpTags
<1>6. /\ MapArgsValid(new.vaddr, new.pte)
      /\ \A v \in DOMAIN pt : ~overlap(new.pte.frame, pt[v].frame)
      /\ \A c \in Core : \A frame \in TakenFrames(core_states[c]) : ~overlap(new.pte.frame, frame)
  BY <1>1, <1>5
     DEF MapState, step_Map_sound, candidate_mapping_overlaps_existing_pmem,
         candidate_mapping_overlaps_inflight_pmem
<1> HIDE DEF new
<1> QED
  BY <1>1, <1>2, <1>4, <1>6, StartStep

LEMMA UnmapStartStep ==
  ASSUME TypeOK, OverlapInv, NEW ULT_id \in ULT, NEW vaddr \in VAddr,
         step_Unmap_Start(ULT_id, vaddr)
  PROVE  OverlapInv'
<1> DEFINE core == ULT2core[ULT_id]
           new  == UnmapWaiting(ULT_id, vaddr)
<1>1. /\ core \in Core /\ core_states[core] = Idle
      /\ core_states' = [core_states EXCEPT ![core] = new]
      /\ pt' = pt
      /\ step_Unmap_sound(vaddr)
  BY OSAssumption DEF step_Unmap_Start, PtStutter
<1>2. /\ new \in CoreState /\ new # Idle
      /\ new.tag \in MapTags \cup {"UnmapWaiting"} /\ new.tag \notin MapTags
  BY DEF UnmapWaiting, CoreState, Idle, MapTags
<1>3. CallRegion(new, pt) = Region(vaddr, IF vaddr \in DOMAIN pt THEN pt[vaddr].frame.size ELSE 0)
  BY DEF CallRegion, CallSize, UnmapWaiting, MapTags, UnmapOpTags
<1>4. \A c \in Core : core_states[c] # Idle =>
        ~overlap(CallRegion(core_states[c], pt), CallRegion(new, pt))
  BY <1>1, <1>3, SizeOfCall
     DEF step_Unmap_sound, candidate_mapping_overlaps_inflight_vmem, CallRegion
<1> HIDE DEF new
<1> QED
  BY <1>1, <1>2, <1>4, StartStep

LEMMA OverlapStep == TypeOK /\ OverlapInv /\ [Next]_vars => OverlapInv'
<1> SUFFICES ASSUME TypeOK, OverlapInv, [Next]_vars PROVE OverlapInv'
  OBVIOUS
<1>1. ASSUME pt' = pt, core_states' = core_states PROVE OverlapInv'
  BY <1>1, QuietStep DEF Continues
<1>2. ASSUME NEW core \in Core, pt' = pt, core_states' = [core_states EXCEPT ![core] = Idle]
      PROVE  OverlapInv'
  BY <1>2, QuietStep DEF Continues, TypeOK
<1>3. ASSUME NEW core \in Core, HWStep(core) PROVE OverlapInv'
  BY <1>1, <1>3
     DEF HWStep, step_HW_ReadWrite_Cached, step_ReadWrite_Cached, step_HW_ReadWrite_Pagefault,
         step_ReadWrite_Pagefault, step_HW_TLBFill, step_TLBFill, step_HW_TLBEvict, step_TLBEvict,
         osvars, hwvars
<1>4. ASSUME NEW core \in Core,
             \/ step_Map_op_Start(core)
             \/ step_Unmap_Op_End(core)
             \/ step_Unmap_Initiate_Shootdown(core)
      PROVE  OverlapInv'
  <2>1. pt' = pt
    BY <1>4 DEF step_Map_op_Start, step_Unmap_Op_End, step_Unmap_Initiate_Shootdown, PtStutter
  <2>2. \A c \in Core : Continues(core_states[c], core_states'[c])
    BY <1>4, TagContinues
       DEF step_Map_op_Start, step_Unmap_Op_End, step_Unmap_Initiate_Shootdown, UnmapOpTags
  <2> QED
    BY <2>1, <2>2, QuietStep
<1>5. ASSUME NEW core \in Core, step_Ack_Shootdown_IPI(core) \/ step_View_Stutter(core)
      PROVE  OverlapInv'
  BY <1>1, <1>5 DEF step_Ack_Shootdown_IPI, step_View_Stutter, PtStutter, PtViewStutter, osvars
<1>6. ASSUME NEW core \in Core, step_Unmap_End(core) PROVE OverlapInv'
  BY <1>2, <1>6 DEF step_Unmap_End, PtStutter
<1>7. ASSUME NEW core \in Core, KernelStep(core) PROVE OverlapInv'
  BY <1>4, <1>5, <1>6, <1>7, RemoveStep, InsertStep DEF KernelStep
<1>8. ASSUME NEW ULT_id \in ULT, SyscallStart(ULT_id) PROVE OverlapInv'
  BY <1>8, MapStartStep, UnmapStartStep DEF SyscallStart
<1>9. CASE UNCHANGED vars
  BY <1>1, <1>9 DEF vars
<1> QED
  BY <1>3, <1>7, <1>8, <1>9 DEF Next

LEMMA OverlapInvariant == Spec => []OverlapInv
  BY TypeCorrect, OverlapInit, OverlapStep, PTL DEF Spec

(* overlapping_vmem_inv of os.rs: calls in flight work on disjoint         *)
(* addresses and mappings do not overlap, although an unmap only gets its  *)
(* size from the page table when it gets the lock.                         *)
THEOREM OverlappingVmemCorrect == Spec => []overlapping_vmem_inv
<1>1. TypeOK /\ OverlapInv => inflight_map_no_overlap_inflight_vmem
  BY SizeOfCall DEF OverlapInv, CallsApart, CallRegion, inflight_map_no_overlap_inflight_vmem
<1>2. TypeOK /\ OverlapInv => existing_map_no_overlap_existing_vmem
  BY DEF OverlapInv, MappingsApart, MappingRegion, existing_map_no_overlap_existing_vmem,
         candidate_mapping_overlaps_existing_vmem, Remove
<1>3. TypeOK /\ OverlapInv => overlapping_vmem_inv
  BY <1>1, <1>2 DEF overlapping_vmem_inv
<1> QED
  BY <1>3, TypeCorrect, OverlapInvariant, PTL

(* A frame that some TLB still reaches, even through a translation that is *)
(* being shot down, is the target of no other mapping: step_Map_sound      *)
(* compares a new frame with those of the unmaps in flight too.            *)
THEOREM CachedFrameNotReusedCorrect == Spec => []CachedFrameNotReused
<1>1. IndInv /\ OverlapInv => CachedFrameNotReused
  <2> SUFFICES ASSUME IndInv, OverlapInv, NEW core \in Core, NEW vaddr \in DOMAIN tlb[core],
                      NEW other \in DOMAIN pt \ {vaddr}
               PROVE  ~overlap(tlb[core][vaddr].frame, pt[other].frame)
    BY DEF CachedFrameNotReused
  <2>1. CASE vaddr \in DOMAIN pt /\ pt[vaddr] = tlb[core][vaddr]
    BY <2>1 DEF OverlapInv, FramesApart
  <2>2. CASE BeingUnmapped(vaddr, tlb[core][vaddr])
    <3>1. PICK c \in Core : /\ core_states[c].tag \in UnmapOpTags
                            /\ core_states[c].result = tlb[core][vaddr]
      BY <2>2 DEF BeingUnmapped
    <3>2. tlb[core][vaddr] \in PTE
      BY MappingsFacts DEF IndInv, TypeOK
    <3>3. tlb[core][vaddr].frame \in TakenFrames(core_states[c])
      BY <3>1, <3>2, EntryTypes DEF TakenFrames, MapTags, UnmapOpTags
    <3> QED
      BY <3>3 DEF OverlapInv, TakenApart
  <2> QED
    BY <2>1, <2>2 DEF IndInv, NoStaleTranslation
<1> QED
  BY <1>1, IndInvariant, OverlapInvariant, PTL

-----------------------------------------------------------------------------
(* Words and pages. *)

LEMMA DivMod ==
  ASSUME NEW a \in Nat, NEW w \in Nat \ {0}
  PROVE  /\ a \div w \in Nat
         /\ a - w * (a \div w) = a % w
<1>1. a \div w \in Nat
  OBVIOUS
<1>2. a - w * (a \div w) = a % w
  BY SMTT(60)
<1> QED
  BY <1>1, <1>2

LEMMA MultipleFacts ==
  ASSUME NEW k \in Nat, NEW w \in Nat \ {0}
  PROVE  (w * k) % w = 0 /\ (w * k) \div w = k
  OBVIOUS

LEMMA MultipleOf ==
  ASSUME NEW a \in Nat, NEW w \in Nat \ {0}, a % w = 0
  PROVE  \E k \in Nat : a = w * k /\ a \div w = k
  BY DivMod

(* A multiple of a page size is a multiple of the word size. *)
LEMMA MultipleTransitive ==
  ASSUME NEW a \in Nat, NEW s \in Nat \ {0}, NEW w \in Nat \ {0}, a % s = 0, s % w = 0
  PROVE  a % w = 0
<1>1. PICK q \in Nat : a = s * q
  BY MultipleOf
<1>2. PICK p \in Nat : s = w * p
  BY MultipleOf
<1>3. a = w * (p * q) /\ p * q \in Nat
  BY <1>1, <1>2
<1> QED
  BY <1>3, MultipleFacts

(* Moving an offset from one region to another keeps words aligned. *)
LEMMA MultipleShift ==
  ASSUME NEW w \in Nat \ {0}, NEW x \in Nat, NEW b \in Nat, NEW f \in Nat, b <= x,
         x % w = 0, b % w = 0, f % w = 0
  PROVE  f + (x - b) \in Nat /\ (f + (x - b)) % w = 0
<1>1. PICK p \in Nat : x = w * p
  BY MultipleOf
<1>2. PICK q \in Nat : b = w * q
  BY MultipleOf
<1>3. PICK r \in Nat : f = w * r
  BY MultipleOf
<1>4. q <= p
  BY <1>1, <1>2
<1>5. PICK d \in Nat : p = q + d
  <2>1. p - q \in Nat /\ p = q + (p - q)
    BY <1>4
  <2> QED
    BY <2>1
<1>6. f + (x - b) = w * (r + d) /\ r + d \in Nat
  BY <1>1, <1>2, <1>3, <1>5
<1>7. w * (r + d) \in Nat
  BY <1>6
<1> QED
  BY <1>6, <1>7, MultipleFacts

LEMMA WordFacts ==
  /\ WORD_SIZE \in Nat \ {0}
  /\ \A idx \in Nat : /\ idx * WORD_SIZE \in Nat
                      /\ aligned(idx * WORD_SIZE, WORD_SIZE)
                      /\ word_index_spec(idx * WORD_SIZE) = idx
  /\ \A addr \in Nat : aligned(addr, WORD_SIZE) =>
       /\ word_index_spec(addr) \in Nat
       /\ word_index_spec(addr) * WORD_SIZE = addr
<1>1. WORD_SIZE \in Nat \ {0}
  BY SizesAssumption
<1>2. ASSUME NEW idx \in Nat
      PROVE  /\ idx * WORD_SIZE \in Nat
             /\ aligned(idx * WORD_SIZE, WORD_SIZE)
             /\ word_index_spec(idx * WORD_SIZE) = idx
  <2>1. idx * WORD_SIZE = WORD_SIZE * idx
    BY <1>1
  <2> QED
    BY <1>1, <2>1, MultipleFacts DEF aligned, word_index_spec
<1>3. ASSUME NEW addr \in Nat, aligned(addr, WORD_SIZE)
      PROVE  /\ word_index_spec(addr) \in Nat
             /\ word_index_spec(addr) * WORD_SIZE = addr
  <2>1. PICK k \in Nat : addr = WORD_SIZE * k /\ addr \div WORD_SIZE = k
    BY <1>1, <1>3, MultipleOf DEF aligned
  <2> QED
    BY <1>1, <2>1 DEF word_index_spec
<1> QED
  BY <1>1, <1>2, <1>3

(* Pages start and end at words. *)
LEMMA PageWords ==
  ASSUME NEW vaddr \in Nat, NEW pte \in PageTableEntry, MapArgsValid(vaddr, pte)
  PROVE  /\ aligned(vaddr, WORD_SIZE)
         /\ aligned(pte.frame.base, WORD_SIZE)
         /\ vaddr + pte.frame.size < UPPER_VADDR
         /\ pte.frame.base \in Nat
         /\ pte.frame.size \in Nat \ {0}
<1>1. pte.frame.base \in Nat /\ pte.frame.size \in Nat
  BY DEF PageTableEntry, MemRegion
<1>2. pte.frame.size \in PAGE_SIZES /\ pte.frame.size # 0 /\ pte.frame.size % WORD_SIZE = 0
  BY SizesAssumption DEF MapArgsValid
<1>3. vaddr % pte.frame.size = 0 /\ pte.frame.base % pte.frame.size = 0
  BY DEF MapArgsValid, aligned
<1> QED
  BY <1>1, <1>2, <1>3, MultipleTransitive, SizesAssumption
     DEF aligned, MapArgsValid, candidate_mapping_in_bounds

-----------------------------------------------------------------------------
(***************************************************************************)
(* The virtual memory behind a table of mappings. Pages is what OverlapInv *)
(* says of the page table and of each of its parts.                        *)
(***************************************************************************)
Pages(maps) ==
  /\ DOMAIN maps \subseteq Nat
  /\ \A v \in DOMAIN maps : maps[v] \in PageTableEntry /\ MapArgsValid(v, maps[v])
  /\ \A v, w \in DOMAIN maps : v # w =>
       /\ ~overlap(MappingRegion(maps, v), MappingRegion(maps, w))
       /\ ~overlap(maps[v].frame, maps[w].frame)

Reaches(base, pte, vaddr) == between(vaddr, base, base + pte.frame.size)

Words(maps) == HL!mem_domain_from_mappings(maps)

WordBehind(maps, idx) ==
  LET base == CHOOSE b \in DOMAIN maps : Reaches(b, maps[b], idx * WORD_SIZE) IN
  PmemIdx(idx * WORD_SIZE, base, maps[base])

VmemOf(maps, memory) == [idx \in Words(maps) |-> memory[WordBehind(maps, idx)]]

LEMMA InterpVmem ==
  /\ interp_mem_domain = Words(effective_mappings)
  /\ interp_vmem = VmemOf(effective_mappings, mem)
<1>1. interp_mem_domain = Words(effective_mappings)
  BY DEF interp_mem_domain, Words, HL!mem_domain_from_mappings, HL!mem_domain_from_entry_contains,
         between, HL!between, PmemIdx, word_index_spec, HL!word_index_spec
<1>2. \A idx : VmemToPmem(idx) = WordBehind(effective_mappings, idx)
  BY DEF VmemToPmem, WordBehind, Reaches
<1> QED
  BY <1>1, <1>2 DEF interp_vmem, VmemOf

LEMMA WordsFacts ==
  ASSUME NEW maps, NEW idx
  PROVE  idx \in Words(maps) <=>
           /\ idx \in 0 .. UPPER_VADDR \div WORD_SIZE
           /\ \E base \in DOMAIN maps :
                /\ Reaches(base, maps[base], idx * WORD_SIZE)
                /\ PmemIdx(idx * WORD_SIZE, base, maps[base]) < phys_mem_size
  BY DEF Words, HL!mem_domain_from_mappings, HL!mem_domain_from_entry_contains, Reaches,
         between, HL!between, PmemIdx, word_index_spec, HL!word_index_spec

(* An address is reached through one mapping only. *)
LEMMA OneBase ==
  ASSUME NEW maps, Pages(maps), NEW vaddr \in Nat,
         NEW b1 \in DOMAIN maps, Reaches(b1, maps[b1], vaddr),
         NEW b2 \in DOMAIN maps, Reaches(b2, maps[b2], vaddr)
  PROVE  b1 = b2
<1>1. b1 \in Nat /\ b2 \in Nat /\ maps[b1].frame.size \in Nat /\ maps[b2].frame.size \in Nat
  BY DEF Pages, PageTableEntry, MemRegion
<1>2. overlap(MappingRegion(maps, b1), MappingRegion(maps, b2))
  BY <1>1, OverlapRegions DEF Reaches, between, MappingRegion
<1> QED
  BY <1>2 DEF Pages

LEMMA BehindBase ==
  ASSUME NEW maps, Pages(maps), NEW idx \in Nat,
         NEW base \in DOMAIN maps, Reaches(base, maps[base], idx * WORD_SIZE)
  PROVE  WordBehind(maps, idx) = PmemIdx(idx * WORD_SIZE, base, maps[base])
<1>1. idx * WORD_SIZE \in Nat
  BY WordFacts
<1> DEFINE chosen == CHOOSE b \in DOMAIN maps : Reaches(b, maps[b], idx * WORD_SIZE)
<1>2. chosen \in DOMAIN maps /\ Reaches(chosen, maps[chosen], idx * WORD_SIZE)
  OBVIOUS
<1>3. chosen = base
  <2> HIDE DEF chosen
  <2> QED
    BY <1>1, <1>2, OneBase
<1> QED
  BY <1>3 DEF WordBehind

(* The word behind an address is within the frame of its page, aligned.    *)
LEMMA BehindFrame ==
  ASSUME NEW base \in Nat, NEW pte \in PageTableEntry, MapArgsValid(base, pte),
         NEW vaddr \in Nat, aligned(vaddr, WORD_SIZE), Reaches(base, pte, vaddr)
  PROVE  /\ PmemIdx(vaddr, base, pte) \in Nat
         /\ PmemIdx(vaddr, base, pte) * WORD_SIZE = pte.frame.base + (vaddr - base)
         /\ Reaches(pte.frame.base, pte, PmemIdx(vaddr, base, pte) * WORD_SIZE)
<1>1. /\ aligned(base, WORD_SIZE) /\ aligned(pte.frame.base, WORD_SIZE)
      /\ pte.frame.base \in Nat /\ pte.frame.size \in Nat
  BY PageWords
<1>2. base <= vaddr /\ vaddr < base + pte.frame.size
  BY DEF Reaches, between
<1>3. /\ pte.frame.base + (vaddr - base) \in Nat
      /\ aligned(pte.frame.base + (vaddr - base), WORD_SIZE)
  BY <1>1, <1>2, MultipleShift, SizesAssumption DEF aligned
<1>4. /\ PmemIdx(vaddr, base, pte) \in Nat
      /\ PmemIdx(vaddr, base, pte) * WORD_SIZE = pte.frame.base + (vaddr - base)
  BY <1>3, WordFacts DEF PmemIdx
<1> QED
  BY <1>1, <1>2, <1>4 DEF Reaches, between

(* Two pages in disjoint frames share no word of physical memory. *)
LEMMA FramesShareNoWord ==
  ASSUME NEW b1 \in Nat, NEW p1 \in PageTableEntry, MapArgsValid(b1, p1),
         NEW v1 \in Nat, aligned(v1, WORD_SIZE), Reaches(b1, p1, v1),
         NEW b2 \in Nat, NEW p2 \in PageTableEntry, MapArgsValid(b2, p2),
         NEW v2 \in Nat, aligned(v2, WORD_SIZE), Reaches(b2, p2, v2),
         ~overlap(p1.frame, p2.frame)
  PROVE  PmemIdx(v1, b1, p1) # PmemIdx(v2, b2, p2)
<1> SUFFICES ASSUME PmemIdx(v1, b1, p1) = PmemIdx(v2, b2, p2) PROVE FALSE
  OBVIOUS
<1> DEFINE addr == PmemIdx(v1, b1, p1) * WORD_SIZE
<1>1. addr \in Nat /\ Reaches(p1.frame.base, p1, addr) /\ Reaches(p2.frame.base, p2, addr)
  BY BehindFrame, WordFacts
<1>2. /\ p1.frame.base \in Nat /\ p1.frame.size \in Nat
      /\ p2.frame.base \in Nat /\ p2.frame.size \in Nat
  BY DEF PageTableEntry, MemRegion
<1> HIDE DEF addr
<1> QED
  BY <1>1, <1>2 DEF Reaches, between, overlap

(* Within a page, different words have different words behind them. *)
LEMMA PageInjective ==
  ASSUME NEW base \in Nat, NEW pte \in PageTableEntry, MapArgsValid(base, pte),
         NEW v1 \in Nat, aligned(v1, WORD_SIZE), Reaches(base, pte, v1),
         NEW v2 \in Nat, aligned(v2, WORD_SIZE), Reaches(base, pte, v2),
         PmemIdx(v1, base, pte) = PmemIdx(v2, base, pte)
  PROVE  v1 = v2
<1>1. pte.frame.base + (v1 - base) = pte.frame.base + (v2 - base)
  BY BehindFrame
<1> QED
  BY <1>1 DEF PageTableEntry, MemRegion

(* What is known of a word of virtual memory: the page it lies in. *)
LEMMA WordInPage ==
  ASSUME NEW maps, Pages(maps), NEW idx \in Words(maps)
  PROVE  /\ idx \in Nat /\ idx * WORD_SIZE \in Nat /\ aligned(idx * WORD_SIZE, WORD_SIZE)
         /\ WordBehind(maps, idx) \in 0 .. phys_mem_size - 1
         /\ \E base \in DOMAIN maps :
              /\ base \in Nat
              /\ maps[base] \in PageTableEntry
              /\ MapArgsValid(base, maps[base])
              /\ Reaches(base, maps[base], idx * WORD_SIZE)
              /\ WordBehind(maps, idx) = PmemIdx(idx * WORD_SIZE, base, maps[base])
<1>1. idx \in Nat /\ idx * WORD_SIZE \in Nat /\ aligned(idx * WORD_SIZE, WORD_SIZE)
  BY WordsFacts, WordFacts
<1>2. PICK base \in DOMAIN maps : /\ Reaches(base, maps[base], idx * WORD_SIZE)
                                  /\ PmemIdx(idx * WORD_SIZE, base, maps[base]) < phys_mem_size
  BY WordsFacts
<1>3. base \in Nat /\ maps[base] \in PageTableEntry /\ MapArgsValid(base, maps[base])
  BY DEF Pages
<1>4. WordBehind(maps, idx) = PmemIdx(idx * WORD_SIZE, base, maps[base])
  BY <1>1, <1>2, BehindBase
<1>5. PmemIdx(idx * WORD_SIZE, base, maps[base]) \in Nat
  BY <1>1, <1>2, <1>3, BehindFrame
<1>6. WordBehind(maps, idx) \in 0 .. phys_mem_size - 1
  BY <1>2, <1>4, <1>5, HardwareAssumption
<1> QED
  BY <1>1, <1>2, <1>3, <1>4, <1>6

(* No physical memory is reachable through two virtual addresses. *)
LEMMA WordsInjective ==
  ASSUME NEW maps, Pages(maps), NEW i \in Words(maps), NEW j \in Words(maps),
         WordBehind(maps, i) = WordBehind(maps, j)
  PROVE  i = j
<1>1. /\ i \in Nat /\ i * WORD_SIZE \in Nat /\ aligned(i * WORD_SIZE, WORD_SIZE)
      /\ j \in Nat /\ j * WORD_SIZE \in Nat /\ aligned(j * WORD_SIZE, WORD_SIZE)
  BY WordInPage
<1>2. PICK b \in DOMAIN maps :
        /\ b \in Nat /\ maps[b] \in PageTableEntry /\ MapArgsValid(b, maps[b])
        /\ Reaches(b, maps[b], i * WORD_SIZE)
        /\ WordBehind(maps, i) = PmemIdx(i * WORD_SIZE, b, maps[b])
  BY WordInPage
<1>3. PICK c \in DOMAIN maps :
        /\ c \in Nat /\ maps[c] \in PageTableEntry /\ MapArgsValid(c, maps[c])
        /\ Reaches(c, maps[c], j * WORD_SIZE)
        /\ WordBehind(maps, j) = PmemIdx(j * WORD_SIZE, c, maps[c])
  BY WordInPage
<1>4. b = c
  <2> SUFFICES ASSUME b # c PROVE FALSE
    OBVIOUS
  <2>1. ~overlap(maps[b].frame, maps[c].frame)
    BY DEF Pages
  <2> QED
    BY <1>1, <1>2, <1>3, <2>1, FramesShareNoWord
<1>5. i * WORD_SIZE = j * WORD_SIZE
  BY <1>1, <1>2, <1>3, <1>4, PageInjective
<1> QED
  BY <1>1, <1>5, WordFacts

(* An address within a mapping, if memory reaches that far. *)
LEMMA MappedWord ==
  ASSUME NEW maps, Pages(maps), NEW base \in DOMAIN maps,
         NEW vaddr \in Nat, aligned(vaddr, WORD_SIZE), Reaches(base, maps[base], vaddr)
  PROVE  /\ word_index_spec(vaddr) * WORD_SIZE = vaddr
         /\ WordBehind(maps, word_index_spec(vaddr)) = PmemIdx(vaddr, base, maps[base])
         /\ PmemIdx(vaddr, base, maps[base]) < phys_mem_size =>
              word_index_spec(vaddr) \in Words(maps)
<1> DEFINE idx == word_index_spec(vaddr)
<1>1. idx \in Nat /\ idx * WORD_SIZE = vaddr
  BY WordFacts
<1>2. base \in Nat /\ maps[base] \in PageTableEntry /\ MapArgsValid(base, maps[base])
  BY DEF Pages
<1>3. base + maps[base].frame.size < UPPER_VADDR /\ maps[base].frame.size \in Nat
  BY <1>2, PageWords
<1>4. vaddr <= UPPER_VADDR
  BY <1>2, <1>3, SizesAssumption DEF Reaches, between
<1>5. idx <= UPPER_VADDR \div WORD_SIZE
  BY <1>4, SizesAssumption DEF word_index_spec
<1>6. idx \in 0 .. UPPER_VADDR \div WORD_SIZE
  BY <1>1, <1>5, SizesAssumption
<1> HIDE DEF idx
<1>7. WordBehind(maps, idx) = PmemIdx(vaddr, base, maps[base])
  BY <1>1, BehindBase
<1>8. PmemIdx(vaddr, base, maps[base]) < phys_mem_size => idx \in Words(maps)
  BY <1>1, <1>6, WordsFacts
<1> QED
  BY <1>1, <1>7, <1>8 DEF idx

(* A store through a mapping changes one word of virtual memory. *)
LEMMA StoreMapped ==
  ASSUME NEW maps, Pages(maps), NEW memory \in [0 .. phys_mem_size - 1 -> Value],
         NEW base \in DOMAIN maps,
         NEW vaddr \in Nat, aligned(vaddr, WORD_SIZE), Reaches(base, maps[base], vaddr),
         PmemIdx(vaddr, base, maps[base]) < phys_mem_size,
         NEW value
  PROVE  VmemOf(maps, [memory EXCEPT ![PmemIdx(vaddr, base, maps[base])] = value])
           = Insert(VmemOf(maps, memory), word_index_spec(vaddr), value)
<1> DEFINE target == word_index_spec(vaddr)
           word   == PmemIdx(vaddr, base, maps[base])
           stored == [memory EXCEPT ![word] = value]
<1>1. target \in Words(maps) /\ WordBehind(maps, target) = word
  BY MappedWord
<1> HIDE DEF target, word
<1>2. ASSUME NEW idx \in Words(maps)
      PROVE  stored[WordBehind(maps, idx)]
               = IF idx = target THEN value ELSE memory[WordBehind(maps, idx)]
  <2>1. WordBehind(maps, idx) \in 0 .. phys_mem_size - 1
    BY WordInPage
  <2>2. WordBehind(maps, idx) = word <=> idx = target
    BY <1>1, WordsInjective
  <2> QED
    BY <2>1, <2>2
<1> HIDE DEF stored
<1>3. DOMAIN VmemOf(maps, memory) \cup {target} = Words(maps)
  BY <1>1 DEF VmemOf
<1>4. Insert(VmemOf(maps, memory), target, value)
        = [idx \in Words(maps) |-> IF idx = target THEN value ELSE VmemOf(maps, memory)[idx]]
  BY <1>3 DEF Insert
<1>5. VmemOf(maps, stored)
        = [idx \in Words(maps) |-> IF idx = target THEN value ELSE VmemOf(maps, memory)[idx]]
  BY <1>2 DEF VmemOf
<1> QED
  BY <1>4, <1>5 DEF stored, target, word

(* A store to a frame of no mapping changes nothing in virtual memory.     *)
LEMMA StoreElsewhere ==
  ASSUME NEW maps, Pages(maps), NEW memory, NEW stored,
         NEW base \in Nat, NEW pte \in PageTableEntry, MapArgsValid(base, pte),
         NEW vaddr \in Nat, aligned(vaddr, WORD_SIZE), Reaches(base, pte, vaddr),
         \A b \in DOMAIN maps : ~overlap(pte.frame, maps[b].frame),
         \A w \in 0 .. phys_mem_size - 1 : w # PmemIdx(vaddr, base, pte) => stored[w] = memory[w]
  PROVE  VmemOf(maps, stored) = VmemOf(maps, memory)
<1>1. ASSUME NEW idx \in Words(maps)
      PROVE  stored[WordBehind(maps, idx)] = memory[WordBehind(maps, idx)]
  <2>1. /\ idx * WORD_SIZE \in Nat /\ aligned(idx * WORD_SIZE, WORD_SIZE)
        /\ WordBehind(maps, idx) \in 0 .. phys_mem_size - 1
    BY WordInPage
  <2>2. PICK b \in DOMAIN maps :
          /\ b \in Nat /\ maps[b] \in PageTableEntry /\ MapArgsValid(b, maps[b])
          /\ Reaches(b, maps[b], idx * WORD_SIZE)
          /\ WordBehind(maps, idx) = PmemIdx(idx * WORD_SIZE, b, maps[b])
    BY WordInPage
  <2>3. WordBehind(maps, idx) # PmemIdx(vaddr, base, pte)
    BY <2>1, <2>2, FramesShareNoWord
  <2> QED
    BY <2>1, <2>3
<1> QED
  BY <1>1 DEF VmemOf

(* Fewer mappings give a smaller part of the same virtual memory. *)
LEMMA PartOfMaps ==
  ASSUME NEW maps, Pages(maps), NEW part, DOMAIN part \subseteq DOMAIN maps,
         \A v \in DOMAIN part : part[v] = maps[v]
  PROVE  /\ Pages(part)
         /\ Words(part) \subseteq Words(maps)
         /\ \A idx \in Words(part) : WordBehind(part, idx) = WordBehind(maps, idx)
<1>1. Pages(part)
  BY DEF Pages, MappingRegion
<1>2. ASSUME NEW idx \in Words(part)
      PROVE  idx \in Words(maps) /\ WordBehind(part, idx) = WordBehind(maps, idx)
  <2>1. PICK b \in DOMAIN part : /\ Reaches(b, part[b], idx * WORD_SIZE)
                                 /\ PmemIdx(idx * WORD_SIZE, b, part[b]) < phys_mem_size
    BY WordsFacts
  <2>2. b \in DOMAIN maps /\ part[b] = maps[b]
    OBVIOUS
  <2>3. idx \in Words(maps)
    BY <2>1, <2>2, WordsFacts
  <2>4. idx \in Nat
    BY <1>1, WordInPage
  <2> QED
    BY <1>1, <2>1, <2>2, <2>3, <2>4, BehindBase
<1> QED
  BY <1>1, <1>2

-----------------------------------------------------------------------------
(* The effective mappings and the threads' calls. *)

LEMMA EffectiveFacts ==
  /\ DOMAIN effective_mappings \subseteq DOMAIN pt
  /\ \A v \in DOMAIN effective_mappings : effective_mappings[v] = pt[v]
  /\ \A v : v \in DOMAIN effective_mappings <=>
       /\ v \in DOMAIN pt
       /\ \A core \in Core : core_states[core].tag \in UnmapTags => core_states[core].vaddr # v
  BY DEF effective_mappings, inflight_unmap_vaddr

LEMMA TablePages == TypeOK /\ OverlapInv => Pages(pt) /\ Pages(effective_mappings)
<1> SUFFICES ASSUME TypeOK, OverlapInv PROVE Pages(pt) /\ Pages(effective_mappings)
  OBVIOUS
<1>1. pt \in Mappings
  BY DEF TypeOK
<1>2. DOMAIN pt \subseteq Nat /\ \A v \in DOMAIN pt : pt[v] \in PageTableEntry
  BY <1>1, MappingsFacts, OSAssumption
<1>3. Pages(pt)
  BY <1>2 DEF Pages, OverlapInv, PagesValid, MappingsApart, FramesApart
<1> QED
  BY <1>3, EffectiveFacts, PartOfMaps

(* The call of a core as the process sees it. *)
CallArgs(cs, map) ==
  IF cs.tag \in MapTags
  THEN HL!MapArgs(cs.vaddr, cs.pte)
  ELSE HL!UnmapArgs(cs.vaddr, IF cs.tag \in UnmapOpTags THEN cs.result
                              ELSE IF cs.vaddr \in DOMAIN map THEN map[cs.vaddr] ELSE Err)

ThreadArgs(id, cs, map) ==
  IF cs = Idle \/ cs.ULT_id # id THEN HL!Empty ELSE CallArgs(cs, map)

LEMMA InterpThreads ==
  TypeOK => interp_thread_state
              = [i \in ULT |-> ThreadArgs(i, core_states[ULT2core[i]], pt)]
<1> SUFFICES ASSUME TypeOK, NEW id \in ULT
             PROVE  interp_thread_state[id] = ThreadArgs(id, core_states[ULT2core[id]], pt)
  BY DEF interp_thread_state
<1> DEFINE cs == core_states[ULT2core[id]]
<1>1. cs \in CoreState
  BY OSAssumption DEF TypeOK
<1>2. CASE cs = Idle
  BY <1>2 DEF interp_thread_state, ThreadArgs, HL!Empty, Idle, MapTags, UnmapOpTags
<1>3. CASE cs # Idle /\ cs.ULT_id # id
  BY <1>3 DEF interp_thread_state, ThreadArgs, HL!Empty
<1>4. CASE cs.tag \in MapTags /\ cs # Idle /\ cs.ULT_id = id
  BY <1>4
     DEF interp_thread_state, ThreadArgs, CallArgs, HL!MapArgs, MapTags, UnmapOpTags
<1>5. CASE cs.tag = "UnmapWaiting" /\ cs # Idle /\ cs.ULT_id = id
  BY <1>5
     DEF interp_thread_state, ThreadArgs, CallArgs, HL!UnmapArgs, MapTags, UnmapOpTags
<1>6. CASE cs.tag \in UnmapOpTags /\ cs # Idle /\ cs.ULT_id = id
  BY <1>6
     DEF interp_thread_state, ThreadArgs, CallArgs, HL!UnmapArgs, MapTags, UnmapOpTags
<1>7. cs = Idle \/ cs.tag \in MapTags \/ cs.tag = "UnmapWaiting" \/ cs.tag \in UnmapOpTags
  BY <1>1 DEF CoreState
<1> QED
  BY <1>2, <1>3, <1>4, <1>5, <1>6, <1>7

LEMMA InterpThreadsNext ==
  TypeOK' => (interp_thread_state = [i \in ULT |-> ThreadArgs(i, core_states[ULT2core[i]], pt)])'
  BY InterpThreads, PTL

(* A core whose call, as the process sees it, does not change in a step.   *)
CallKept(core) ==
  LET cs == core_states[core]
      new == core_states'[core] IN
  \/ cs = Idle /\ new = Idle
  \/ /\ cs # Idle /\ new # Idle
     /\ new.ULT_id = cs.ULT_id
     /\ CallArgs(new, pt') = CallArgs(cs, pt)

LEMMA ThreadsKept ==
  ASSUME TypeOK, TypeOK', \A core \in Core : CallKept(core)
  PROVE  interp_thread_state' = interp_thread_state
<1>1. interp_thread_state = [i \in ULT |-> ThreadArgs(i, core_states[ULT2core[i]], pt)]
  BY InterpThreads
<1>2. interp_thread_state' = [i \in ULT |-> ThreadArgs(i, core_states'[ULT2core[i]], pt')]
  BY InterpThreadsNext
<1>3. ASSUME NEW id \in ULT
      PROVE  ThreadArgs(id, core_states'[ULT2core[id]], pt')
               = ThreadArgs(id, core_states[ULT2core[id]], pt)
  BY OSAssumption DEF ThreadArgs, CallKept
<1> QED
  BY <1>1, <1>2, <1>3

(* One core starts or ends a call: the state of its thread changes.        *)
LEMMA ThreadChanges ==
  ASSUME TypeOK, TypeOK', NEW id \in ULT, NEW core \in Core, core = ULT2core[id],
         \A c \in Core : c # core => CallKept(c),
         core_states[core] = Idle \/ core_states[core].ULT_id = id,
         core_states'[core] = Idle \/ core_states'[core].ULT_id = id
  PROVE  /\ interp_thread_state[id] = ThreadArgs(id, core_states[core], pt)
         /\ interp_thread_state'
              = [interp_thread_state EXCEPT ![id] = ThreadArgs(id, core_states'[core], pt')]
<1>1. interp_thread_state = [i \in ULT |-> ThreadArgs(i, core_states[ULT2core[i]], pt)]
  BY InterpThreads
<1>2. interp_thread_state' = [i \in ULT |-> ThreadArgs(i, core_states'[ULT2core[i]], pt')]
  BY InterpThreadsNext
<1>3. ASSUME NEW i \in ULT, i # id
      PROVE  ThreadArgs(i, core_states'[ULT2core[i]], pt')
               = ThreadArgs(i, core_states[ULT2core[i]], pt)
  <2>1. CASE ULT2core[i] = core
    BY <1>3, <2>1 DEF ThreadArgs
  <2>2. CASE ULT2core[i] # core
    BY <1>3, <2>2, OSAssumption DEF ThreadArgs, CallKept
  <2> QED
    BY <2>1, <2>2
<1> QED
  BY <1>1, <1>2, <1>3

-----------------------------------------------------------------------------
(* Steps that the process does not see. *)

RefinementInv ==
  /\ IndInv
  /\ OverlapInv
  /\ sound = TRUE

LEMMA InterpVmemNext == (interp_vmem = VmemOf(effective_mappings, mem))'
  BY InterpVmem, PTL

LEMMA TablePagesNext == TypeOK' /\ OverlapInv' => Pages(pt') /\ Pages(effective_mappings')
<1>1. (TypeOK /\ OverlapInv => Pages(pt) /\ Pages(effective_mappings))'
  BY TablePages, PTL
<1> QED
  BY <1>1

LEMMA EffectiveNext ==
  /\ \A v \in DOMAIN effective_mappings' : effective_mappings'[v] = pt'[v]
  /\ \A v : v \in DOMAIN effective_mappings' <=>
       /\ v \in DOMAIN pt'
       /\ \A core \in Core : core_states'[core].tag \in UnmapTags => core_states'[core].vaddr # v
  BY DEF effective_mappings, inflight_unmap_vaddr

(* Two tables with the same mappings are equal. *)
LEMMA EffectiveIsFunction ==
  /\ effective_mappings = [v \in DOMAIN effective_mappings |-> effective_mappings[v]]
  /\ effective_mappings' = [v \in DOMAIN effective_mappings' |-> effective_mappings'[v]]
  BY DEF effective_mappings

LEMMA UnmapArgsTag ==
  ASSUME NEW cs \in CoreState, cs # Idle, NEW map
  PROVE  /\ cs.tag \in UnmapTags <=> CallArgs(cs, map).tag = "Unmap"
         /\ CallArgs(cs, map).vaddr = cs.vaddr
  BY DEF CoreState, CallArgs, UnmapTags, UnmapOpTags, MapTags, HL!MapArgs, HL!UnmapArgs

LEMMA IdleTag == Idle.tag \notin UnmapTags
  BY DEF Idle, UnmapTags, UnmapOpTags

LEMMA UnmapKept ==
  ASSUME TypeOK, TypeOK', NEW core \in Core, CallKept(core)
  PROVE  /\ core_states[core].tag \in UnmapTags <=> core_states'[core].tag \in UnmapTags
         /\ core_states[core].tag \in UnmapTags =>
              core_states'[core].vaddr = core_states[core].vaddr
<1>1. core_states[core] \in CoreState /\ core_states'[core] \in CoreState
  BY DEF TypeOK
<1>2. CASE core_states[core] = Idle /\ core_states'[core] = Idle
  BY <1>2, IdleTag
<1>3. CASE /\ core_states[core] # Idle /\ core_states'[core] # Idle
           /\ CallArgs(core_states'[core], pt') = CallArgs(core_states[core], pt)
  <2>1. /\ core_states[core].tag \in UnmapTags <=> CallArgs(core_states[core], pt).tag = "Unmap"
        /\ CallArgs(core_states[core], pt).vaddr = core_states[core].vaddr
    BY <1>1, <1>3, UnmapArgsTag
  <2>2. /\ core_states'[core].tag \in UnmapTags <=> CallArgs(core_states'[core], pt').tag = "Unmap"
        /\ CallArgs(core_states'[core], pt').vaddr = core_states'[core].vaddr
    BY <1>1, <1>3, UnmapArgsTag
  <2> QED
    BY <1>3, <2>1, <2>2
<1> QED
  BY <1>2, <1>3 DEF CallKept

(* The effective mappings only depend on the table and on what is being    *)
(* unmapped.                                                               *)
LEMMA EffectiveSame ==
  ASSUME pt' = pt,
         \A core \in Core :
           /\ core_states[core].tag \in UnmapTags <=> core_states'[core].tag \in UnmapTags
           /\ core_states[core].tag \in UnmapTags =>
                core_states'[core].vaddr = core_states[core].vaddr
  PROVE  effective_mappings' = effective_mappings
<1>1. \A v : v \in DOMAIN effective_mappings' <=> v \in DOMAIN effective_mappings
  BY EffectiveFacts, EffectiveNext
<1>2. DOMAIN effective_mappings' = DOMAIN effective_mappings
  BY <1>1
<1>3. \A v \in DOMAIN effective_mappings : effective_mappings'[v] = effective_mappings[v]
  BY <1>2, EffectiveFacts, EffectiveNext
<1> QED
  BY <1>2, <1>3, EffectiveIsFunction

LEMMA EffectiveKept ==
  ASSUME TypeOK, TypeOK', pt' = pt, \A core \in Core : CallKept(core)
  PROVE  effective_mappings' = effective_mappings
  BY UnmapKept, EffectiveSame

LEMMA ViewKept ==
  ASSUME TypeOK, TypeOK', UNCHANGED <<effective_mappings, mem, sound>>,
         \A core \in Core : CallKept(core)
  PROVE  UNCHANGED HL!vars
<1>1. interp_vmem' = interp_vmem
  BY InterpVmem, InterpVmemNext
<1> QED
  BY <1>1, ThreadsKept DEF HL!vars

(* A step that changes the tag of a core within a phase of its call. *)
LEMMA TagStep ==
  ASSUME TypeOK, NEW core \in Core, NEW tag, pt' = pt,
         \/ core_states[core].tag = "MapWaiting" /\ tag = "MapExecuting"
         \/ core_states[core].tag \in UnmapOpTags /\ tag \in UnmapOpTags,
         core_states' = [core_states EXCEPT ![core].tag = tag]
  PROVE  \A c \in Core : CallKept(c)
<1>1. core_states \in [Core -> CoreState]
  BY DEF TypeOK
<1>2. /\ core_states[core] # Idle /\ core_states'[core] # Idle
      /\ core_states'[core].ULT_id = core_states[core].ULT_id
      /\ core_states'[core].vaddr = core_states[core].vaddr
      /\ core_states[core].tag \in MapTags =>
           core_states'[core].tag \in MapTags /\ core_states'[core].pte = core_states[core].pte
      /\ core_states[core].tag \in UnmapOpTags =>
           /\ core_states'[core].tag \in UnmapOpTags
           /\ core_states'[core].result = core_states[core].result
  BY <1>1 DEF CoreState, Idle, MapTags, UnmapOpTags
<1>3. CallKept(core)
  BY <1>2 DEF CallKept, CallArgs, MapTags, UnmapOpTags
<1> QED
  BY <1>1, <1>3 DEF CallKept

-----------------------------------------------------------------------------
(* Memory accesses. *)

(* A cached translation is the process' mapping, or touches none of them.  *)
LEMMA CachedPage ==
  ASSUME IndInv, OverlapInv, NEW core \in Core, NEW base \in DOMAIN tlb[core]
  PROVE  LET pte == tlb[core][base] IN
         /\ base \in Nat /\ pte \in PageTableEntry /\ MapArgsValid(base, pte)
         /\ base \in DOMAIN effective_mappings => effective_mappings[base] = pte
         /\ base \notin DOMAIN effective_mappings => \A b \in DOMAIN effective_mappings :
              /\ ~overlap(Region(base, pte.frame.size), MappingRegion(effective_mappings, b))
              /\ ~overlap(pte.frame, effective_mappings[b].frame)
<1> DEFINE pte == tlb[core][base]
<1>1. base \in Nat /\ pte \in PTE /\ pte \in PageTableEntry /\ pte # Err
  BY MappingsFacts, EntryTypes, OSAssumption DEF IndInv, TypeOK
<1> HIDE DEF pte
<1>2. CASE base \in DOMAIN pt /\ pt[base] = pte
  <2>1. MapArgsValid(base, pte)
    BY <1>2 DEF OverlapInv, PagesValid
  <2>2. base \in DOMAIN effective_mappings => effective_mappings[base] = pte
    BY <1>2, EffectiveFacts
  <2>3. ASSUME base \notin DOMAIN effective_mappings, NEW b \in DOMAIN effective_mappings
        PROVE  /\ ~overlap(Region(base, pte.frame.size), MappingRegion(effective_mappings, b))
               /\ ~overlap(pte.frame, effective_mappings[b].frame)
    <3>1. b \in DOMAIN pt /\ b # base /\ effective_mappings[b] = pt[b]
      BY <2>3, EffectiveFacts
    <3> QED
      BY <1>2, <3>1 DEF OverlapInv, MappingsApart, FramesApart, MappingRegion
  <2> QED
    BY <1>1, <2>1, <2>2, <2>3 DEF pte
<1>3. CASE BeingUnmapped(base, pte)
  <2>1. PICK c \in Core : /\ core_states[c].tag \in UnmapOpTags
                          /\ core_states[c].vaddr = base
                          /\ core_states[c].result = pte
    BY <1>3 DEF BeingUnmapped
  <2>2. MapArgsValid(base, pte)
    BY <1>1, <2>1 DEF OverlapInv, PagesValid
  <2>3. base \notin DOMAIN effective_mappings
    BY <2>1, EffectiveFacts DEF UnmapTags
  <2>4. /\ CallRegion(core_states[c], pt) = Region(base, pte.frame.size)
        /\ TakenFrames(core_states[c]) = {pte.frame}
    BY <1>1, <2>1 DEF CallRegion, CallSize, TakenFrames, UnmapOpTags, MapTags
  <2>5. ASSUME NEW b \in DOMAIN effective_mappings
        PROVE  /\ ~overlap(Region(base, pte.frame.size), MappingRegion(effective_mappings, b))
               /\ ~overlap(pte.frame, effective_mappings[b].frame)
    <3>1. b \in DOMAIN pt /\ effective_mappings[b] = pt[b]
      BY EffectiveFacts
    <3> QED
      BY <1>1, <2>1, <2>4, <3>1 DEF OverlapInv, RemovedApart, TakenApart, MappingRegion
  <2> QED
    BY <1>1, <2>2, <2>3, <2>5 DEF pte
<1> QED
  BY <1>2, <1>3 DEF IndInv, NoStaleTranslation, pte

(* Through a translation that is not the process' any more only addresses  *)
(* are reached that the process has not mapped.                            *)
LEMMA StaleWord ==
  ASSUME IndInv, OverlapInv, NEW core \in Core, NEW base \in DOMAIN tlb[core],
         base \notin DOMAIN effective_mappings,
         NEW vaddr \in Nat, aligned(vaddr, WORD_SIZE), Reaches(base, tlb[core][base], vaddr)
  PROVE  word_index_spec(vaddr) \notin Words(effective_mappings)
<1> DEFINE pte == tlb[core][base]
<1>1. /\ base \in Nat /\ pte \in PageTableEntry
      /\ \A b \in DOMAIN effective_mappings :
           ~overlap(Region(base, pte.frame.size), MappingRegion(effective_mappings, b))
  BY CachedPage
<1> HIDE DEF pte
<1>2. Pages(effective_mappings)
  BY TablePages DEF IndInv
<1> SUFFICES ASSUME word_index_spec(vaddr) \in Words(effective_mappings) PROVE FALSE
  OBVIOUS
<1>3. word_index_spec(vaddr) * WORD_SIZE = vaddr
  BY WordFacts
<1>4. PICK b \in DOMAIN effective_mappings :
        b \in Nat /\ effective_mappings[b] \in PageTableEntry /\ Reaches(b, effective_mappings[b], vaddr)
  BY <1>2, <1>3, WordInPage
<1>5. Reaches(base, pte, vaddr)
  BY DEF pte
<1>6. pte.frame.size \in Nat /\ effective_mappings[b].frame.size \in Nat
  BY <1>1, <1>4 DEF PageTableEntry, MemRegion
<1>7. overlap(Region(base, pte.frame.size), MappingRegion(effective_mappings, b))
  BY <1>1, <1>4, <1>5, <1>6, OverlapRegions DEF Reaches, between, MappingRegion
<1> QED
  BY <1>1, <1>7

(* A load that the hardware answers returns what the process' virtual      *)
(* memory holds, whichever TLB serves it and whatever calls are in flight. *)
THEOREM LoadsRefineCorrect == Spec => []LoadsRefineHLSpec
<1>1. IndInv /\ OverlapInv => LoadsRefineHLSpec
  <2> SUFFICES ASSUME IndInv, OverlapInv PROVE LoadsRefineHLSpec
    OBVIOUS
  <2>1. Pages(pt) /\ Pages(effective_mappings)
    BY TablePages DEF IndInv
  <2>2. ASSUME NEW core \in Core, NEW base \in DOMAIN tlb[core], NEW vaddr \in VAddr,
               aligned(vaddr, WORD_SIZE),
               between(vaddr, base, base + tlb[core][base].frame.size)
        PROVE  LET pte == tlb[core][base] IN
               IF base \in DOMAIN effective_mappings
               THEN /\ effective_mappings[base] = pte
                    /\ PmemIdx(vaddr, base, pte) < phys_mem_size =>
                         /\ word_index_spec(vaddr) \in interp_mem_domain
                         /\ interp_vmem[word_index_spec(vaddr)] = mem[PmemIdx(vaddr, base, pte)]
               ELSE word_index_spec(vaddr) \notin interp_mem_domain
    <3>1. vaddr \in Nat /\ Reaches(base, tlb[core][base], vaddr)
      BY <2>2, OSAssumption DEF Reaches
    <3>2. CASE base \notin DOMAIN effective_mappings
      BY <2>2, <3>1, <3>2, StaleWord, InterpVmem
    <3>3. CASE base \in DOMAIN effective_mappings
      <4>1. effective_mappings[base] = tlb[core][base]
        BY <3>3, CachedPage
      <4>2. /\ WordBehind(effective_mappings, word_index_spec(vaddr))
                 = PmemIdx(vaddr, base, tlb[core][base])
            /\ PmemIdx(vaddr, base, tlb[core][base]) < phys_mem_size =>
                 word_index_spec(vaddr) \in Words(effective_mappings)
        BY <2>1, <2>2, <3>1, <3>3, <4>1, MappedWord
      <4>3. word_index_spec(vaddr) \in Words(effective_mappings) =>
              interp_vmem[word_index_spec(vaddr)] = mem[PmemIdx(vaddr, base, tlb[core][base])]
        BY <4>2, InterpVmem DEF VmemOf
      <4> QED
        BY <3>3, <4>1, <4>2, <4>3, InterpVmem
    <3> QED
      BY <3>2, <3>3
  <2>3. ASSUME NEW vaddr \in VAddr, aligned(vaddr, WORD_SIZE),
               word_index_spec(vaddr) \in interp_mem_domain
        PROVE  \E base \in DOMAIN pt : between(vaddr, base, base + pt[base].frame.size)
    <3>1. word_index_spec(vaddr) * WORD_SIZE = vaddr
      BY <2>3, WordFacts, OSAssumption
    <3>2. PICK b \in DOMAIN effective_mappings : Reaches(b, effective_mappings[b], vaddr)
      BY <2>1, <2>3, <3>1, InterpVmem, WordInPage
    <3> QED
      BY <3>2, EffectiveFacts DEF Reaches
  <2> QED
    BY <2>2, <2>3 DEF LoadsRefineHLSpec
<1> QED
  BY <1>1, IndInvariant, OverlapInvariant, PTL

LEMMA SameOperators ==
  /\ \A addr, size : HL!aligned(addr, size) <=> aligned(addr, size)
  /\ \A x, a, b : HL!between(x, a, b) <=> between(x, a, b)
  /\ \A addr : HL!word_index_spec(addr) = word_index_spec(addr)
  /\ \A r1, r2 : HL!overlap(r1, r2) <=> overlap(r1, r2)
  /\ \A b, s : HL!Region(b, s) = Region(b, s)
  /\ \A op, flags : HL!FlagsPermit(op, flags) <=> FlagsPermit(op, flags)
  /\ \A map, key, value : HL!Insert(map, key, value) = Insert(map, key, value)
  /\ \A map, key : HL!Remove(map, key) = Remove(map, key)
  /\ \A v, pte : HL!MapArgsValid(v, pte) <=> MapArgsValid(v, pte)
  /\ \A v : HL!step_Unmap_enabled(v) <=> step_Unmap_enabled(v)
  /\ HL!RWOp = HWRWOp
  BY DEF HL!aligned, aligned, HL!between, between, HL!word_index_spec, word_index_spec, HL!overlap,
         overlap, HL!Region, Region, HL!FlagsPermit, FlagsPermit, HL!Insert, Insert, HL!Remove,
         Remove, HL!MapArgsValid, MapArgsValid, HL!candidate_mapping_in_bounds,
         candidate_mapping_in_bounds, HL!step_Unmap_enabled, step_Unmap_enabled, HL!RWOp, HWRWOp

LEMMA IdleThread ==
  ASSUME TypeOK, NEW id \in ULT, core_states[ULT2core[id]] = Idle
  PROVE  interp_thread_state[id] = HL!Empty
  BY InterpThreads DEF ThreadArgs

LEMMA AllKept ==
  ASSUME UNCHANGED <<core_states, pt>>
  PROVE  \A core \in Core : CallKept(core)
  BY DEF CallKept

(* An access that some TLB serves is one to the process' memory, or one    *)
(* that the process-level specification does not define and that leaves    *)
(* its memory alone.                                                       *)
LEMMA CachedStep ==
  ASSUME RefinementInv, TypeOK', NEW core \in Core, NEW vaddr \in VAddr, NEW op \in HWRWOp,
         NEW base \in VAddr, step_HW_ReadWrite_Cached(core, vaddr, op, base)
  PROVE  \E id \in ULT : HL!ThreadStep(id)
<1> DEFINE pte    == tlb[core][base]
           word   == PmemIdx(vaddr, base, pte)
           stores == op.kind = "Store" /\ word < phys_mem_size /\ FlagsPermit(op, pte.flags)
<1>1. /\ TypeOK /\ IndInv /\ OverlapInv
      /\ vaddr \in Nat /\ aligned(vaddr, WORD_SIZE)
      /\ base \in DOMAIN tlb[core] /\ Reaches(base, pte, vaddr)
      /\ UNCHANGED <<pt, core_states, sound>>
      /\ mem \in [0 .. phys_mem_size - 1 -> Value]
      /\ mem' = IF stores THEN [mem EXCEPT ![word] = op.new_value] ELSE mem
  BY OSAssumption
     DEF RefinementInv, IndInv, TypeOK, step_HW_ReadWrite_Cached, step_ReadWrite_Cached, osvars,
         AccessOk, Reaches
<1>2. PICK id \in ULT : core_states[ULT2core[id]] = Idle
  BY DEF step_HW_ReadWrite_Cached, UserRuns
<1>3. interp_thread_state[id] = HL!Empty
  BY <1>1, <1>2, IdleThread
<1>4. /\ interp_thread_state' = interp_thread_state
      /\ effective_mappings' = effective_mappings
  BY <1>1, AllKept, ThreadsKept, EffectiveKept
<1>5. Pages(effective_mappings)
  BY <1>1, TablePages
<1>6. interp_vmem = VmemOf(effective_mappings, mem) /\ interp_vmem' = VmemOf(effective_mappings, mem')
  BY <1>4, InterpVmem, InterpVmemNext
<1>7. CASE base \in DOMAIN effective_mappings
  <2>1. effective_mappings[base] = pte
    BY <1>1, <1>7, CachedPage
  <2> HIDE DEF pte
  <2>2. interp_vmem' = IF stores
                       THEN Insert(interp_vmem, word_index_spec(vaddr), op.new_value)
                       ELSE interp_vmem
    BY <1>1, <1>5, <1>6, <1>7, <2>1, StoreMapped
  <2>3. HL!step_ReadWrite_Mapped(id, vaddr, op, base)
    BY <1>1, <1>3, <1>4, <1>7, <2>1, <2>2, SameOperators
       DEF HL!step_ReadWrite_Mapped, Reaches, PmemIdx
  <2> QED
    BY <1>7, <2>3, SameOperators DEF HL!ThreadStep
<1>8. CASE base \notin DOMAIN effective_mappings
  <2>1. /\ base \in Nat /\ pte \in PageTableEntry /\ MapArgsValid(base, pte)
        /\ \A b \in DOMAIN effective_mappings : ~overlap(pte.frame, effective_mappings[b].frame)
    BY <1>1, <1>8, CachedPage
  <2>2. word_index_spec(vaddr) \notin Words(effective_mappings)
    BY <1>1, <1>8, StaleWord
  <2> HIDE DEF pte
  <2>3. \A w \in 0 .. phys_mem_size - 1 : w # word => mem'[w] = mem[w]
    BY <1>1
  <2>4. interp_vmem' = interp_vmem
    BY <1>1, <1>5, <1>6, <2>1, <2>3, StoreElsewhere
  <2>5. HL!step_ReadWrite_Unmapped(id, vaddr)
    BY <1>1, <1>3, <1>4, <2>2, <2>4, SameOperators
       DEF HL!step_ReadWrite_Unmapped, HL!vars, Words
  <2> QED
    BY <2>5 DEF HL!ThreadStep
<1> QED
  BY <1>2, <1>7, <1>8

(* A page fault: the process has not mapped the address either. *)
LEMMA PagefaultStep ==
  ASSUME RefinementInv, TypeOK', NEW vaddr \in VAddr, step_HW_ReadWrite_Pagefault(vaddr)
  PROVE  \E id \in ULT : HL!ThreadStep(id)
<1>1. /\ TypeOK /\ OverlapInv
      /\ vaddr \in Nat /\ aligned(vaddr, WORD_SIZE)
      /\ \A base \in DOMAIN pt : ~Reaches(base, pt[base], vaddr)
      /\ UNCHANGED <<pt, mem, core_states, sound>>
  BY OSAssumption
     DEF RefinementInv, IndInv, step_HW_ReadWrite_Pagefault, step_ReadWrite_Pagefault, osvars,
         hwvars, Reaches
<1>2. PICK id \in ULT : core_states[ULT2core[id]] = Idle
  BY DEF step_HW_ReadWrite_Pagefault, UserRuns
<1>3. word_index_spec(vaddr) \notin Words(effective_mappings)
  <2> SUFFICES ASSUME word_index_spec(vaddr) \in Words(effective_mappings) PROVE FALSE
    OBVIOUS
  <2>1. word_index_spec(vaddr) * WORD_SIZE = vaddr
    BY <1>1, WordFacts
  <2>2. PICK b \in DOMAIN effective_mappings : Reaches(b, effective_mappings[b], vaddr)
    BY <1>1, <2>1, TablePages, WordInPage
  <2> QED
    BY <1>1, <2>2, EffectiveFacts
<1>4. UNCHANGED HL!vars
  BY <1>1, AllKept, EffectiveKept, ViewKept
<1>5. HL!step_ReadWrite_Unmapped(id, vaddr)
  BY <1>1, <1>2, <1>3, <1>4, IdleThread, SameOperators DEF HL!step_ReadWrite_Unmapped, Words
<1> QED
  BY <1>5 DEF HL!ThreadStep

-----------------------------------------------------------------------------
(* System calls. *)

(* What the process' checks look up of a call is what the cores' checks    *)
(* look up.                                                                *)
LEMMA CallArgsFacts ==
  ASSUME TypeOK, NEW core \in Core, core_states[core] # Idle
  PROVE  LET cs   == core_states[core]
             args == CallArgs(cs, pt) IN
         /\ args # HL!Empty
         /\ args.vaddr = cs.vaddr
         /\ HL!InflightSize(args) = CallSize(cs, pt)
         /\ HL!InflightFrames(args) = InflightFrames(cs)
<1> DEFINE cs   == core_states[core]
           args == CallArgs(cs, pt)
<1>1. cs \in CoreState /\ (\A v \in DOMAIN pt : pt[v] \in PTE) /\ Err \notin PTE
  BY MappingsFacts, EntryTypes DEF TypeOK
<1>2. CASE cs.tag \in MapTags
  <2>1. cs.pte # Err
    BY <1>1, <1>2, CoreFields
  <2> QED
    BY <1>2, <2>1
       DEF CallArgs, HL!MapArgs, HL!Empty, HL!InflightSize, HL!InflightFrames, CallSize,
           InflightFrames, MapTags, UnmapOpTags
<1>3. CASE cs.tag = "UnmapWaiting"
  BY <1>1, <1>3
     DEF CallArgs, HL!UnmapArgs, HL!Empty, HL!InflightSize, HL!InflightFrames, CallSize,
         InflightFrames, MapTags, UnmapOpTags
<1>4. CASE cs.tag \in UnmapOpTags
  BY <1>4
     DEF CallArgs, HL!UnmapArgs, HL!Empty, HL!InflightSize, HL!InflightFrames, CallSize,
         InflightFrames, MapTags, UnmapOpTags
<1>5. cs.tag \in MapTags \/ cs.tag = "UnmapWaiting" \/ cs.tag \in UnmapOpTags
  BY <1>1 DEF CoreState
<1> QED
  BY <1>2, <1>3, <1>4, <1>5

LEMMA ThreadCall ==
  ASSUME TypeOK, NEW id \in ULT, interp_thread_state[id] # HL!Empty
  PROVE  LET core == ULT2core[id] IN
         /\ core \in Core
         /\ core_states[core] # Idle
         /\ core_states[core].ULT_id = id
         /\ interp_thread_state[id] = CallArgs(core_states[core], pt)
  BY InterpThreads, OSAssumption DEF ThreadArgs

(* A thread in flight, seen from its core. *)
LEMMA CoreThread ==
  ASSUME TypeOK, NEW core \in Core, core_states[core] # Idle
  PROVE  LET id == core_states[core].ULT_id IN
         /\ id \in ULT
         /\ core = ULT2core[id]
         /\ interp_thread_state[id] = CallArgs(core_states[core], pt)
<1>1. core_states[core].ULT_id \in ULT
  BY DEF TypeOK, CoreState
<1> QED
  BY <1>1, InterpThreads DEF ThreadArgs, TypeOK

(* The guard of the cores implies that of the process. *)
LEMMA VmemCheckRefines ==
  ASSUME TypeOK, NEW vaddr, NEW size,
         ~candidate_mapping_overlaps_inflight_vmem(vaddr, size)
  PROVE  ~HL!candidate_mapping_overlaps_inflight_vmem(vaddr, size)
<1> SUFFICES ASSUME NEW id \in ULT, interp_thread_state[id] # HL!Empty,
                    overlap(Region(interp_thread_state[id].vaddr,
                                   HL!InflightSize(interp_thread_state[id])),
                            Region(vaddr, size))
             PROVE  FALSE
  BY SameOperators DEF HL!candidate_mapping_overlaps_inflight_vmem
<1> DEFINE core == ULT2core[id]
<1>1. /\ core \in Core /\ core_states[core] # Idle
      /\ interp_thread_state[id] = CallArgs(core_states[core], pt)
  BY ThreadCall
<1>2. /\ interp_thread_state[id].vaddr = core_states[core].vaddr
      /\ HL!InflightSize(interp_thread_state[id]) = vmem_pte_size(core_states[core])
  BY <1>1, CallArgsFacts, SizeOfCall
<1> QED
  BY <1>1, <1>2 DEF candidate_mapping_overlaps_inflight_vmem

LEMMA MapStartRefines ==
  ASSUME RefinementInv, TypeOK', NEW id \in ULT, NEW vaddr \in VAddr, NEW pte \in PTE,
         step_Map_Start(id, vaddr, pte)
  PROVE  HL!step_Map_start(id, vaddr, pte)
<1> DEFINE core == ULT2core[id]
           new  == MapState("MapWaiting", id, vaddr, pte)
<1>1. /\ TypeOK /\ core \in Core /\ core_states[core] = Idle
      /\ core_states' = [core_states EXCEPT ![core] = new]
      /\ core_states \in [Core -> CoreState]
      /\ UNCHANGED <<pt, mem, sound>>
      /\ MapArgsValid(vaddr, pte)
      /\ step_Map_sound(vaddr, pte)
  BY OSAssumption
     DEF RefinementInv, IndInv, TypeOK, step_Map_Start, PtStutter, step_PTMemOp, step_Map_enabled
<1>2. core_states'[core] = new /\ \A c \in Core : c # core => core_states'[c] = core_states[c]
  BY <1>1
<1>3. /\ new # Idle /\ new.ULT_id = id /\ new.tag \notin UnmapTags
      /\ CallArgs(new, pt') = HL!MapArgs(vaddr, pte)
  BY DEF MapState, Idle, CallArgs, MapTags, UnmapTags, UnmapOpTags
<1> HIDE DEF new
<1>4. \A c \in Core : c # core => CallKept(c)
  BY <1>1, <1>2 DEF CallKept
<1>5. /\ interp_thread_state[id] = HL!Empty
      /\ interp_thread_state' = [interp_thread_state EXCEPT ![id] = HL!MapArgs(vaddr, pte)]
  BY <1>1, <1>2, <1>3, <1>4, ThreadChanges DEF ThreadArgs
<1>6. effective_mappings' = effective_mappings
  <2>1. ASSUME NEW c \in Core
        PROVE  /\ core_states[c].tag \in UnmapTags <=> core_states'[c].tag \in UnmapTags
               /\ core_states[c].tag \in UnmapTags => core_states'[c].vaddr = core_states[c].vaddr
    BY <1>1, <1>2, <1>3, IdleTag
  <2> QED
    BY <1>1, <2>1, EffectiveSame
<1>7. interp_vmem' = interp_vmem
  BY <1>1, <1>6, InterpVmem, InterpVmemNext
<1>8. HL!step_Map_sound(vaddr, pte)
  <2>1. ~HL!candidate_mapping_overlaps_inflight_vmem(vaddr, pte.frame.size)
    BY <1>1, VmemCheckRefines DEF step_Map_sound
  <2>2. ~HL!candidate_mapping_overlaps_existing_pmem(effective_mappings, pte)
    BY <1>1, EffectiveFacts, SameOperators
       DEF step_Map_sound, candidate_mapping_overlaps_existing_pmem,
           HL!candidate_mapping_overlaps_existing_pmem
  <2>3. ASSUME NEW t \in ULT, NEW frame \in HL!InflightFrames(interp_thread_state[t])
        PROVE  ~overlap(pte.frame, frame)
    <3>1. interp_thread_state[t] # HL!Empty
      BY <2>3 DEF HL!InflightFrames
    <3>2. frame \in InflightFrames(core_states[ULT2core[t]]) /\ ULT2core[t] \in Core
      BY <1>1, <2>3, <3>1, ThreadCall, CallArgsFacts
    <3> QED
      BY <1>1, <3>2 DEF step_Map_sound, candidate_mapping_overlaps_inflight_pmem
  <2>4. ~HL!candidate_mapping_overlaps_inflight_pmem(pte)
    BY <2>3, SameOperators DEF HL!candidate_mapping_overlaps_inflight_pmem
  <2> QED
    BY <2>1, <2>2, <2>4 DEF HL!step_Map_sound
<1> QED
  BY <1>1, <1>5, <1>6, <1>7, <1>8, SameOperators DEF HL!step_Map_start

LEMMA OtherAddress ==
  ASSUME TypeOK, OverlapInv, NEW c \in Core, NEW d \in Core, c # d,
         core_states[c] # Idle, core_states[d] # Idle
  PROVE  core_states[c].vaddr # core_states[d].vaddr
  BY CallTypes DEF OverlapInv, CallsApart, CallRegion, Region, overlap

(* The others do not notice that the page table changes at the address of  *)
(* a call in flight.                                                       *)
LEMMA OthersKept ==
  ASSUME TypeOK, OverlapInv, NEW core \in Core, core_states[core] # Idle,
         \A c \in Core : c # core => core_states'[c] = core_states[c],
         \A v : v # core_states[core].vaddr =>
           (v \in DOMAIN pt' <=> v \in DOMAIN pt) /\ (v \in DOMAIN pt => pt'[v] = pt[v])
  PROVE  \A c \in Core : c # core => CallKept(c)
<1> SUFFICES ASSUME NEW c \in Core, c # core, core_states[c] # Idle
             PROVE  CallArgs(core_states[c], pt') = CallArgs(core_states[c], pt)
  BY DEF CallKept
<1>1. core_states[c].vaddr # core_states[core].vaddr
  BY OtherAddress
<1> QED
  BY <1>1 DEF CallArgs

(* The mapping that a map call would get in the way of is the process': an *)
(* unmap in flight works elsewhere.                                        *)
LEMMA ExistingCheckAgrees ==
  ASSUME IndInv, OverlapInv, NEW core \in Core, core_states[core].tag \in MapTags
  PROVE  LET cs == core_states[core] IN
         candidate_mapping_overlaps_existing_vmem(pt, cs.vaddr, cs.pte)
           <=> HL!candidate_mapping_overlaps_existing_vmem(effective_mappings, cs.vaddr, cs.pte)
<1> DEFINE cs == core_states[core]
<1>1. TypeOK /\ cs # Idle /\ CallRegion(cs, pt) = Region(cs.vaddr, cs.pte.frame.size)
  BY CoreFields DEF IndInv, CallRegion, CallSize, MapTags, UnmapOpTags
<1>2. ASSUME NEW b \in DOMAIN pt, b \notin DOMAIN effective_mappings
      PROVE  ~overlap(CallRegion(cs, pt), MappingRegion(pt, b))
  <2>1. PICK c \in Core : core_states[c].tag \in UnmapTags /\ core_states[c].vaddr = b
    BY <1>2, EffectiveFacts
  <2>2. core_states[c].tag = "UnmapWaiting"
    BY <1>2, <2>1 DEF UnmapTags, IndInv, successful_unmaps
  <2>3. /\ c # core /\ core_states[c] # Idle
        /\ CallRegion(core_states[c], pt) = MappingRegion(pt, b)
    BY <1>1, <1>2, <2>1, <2>2, CoreFields
       DEF CallRegion, CallSize, MappingRegion, MapTags, UnmapOpTags
  <2> QED
    BY <1>1, <2>3 DEF OverlapInv, CallsApart
<1>3. ASSUME NEW b \in DOMAIN pt, overlap(CallRegion(cs, pt), MappingRegion(pt, b))
      PROVE  b \in DOMAIN effective_mappings
  BY <1>2, <1>3
<1>4. \A b \in DOMAIN effective_mappings : b \in DOMAIN pt /\ effective_mappings[b] = pt[b]
  BY EffectiveFacts
<1> QED
  BY <1>1, <1>3, <1>4, SameOperators
     DEF candidate_mapping_overlaps_existing_vmem, HL!candidate_mapping_overlaps_existing_vmem,
         MappingRegion

LEMMA MapEndRefines ==
  ASSUME RefinementInv, TypeOK', OverlapInv', NEW core \in Core, step_Map_End(core)
  PROVE  core_states[core].ULT_id \in ULT /\ HL!step_Map_end(core_states[core].ULT_id)
<1> DEFINE cs    == core_states[core]
           id    == cs.ULT_id
           vaddr == cs.vaddr
           pte   == cs.pte
<1>1. /\ TypeOK /\ IndInv /\ OverlapInv
      /\ cs.tag \in MapTags /\ cs # Idle
      /\ vaddr \in VAddr /\ pte \in PTE
      /\ pt \in Mappings /\ core_states \in [Core -> CoreState]
      /\ core_states' = [core_states EXCEPT ![core] = Idle]
      /\ UNCHANGED <<mem, sound>>
      /\ mem \in [0 .. phys_mem_size - 1 -> Value]
  BY CoreFields DEF RefinementInv, IndInv, TypeOK, step_Map_End, PtMapEnd, step_PTMemOp, MapTags
<1>2. core_states'[core] = Idle /\ \A c \in Core : c # core => core_states'[c] = core_states[c]
  BY <1>1
<1>3. /\ id \in ULT /\ core = ULT2core[id]
      /\ interp_thread_state[id] = HL!MapArgs(vaddr, pte)
  BY <1>1, CoreThread DEF CallArgs
<1>4. /\ interp_thread_state[id].tag = "Map"
      /\ interp_thread_state[id].vaddr = vaddr
      /\ interp_thread_state[id].pte = pte
  BY <1>3 DEF HL!MapArgs
<1>5. /\ DOMAIN Insert(pt, vaddr, pte) = DOMAIN pt \cup {vaddr}
      /\ Insert(pt, vaddr, pte)[vaddr] = pte
      /\ \A v \in DOMAIN pt : v # vaddr => Insert(pt, vaddr, pte)[v] = pt[v]
  <2>1. pt \in Mappings /\ vaddr \in VAddr /\ pte \in PTE
    BY <1>1
  <2> HIDE DEF vaddr, pte
  <2> QED
    BY <2>1, InsertFacts
<1>6. pt' = IF candidate_mapping_overlaps_existing_vmem(pt, vaddr, pte)
            THEN pt ELSE Insert(pt, vaddr, pte)
  BY DEF step_Map_End, PtMapEnd
<1>7. \A v : v # vaddr =>
        (v \in DOMAIN pt' <=> v \in DOMAIN pt) /\ (v \in DOMAIN pt => pt'[v] = pt[v])
  BY <1>5, <1>6
<1>8. interp_thread_state' = [interp_thread_state EXCEPT ![id] = HL!Empty]
  <2>1. \A c \in Core : c # core => CallKept(c)
    BY <1>1, <1>2, <1>7, OthersKept
  <2> QED
    BY <1>1, <1>2, <1>3, <2>1, ThreadChanges DEF ThreadArgs
<1>9. cs.tag \notin UnmapTags /\ core_states'[core].tag \notin UnmapTags
  BY <1>1, <1>2, IdleTag DEF MapTags, UnmapTags, UnmapOpTags
<1>10. CASE candidate_mapping_overlaps_existing_vmem(pt, vaddr, pte)
  <2>1. pt' = pt
    BY <1>6, <1>10
  <2>2. ASSUME NEW c \in Core
        PROVE  /\ core_states[c].tag \in UnmapTags <=> core_states'[c].tag \in UnmapTags
               /\ core_states[c].tag \in UnmapTags => core_states'[c].vaddr = core_states[c].vaddr
    BY <1>2, <1>9
  <2>3. effective_mappings' = effective_mappings
    BY <2>1, <2>2, EffectiveSame
  <2>4. interp_vmem' = interp_vmem
    BY <1>1, <2>3, InterpVmem, InterpVmemNext
  <2>5. HL!candidate_mapping_overlaps_existing_vmem(effective_mappings, vaddr, pte)
    BY <1>1, <1>10, ExistingCheckAgrees
  <2> QED
    BY <1>1, <1>3, <1>4, <1>8, <2>3, <2>4, <2>5 DEF HL!step_Map_end
<1>11. CASE ~candidate_mapping_overlaps_existing_vmem(pt, vaddr, pte)
  <2>1. pt' = Insert(pt, vaddr, pte)
    BY <1>6, <1>11
  <2>2. \A c \in Core : core_states[c].tag \in UnmapTags => core_states[c].vaddr # vaddr
    BY <1>1, <1>9, OtherAddress, CoreFields DEF UnmapTags
  <2>3. \A v : v \in DOMAIN effective_mappings' <=> v \in DOMAIN effective_mappings \/ v = vaddr
    BY <1>2, <1>5, <1>9, <2>1, <2>2, EffectiveFacts, EffectiveNext
  <2>4. DOMAIN effective_mappings' = DOMAIN effective_mappings \cup {vaddr}
    BY <2>3
  <2>5. vaddr \notin DOMAIN pt
    <3>1. vaddr \in Nat
      BY <1>1, OSAssumption
    <3>2. \A s, t : overlap(Region(vaddr, s), Region(vaddr, t))
      <4> HIDE DEF vaddr
      <4> QED
        BY <3>1 DEF overlap, Region
    <3> QED
      BY <1>11, <3>2 DEF candidate_mapping_overlaps_existing_vmem
  <2>6. /\ effective_mappings'[vaddr] = pte
        /\ \A v \in DOMAIN effective_mappings : effective_mappings'[v] = effective_mappings[v]
    BY <1>5, <2>1, <2>4, <2>5, EffectiveFacts, EffectiveNext
  <2>7. effective_mappings' = HL!Insert(effective_mappings, vaddr, pte)
    BY <2>4, <2>5, <2>6, EffectiveFacts, EffectiveIsFunction DEF HL!Insert
  <2>8. Pages(effective_mappings')
    BY TablePagesNext
  <2>9. /\ Words(effective_mappings) \subseteq Words(effective_mappings')
        /\ \A idx \in Words(effective_mappings) :
             WordBehind(effective_mappings, idx) = WordBehind(effective_mappings', idx)
    BY <2>4, <2>6, <2>8, PartOfMaps
  <2>10. interp_vmem = VmemOf(effective_mappings, mem) /\ interp_vmem' = VmemOf(effective_mappings', mem)
    BY <1>1, InterpVmem, InterpVmemNext
  <2>11. interp_vmem' \in [Words(effective_mappings') -> Value]
    <3>1. \A idx \in Words(effective_mappings') :
            WordBehind(effective_mappings', idx) \in 0 .. phys_mem_size - 1
      BY <2>8, WordInPage
    <3> QED
      BY <1>1, <2>10, <3>1 DEF VmemOf
  <2>12. \A idx \in DOMAIN interp_vmem : interp_vmem'[idx] = interp_vmem[idx]
    BY <2>9, <2>10 DEF VmemOf
  <2>13. ~HL!candidate_mapping_overlaps_existing_vmem(effective_mappings, vaddr, pte)
    BY <1>1, <1>11, ExistingCheckAgrees
  <2> QED
    BY <1>1, <1>3, <1>4, <1>8, <2>7, <2>11, <2>12, <2>13 DEF HL!step_Map_end, Words
<1> QED
  BY <1>10, <1>11

LEMMA UnmapStartRefines ==
  ASSUME RefinementInv, TypeOK', OverlapInv', NEW id \in ULT, NEW vaddr \in VAddr,
         step_Unmap_Start(id, vaddr)
  PROVE  HL!step_Unmap_start(id, vaddr)
<1> DEFINE core == ULT2core[id]
           new  == UnmapWaiting(id, vaddr)
           size == IF vaddr \in DOMAIN pt THEN pt[vaddr].frame.size ELSE 0
           pte  == IF vaddr \in DOMAIN pt THEN pt[vaddr] ELSE Err
<1>1. /\ TypeOK /\ OverlapInv /\ core \in Core /\ core_states[core] = Idle
      /\ core_states' = [core_states EXCEPT ![core] = new]
      /\ core_states \in [Core -> CoreState]
      /\ UNCHANGED <<pt, mem, sound>>
      /\ step_Unmap_enabled(vaddr)
      /\ ~candidate_mapping_overlaps_inflight_vmem(vaddr, size)
  BY OSAssumption
     DEF RefinementInv, IndInv, TypeOK, step_Unmap_Start, PtStutter, step_PTMemOp,
         step_Unmap_sound
<1>2. core_states'[core] = new /\ \A c \in Core : c # core => core_states'[c] = core_states[c]
  BY <1>1
<1>3. /\ new # Idle /\ new.ULT_id = id /\ new.vaddr = vaddr /\ new.tag \in UnmapTags
      /\ CallArgs(new, pt') = HL!UnmapArgs(vaddr, pte)
  BY <1>1 DEF UnmapWaiting, Idle, CallArgs, MapTags, UnmapTags, UnmapOpTags
<1> HIDE DEF new
<1>4. \A c \in Core : c # core => CallKept(c)
  BY <1>1, <1>2 DEF CallKept
<1>5. /\ interp_thread_state[id] = HL!Empty
      /\ interp_thread_state' = [interp_thread_state EXCEPT ![id] = HL!UnmapArgs(vaddr, pte)]
  BY <1>1, <1>2, <1>3, <1>4, ThreadChanges DEF ThreadArgs
<1>6. \A c \in Core : core_states[c].tag \in UnmapTags => core_states[c].vaddr # vaddr
  <2> SUFFICES ASSUME NEW c \in Core, core_states[c].tag \in UnmapTags,
                      core_states[c].vaddr = vaddr
               PROVE  FALSE
    OBVIOUS
  <2>1. ~overlap(Region(vaddr, vmem_pte_size(core_states[c])), Region(vaddr, size))
    BY <1>1, IdleTag DEF candidate_mapping_overlaps_inflight_vmem
  <2> QED
    BY <2>1, OSAssumption DEF overlap, Region
<1>7. \A v : v \in DOMAIN effective_mappings' <=> v \in DOMAIN effective_mappings /\ v # vaddr
  BY <1>1, <1>2, <1>3, IdleTag, EffectiveFacts, EffectiveNext
<1>8. DOMAIN effective_mappings' = DOMAIN effective_mappings \ {vaddr}
  BY <1>7
<1>9. \A v \in DOMAIN effective_mappings' : effective_mappings'[v] = effective_mappings[v]
  BY <1>1, <1>8, EffectiveFacts, EffectiveNext
<1>10. effective_mappings' = HL!Remove(effective_mappings, vaddr)
  BY <1>8, <1>9, EffectiveIsFunction DEF HL!Remove
<1>11. /\ vaddr \in DOMAIN effective_mappings <=> vaddr \in DOMAIN pt
       /\ vaddr \in DOMAIN pt => effective_mappings[vaddr] = pt[vaddr]
  BY <1>6, EffectiveFacts
<1>12. /\ Words(effective_mappings') \subseteq Words(effective_mappings)
       /\ \A idx \in Words(effective_mappings') :
            WordBehind(effective_mappings', idx) = WordBehind(effective_mappings, idx)
  BY <1>1, <1>8, <1>9, TablePages, PartOfMaps
<1>13. interp_vmem' = [idx \in Words(effective_mappings') |-> interp_vmem[idx]]
  <2>1. interp_vmem = VmemOf(effective_mappings, mem) /\ interp_vmem' = VmemOf(effective_mappings', mem)
    BY <1>1, InterpVmem, InterpVmemNext
  <2> QED
    BY <1>12, <2>1 DEF VmemOf
<1>14. HL!step_Unmap_sound(vaddr, size)
  BY <1>1, VmemCheckRefines DEF HL!step_Unmap_sound
<1>15. /\ size = IF vaddr \in DOMAIN effective_mappings
                 THEN effective_mappings[vaddr].frame.size ELSE 0
       /\ pte = IF vaddr \in DOMAIN effective_mappings THEN effective_mappings[vaddr] ELSE Err
  BY <1>11
<1> HIDE DEF size, pte
<1> QED
  BY <1>1, <1>5, <1>10, <1>13, <1>14, <1>15, SameOperators DEF HL!step_Unmap_start, Words

(* The process has given up its mapping when the call started: it does not *)
(* see the page table entry go.                                            *)
LEMMA UnmapOpStartRefines ==
  ASSUME RefinementInv, TypeOK', NEW core \in Core, step_Unmap_Op_Start(core)
  PROVE  UNCHANGED HL!vars
<1> DEFINE cs     == core_states[core]
           vaddr  == cs.vaddr
           result == IF vaddr \in DOMAIN pt THEN pt[vaddr] ELSE Err
           new    == UnmapState("UnmapOpExecuting", cs.ULT_id, vaddr, result)
<1>1. /\ TypeOK /\ OverlapInv
      /\ cs.tag = "UnmapWaiting" /\ cs # Idle
      /\ core_states \in [Core -> CoreState]
      /\ core_states' = [core_states EXCEPT ![core] = new]
      /\ pt \in Mappings /\ pt' = Remove(pt, vaddr)
      /\ UNCHANGED <<mem, sound>>
  BY CoreFields
     DEF RefinementInv, IndInv, TypeOK, step_Unmap_Op_Start, PtUnmapStart, step_PTMemOp
<1>2. core_states'[core] = new /\ \A c \in Core : c # core => core_states'[c] = core_states[c]
  BY <1>1
<1>3. /\ new # Idle /\ new.ULT_id = cs.ULT_id /\ new.vaddr = vaddr /\ new.tag \in UnmapTags
      /\ cs.tag \in UnmapTags
      /\ CallArgs(new, pt') = CallArgs(cs, pt)
  BY <1>1 DEF UnmapState, Idle, CallArgs, MapTags, UnmapTags, UnmapOpTags
<1> HIDE DEF new
<1>4. /\ DOMAIN pt' = DOMAIN pt \ {vaddr}
      /\ \A v \in DOMAIN pt : v # vaddr => pt'[v] = pt[v]
  <2>1. /\ DOMAIN Remove(pt, vaddr) = DOMAIN pt \ {vaddr}
        /\ \A v \in DOMAIN pt : v # vaddr => Remove(pt, vaddr)[v] = pt[v]
    BY <1>1, RemoveFacts
  <2> QED
    BY <1>1, <2>1
<1>5. \A c \in Core : CallKept(c)
  <2>1. \A c \in Core : c # core => CallKept(c)
    BY <1>1, <1>2, <1>4, OthersKept
  <2>2. CallKept(core)
    BY <1>1, <1>2, <1>3 DEF CallKept
  <2> QED
    BY <2>1, <2>2
<1>6. \A v : v \in DOMAIN effective_mappings' <=> v \in DOMAIN effective_mappings
  <2>1. \A v : (\A c \in Core : core_states'[c].tag \in UnmapTags => core_states'[c].vaddr # v)
           <=> (\A c \in Core : core_states[c].tag \in UnmapTags => core_states[c].vaddr # v)
    BY <1>2, <1>3
  <2>2. \A v : (\A c \in Core : core_states[c].tag \in UnmapTags => core_states[c].vaddr # v)
                 => v # vaddr
    BY <1>3
  <2> QED
    BY <1>4, <2>1, <2>2, EffectiveFacts, EffectiveNext
<1>7. DOMAIN effective_mappings' = DOMAIN effective_mappings
  BY <1>6
<1>8. \A v \in DOMAIN effective_mappings : effective_mappings'[v] = effective_mappings[v]
  BY <1>4, <1>7, EffectiveFacts, EffectiveNext
<1>9. effective_mappings' = effective_mappings
  BY <1>7, <1>8, EffectiveIsFunction
<1> QED
  BY <1>1, <1>5, <1>9, ViewKept

LEMMA UnmapEndRefines ==
  ASSUME RefinementInv, TypeOK', NEW core \in Core, step_Unmap_End(core)
  PROVE  core_states[core].ULT_id \in ULT /\ HL!step_Unmap_end(core_states[core].ULT_id)
<1> DEFINE cs == core_states[core]
           id == cs.ULT_id
<1>1. /\ TypeOK /\ cs.tag \in UnmapOpTags /\ cs # Idle
      /\ core_states \in [Core -> CoreState]
      /\ core_states' = [core_states EXCEPT ![core] = Idle]
      /\ UNCHANGED <<pt, mem, sound>>
      /\ cs.vaddr \notin DOMAIN pt
  BY CoreFields
     DEF RefinementInv, IndInv, TypeOK, successful_unmaps, step_Unmap_End, PtStutter, step_PTMemOp,
         UnmapOpTags
<1>2. core_states'[core] = Idle /\ \A c \in Core : c # core => core_states'[c] = core_states[c]
  BY <1>1
<1>3. id \in ULT /\ core = ULT2core[id] /\ interp_thread_state[id] = CallArgs(cs, pt)
  BY <1>1, CoreThread
<1>4. interp_thread_state[id].tag = "Unmap"
  BY <1>1, <1>3 DEF CallArgs, HL!UnmapArgs, MapTags, UnmapOpTags
<1>5. interp_thread_state' = [interp_thread_state EXCEPT ![id] = HL!Empty]
  <2>1. \A c \in Core : c # core => CallKept(c)
    BY <1>1, <1>2 DEF CallKept
  <2> QED
    BY <1>1, <1>2, <1>3, <2>1, ThreadChanges DEF ThreadArgs
<1>6. \A v : v \in DOMAIN effective_mappings' <=> v \in DOMAIN effective_mappings
  BY <1>1, <1>2, IdleTag, EffectiveFacts, EffectiveNext
<1>7. DOMAIN effective_mappings' = DOMAIN effective_mappings
  BY <1>6
<1>8. \A v \in DOMAIN effective_mappings : effective_mappings'[v] = effective_mappings[v]
  BY <1>1, <1>7, EffectiveFacts, EffectiveNext
<1>9. effective_mappings' = effective_mappings
  BY <1>7, <1>8, EffectiveIsFunction
<1>10. interp_vmem' = interp_vmem
  BY <1>1, <1>9, InterpVmem, InterpVmemNext
<1> QED
  BY <1>1, <1>3, <1>4, <1>5, <1>9, <1>10 DEF HL!step_Unmap_end

-----------------------------------------------------------------------------
(* The flag sound is never cleared. *)
LEMMA SoundStep == sound = TRUE /\ [Next]_vars => (sound = TRUE)'
  BY DEF Next, HWStep, KernelStep, SyscallStart, step_HW_ReadWrite_Cached,
         step_HW_ReadWrite_Pagefault, step_HW_TLBFill, step_HW_TLBEvict, step_Map_Start,
         step_Map_op_Start, step_Map_End, step_Unmap_Start, step_Unmap_Op_Start,
         step_Unmap_Op_End, step_Unmap_Initiate_Shootdown, step_Ack_Shootdown_IPI,
         step_Unmap_End, step_View_Stutter, osvars, vars

LEMMA RefinementInvariant == Spec => []RefinementInv
<1>1. Init => sound = TRUE
  BY DEF Init
<1>2. Spec => [](sound = TRUE)
  BY <1>1, SoundStep, PTL DEF Spec
<1> QED
  BY <1>2, IndInvariant, OverlapInvariant, PTL DEF RefinementInv

LEMMA RefinesInit == Init => HL!Init
<1> SUFFICES ASSUME Init PROVE HL!Init
  OBVIOUS
<1>1. /\ pt = EmptyMap /\ DOMAIN pt = {}
      /\ core_states = [core \in Core |-> Idle]
      /\ sound = TRUE
  BY EmptyMapType DEF Init, HWInit
<1>2. effective_mappings = HL!EmptyMap /\ DOMAIN effective_mappings = {}
  BY <1>1 DEF effective_mappings, HL!EmptyMap
<1>3. interp_vmem = HL!EmptyMap
  BY <1>2 DEF interp_vmem, interp_mem_domain, HL!EmptyMap
<1>4. interp_thread_state = [id \in ULT |-> HL!Empty]
  BY <1>1, TypeInit, InterpThreads, OSAssumption DEF ThreadArgs
<1> QED
  BY <1>1, <1>2, <1>3, <1>4 DEF HL!Init

(* Steps of the MMU and of a core within a phase of its call. *)
LEMMA StutterStep ==
  ASSUME RefinementInv, TypeOK', NEW core \in Core,
         \/ \E vaddr \in VAddr : step_HW_TLBFill(core, vaddr) \/ step_HW_TLBEvict(core, vaddr)
         \/ step_Map_op_Start(core)
         \/ step_Unmap_Op_End(core)
         \/ step_Unmap_Initiate_Shootdown(core)
         \/ step_Ack_Shootdown_IPI(core)
         \/ step_View_Stutter(core)
  PROVE  UNCHANGED HL!vars
<1>1. TypeOK /\ UNCHANGED <<pt, mem, sound>>
  BY DEF RefinementInv, IndInv, step_HW_TLBFill, step_TLBFill, step_HW_TLBEvict, step_TLBEvict,
         step_Map_op_Start, step_Unmap_Op_End, step_Unmap_Initiate_Shootdown,
         step_Ack_Shootdown_IPI, step_View_Stutter, PtStutter, PtViewStutter, step_PTMemOp, osvars
<1>2. \A c \in Core : CallKept(c)
  <2>1. CASE \/ \E vaddr \in VAddr : step_HW_TLBFill(core, vaddr) \/ step_HW_TLBEvict(core, vaddr)
             \/ step_Ack_Shootdown_IPI(core)
             \/ step_View_Stutter(core)
    BY <1>1, <2>1, AllKept
       DEF step_HW_TLBFill, step_HW_TLBEvict, step_Ack_Shootdown_IPI, step_View_Stutter, osvars
  <2>2. CASE \/ step_Map_op_Start(core)
             \/ step_Unmap_Op_End(core)
             \/ step_Unmap_Initiate_Shootdown(core)
    BY <1>1, <2>2, TagStep
       DEF step_Map_op_Start, step_Unmap_Op_End, step_Unmap_Initiate_Shootdown, UnmapOpTags
  <2> QED
    BY <2>1, <2>2
<1> QED
  BY <1>1, <1>2, EffectiveKept, ViewKept

LEMMA RefinesStep ==
  RefinementInv /\ RefinementInv' /\ [Next]_vars => [HL!Next]_(HL!vars)
<1> SUFFICES ASSUME RefinementInv, RefinementInv', [Next]_vars PROVE [HL!Next]_(HL!vars)
  OBVIOUS
<1>1. TypeOK /\ TypeOK' /\ OverlapInv' /\ sound = TRUE
  BY DEF RefinementInv, IndInv
<1>2. ASSUME NEW id \in ULT, HL!ThreadStep(id) PROVE HL!Next
  BY <1>1, <1>2 DEF HL!Next
<1>3. ASSUME NEW core \in Core, HWStep(core) PROVE [HL!Next]_(HL!vars)
  <2>1. CASE \E vaddr \in VAddr, op \in HWRWOp, base \in VAddr :
               step_HW_ReadWrite_Cached(core, vaddr, op, base)
    BY <1>1, <1>2, <2>1, CachedStep
  <2>2. CASE \E vaddr \in VAddr : step_HW_ReadWrite_Pagefault(vaddr)
    BY <1>1, <1>2, <2>2, PagefaultStep
  <2>3. CASE \E vaddr \in VAddr : step_HW_TLBFill(core, vaddr) \/ step_HW_TLBEvict(core, vaddr)
    BY <1>1, <2>3, StutterStep
  <2> QED
    BY <1>3, <2>1, <2>2, <2>3 DEF HWStep
<1>4. ASSUME NEW core \in Core, KernelStep(core) PROVE [HL!Next]_(HL!vars)
  <2>1. CASE step_Map_End(core)
    <3>1. PICK id \in ULT : HL!step_Map_end(id)
      BY <1>1, <2>1, MapEndRefines
    <3> QED
      BY <1>2, <3>1 DEF HL!ThreadStep
  <2>2. CASE step_Unmap_End(core)
    <3>1. PICK id \in ULT : HL!step_Unmap_end(id)
      BY <1>1, <2>2, UnmapEndRefines
    <3> QED
      BY <1>2, <3>1 DEF HL!ThreadStep
  <2>3. CASE step_Unmap_Op_Start(core)
    BY <1>1, <2>3, UnmapOpStartRefines
  <2>4. CASE \/ step_Map_op_Start(core)
             \/ step_Unmap_Op_End(core)
             \/ step_Unmap_Initiate_Shootdown(core)
             \/ step_Ack_Shootdown_IPI(core)
             \/ step_View_Stutter(core)
    BY <1>1, <2>4, StutterStep
  <2> QED
    BY <1>4, <2>1, <2>2, <2>3, <2>4 DEF KernelStep
<1>5. ASSUME NEW id \in ULT, SyscallStart(id) PROVE HL!Next
  <2>1. PICK vaddr \in VAddr :
          (\E pte \in PTE : step_Map_Start(id, vaddr, pte)) \/ step_Unmap_Start(id, vaddr)
    BY <1>5 DEF SyscallStart
  <2>2. CASE \E pte \in PTE : step_Map_Start(id, vaddr, pte)
    <3>1. \E pte \in PTE : HL!step_Map_start(id, vaddr, pte)
      BY <1>1, <2>2, MapStartRefines
    <3> QED
      BY <1>2, <3>1 DEF HL!ThreadStep
  <2>3. CASE step_Unmap_Start(id, vaddr)
    <3>1. HL!step_Unmap_start(id, vaddr)
      BY <1>1, <2>3, UnmapStartRefines
    <3> QED
      BY <1>2, <3>1 DEF HL!ThreadStep
  <2> QED
    BY <2>1, <2>2, <2>3
<1>6. CASE UNCHANGED vars
  <2>1. UNCHANGED <<pt, mem, sound, core_states>>
    BY <1>6 DEF vars
  <2> QED
    BY <1>1, <2>1, AllKept, EffectiveKept, ViewKept
<1> QED
  BY <1>3, <1>4, <1>5, <1>6 DEF Next

(* The refinement of impl_u/os_refinement.rs: every behaviour of the       *)
(* operating system is, through OSVariables::interp, one of the process-   *)
(* level specification hlspec.rs.                                          *)
THEOREM RefinesHLSpecCorrect == Spec => RefinesHLSpec
<1>1. RefinementInv /\ RefinementInv' /\ [Next]_vars => [HL!Next]_(HL!vars)
  BY RefinesStep
<1> QED
  BY <1>1, RefinesInit, RefinementInvariant, PTL DEF Spec, RefinesHLSpec, HL!Spec

(* hlspec.rs' invariant on aliasing: no physical memory is behind two      *)
(* mappings of the process, or behind a mapping and a call that maps it.   *)
THEOREM ProcessNoAliasingCorrect == Spec => []ProcessNoAliasing
<1>1. RefinementInv => ProcessNoAliasing
  <2> SUFFICES ASSUME TypeOK, OverlapInv
               PROVE  HL!pmem_no_overlap /\ HL!inflight_map_no_overlap_pmem
    BY DEF RefinementInv, IndInv, ProcessNoAliasing, HL!NoAliasing
  <2>1. HL!pmem_no_overlap
    BY TablePages, SameOperators DEF Pages, HL!pmem_no_overlap
  <2>2. ASSUME NEW id \in ULT, interp_thread_state[id].tag = "Map"
        PROVE  /\ ~HL!candidate_mapping_overlaps_existing_pmem(
                     effective_mappings, interp_thread_state[id].pte)
               /\ \A other \in ULT \ {id} :
                    \A frame \in HL!InflightFrames(interp_thread_state[other]) :
                      ~overlap(interp_thread_state[id].pte.frame, frame)
    <3> DEFINE core == ULT2core[id]
    <3>1. interp_thread_state[id] # HL!Empty
      BY <2>2 DEF HL!Empty
    <3>2. /\ core \in Core /\ core_states[core] # Idle /\ core_states[core].ULT_id = id
          /\ interp_thread_state[id] = CallArgs(core_states[core], pt)
      BY <3>1, ThreadCall
    <3>3. core_states[core].tag \in MapTags /\ interp_thread_state[id].pte = core_states[core].pte
      BY <2>2, <3>2 DEF CallArgs, HL!MapArgs, HL!UnmapArgs
    <3>4. TakenFrames(core_states[core]) = {core_states[core].pte.frame}
      BY <3>3 DEF TakenFrames, MapTags, UnmapOpTags
    <3>5. \A v \in DOMAIN pt : ~overlap(core_states[core].pte.frame, pt[v].frame)
      BY <3>2, <3>4 DEF OverlapInv, TakenApart
    <3>6. ~HL!candidate_mapping_overlaps_existing_pmem(
             effective_mappings, interp_thread_state[id].pte)
      BY <3>3, <3>5, EffectiveFacts, SameOperators
         DEF HL!candidate_mapping_overlaps_existing_pmem
    <3>7. ASSUME NEW other \in ULT \ {id}, NEW frame \in HL!InflightFrames(interp_thread_state[other])
          PROVE  ~overlap(interp_thread_state[id].pte.frame, frame)
      <4> DEFINE oc == ULT2core[other]
      <4>1. interp_thread_state[other] # HL!Empty
        BY <3>7 DEF HL!InflightFrames
      <4>2. /\ oc \in Core /\ core_states[oc] # Idle /\ core_states[oc].ULT_id = other
            /\ interp_thread_state[other] = CallArgs(core_states[oc], pt)
        BY <4>1, ThreadCall
      <4>3. oc # core
        BY <3>2, <4>2
      <4>4. frame \in InflightFrames(core_states[oc])
        BY <3>7, <4>2, CallArgsFacts
      <4>5. frame \in TakenFrames(core_states[oc]) \/ \E v \in DOMAIN pt : frame = pt[v].frame
        BY <4>4 DEF InflightFrames, TakenFrames, MapTags, UnmapOpTags
      <4> HIDE DEF oc, core
      <4> QED
        BY <3>2, <3>3, <3>5, <4>2, <4>3, <4>5 DEF OverlapInv, MapFramesApart
    <3> QED
      BY <3>6, <3>7
  <2>3. HL!inflight_map_no_overlap_pmem
    BY <2>2, SameOperators DEF HL!inflight_map_no_overlap_pmem
  <2> QED
    BY <2>1, <2>3
<1> QED
  BY <1>1, RefinementInvariant, PTL
=============================================================================
