------------------------------ MODULE HLSpec -------------------------------
(***************************************************************************)
(* What the kernel promises a process, page-table/spec_t/hlspec.rs: a      *)
(* virtual memory that changes only through the process' own stores, and   *)
(* mappings that come into being when a map call ends and go away when an  *)
(* unmap call starts. There are no cores, TLBs, locks or page tables.      *)
(*                                                                         *)
(* A call that overlaps another one in flight is unsound: from then on the *)
(* specification promises nothing.                                         *)
(***************************************************************************)
EXTENDS Definitions

CONSTANTS
  Thread,          \* the valid threads
  phys_mem_size,   \* number of words of physical memory
  Value,           \* the contents of a word
  VAddr,           \* the addresses threads use
  PTE,             \* the entries threads ask to map
  NoPte            \* None of Option<PageTableEntry>

VARIABLES
  mem,            \* word-indexed virtual memory, a partial function
  mappings,       \* virtual base address to page table entry
  thread_state,   \* the arguments of the call each thread has in flight
  sound

vars == <<mem, mappings, thread_state, sound>>

Empty == [tag |-> "Empty"]

MapArgs(vaddr, pte) == [tag |-> "Map", vaddr |-> vaddr, pte |-> pte]

UnmapArgs(vaddr, pte) == [tag |-> "Unmap", vaddr |-> vaddr, pte |-> pte]

RWOp == [kind : {"Store"}, new_value : Value] \cup [kind : {"Load"}, is_exec : BOOLEAN]

-----------------------------------------------------------------------------
mem_domain_from_entry_contains(vaddr, base, pte) ==
  /\ between(vaddr, base, base + pte.frame.size)
  /\ word_index_spec(pte.frame.base + (vaddr - base)) < phys_mem_size

mem_domain_from_mappings(maps) ==
  {idx \in 0 .. UPPER_VADDR \div WORD_SIZE :
     \E base \in DOMAIN maps : mem_domain_from_entry_contains(idx * WORD_SIZE, base, maps[base])}

(* The frames of a call in flight: the one being mapped or unmapped. *)
InflightFrames(args) ==
  IF args = Empty \/ args.pte = NoPte THEN {} ELSE {args.pte.frame}

InflightSize(args) == IF args.pte = NoPte THEN 0 ELSE args.pte.frame.size

candidate_mapping_overlaps_inflight_vmem(base, candidate_size) ==
  \E id \in Thread :
    /\ thread_state[id] # Empty
    /\ overlap(Region(thread_state[id].vaddr, InflightSize(thread_state[id])),
               Region(base, candidate_size))

candidate_mapping_overlaps_inflight_pmem(candidate) ==
  \E id \in Thread : \E frame \in InflightFrames(thread_state[id]) :
    overlap(candidate.frame, frame)

-----------------------------------------------------------------------------
Init ==
  /\ mem = EmptyMap
  /\ mappings = EmptyMap
  /\ thread_state = [id \in Thread |-> Empty]
  /\ sound = TRUE

(* An access of a thread that no call keeps busy, through the mapping of   *)
(* base. A load returns mem[word_index_spec(vaddr)] or is undefined.       *)
step_ReadWrite_Mapped(id, vaddr, op, base) ==
  LET pte == mappings[base] IN
  /\ aligned(vaddr, WORD_SIZE)
  /\ thread_state[id] = Empty
  /\ base \in DOMAIN mappings
  /\ between(vaddr, base, base + pte.frame.size)
  /\ mem' = IF /\ op.kind = "Store"
               /\ word_index_spec(pte.frame.base + (vaddr - base)) < phys_mem_size
               /\ FlagsPermit(op, pte.flags)
            THEN Insert(mem, word_index_spec(vaddr), op.new_value)
            ELSE mem
  /\ UNCHANGED <<mappings, thread_state, sound>>

(* An access outside the mappings: undefined, memory unchanged. *)
step_ReadWrite_Unmapped(id, vaddr) ==
  /\ aligned(vaddr, WORD_SIZE)
  /\ thread_state[id] = Empty
  /\ word_index_spec(vaddr) \notin mem_domain_from_mappings(mappings)
  /\ UNCHANGED vars

step_Map_sound(vaddr, pte) ==
  /\ ~candidate_mapping_overlaps_inflight_vmem(vaddr, pte.frame.size)
  /\ ~candidate_mapping_overlaps_existing_pmem(mappings, pte)
  /\ ~candidate_mapping_overlaps_inflight_pmem(pte)

step_Map_start(id, vaddr, pte) ==
  /\ MapArgsValid(vaddr, pte)
  /\ thread_state[id] = Empty
  /\ \/ /\ step_Map_sound(vaddr, pte)
        /\ thread_state' = [thread_state EXCEPT ![id] = MapArgs(vaddr, pte)]
        /\ UNCHANGED <<mem, mappings, sound>>
     \/ /\ ~step_Map_sound(vaddr, pte)
        /\ sound' = FALSE

step_Map_end(id) ==
  LET vaddr == thread_state[id].vaddr
      pte   == thread_state[id].pte IN
  /\ thread_state[id].tag = "Map"
  /\ thread_state' = [thread_state EXCEPT ![id] = Empty]
  /\ UNCHANGED sound
  /\ IF candidate_mapping_overlaps_existing_vmem(mappings, vaddr, pte)
     THEN UNCHANGED <<mem, mappings>>
     ELSE /\ mappings' = Insert(mappings, vaddr, pte)
          /\ mem' \in [mem_domain_from_mappings(mappings') -> Value]
          /\ \A idx \in DOMAIN mem : mem'[idx] = mem[idx]

step_Unmap_sound(vaddr, pte_size) ==
  ~candidate_mapping_overlaps_inflight_vmem(vaddr, pte_size)

step_Unmap_start(id, vaddr) ==
  LET mapped == vaddr \in DOMAIN mappings
      pte    == IF mapped THEN mappings[vaddr] ELSE NoPte
      size   == IF mapped THEN pte.frame.size ELSE 0 IN
  /\ step_Unmap_enabled(vaddr)
  /\ thread_state[id] = Empty
  /\ \/ /\ step_Unmap_sound(vaddr, size)
        /\ thread_state' = [thread_state EXCEPT ![id] = UnmapArgs(vaddr, pte)]
        /\ mappings' = Remove(mappings, vaddr)
        /\ mem' = [idx \in mem_domain_from_mappings(mappings') |-> mem[idx]]
        /\ UNCHANGED sound
     \/ /\ ~step_Unmap_sound(vaddr, size)
        /\ sound' = FALSE

(* The call returns Ok if the mapping existed when it started, else Err. *)
step_Unmap_end(id) ==
  /\ thread_state[id].tag = "Unmap"
  /\ thread_state' = [thread_state EXCEPT ![id] = Empty]
  /\ UNCHANGED <<mem, mappings, sound>>

ThreadStep(id) ==
  \/ step_Map_end(id)
  \/ step_Unmap_end(id)
  \/ \E vaddr \in VAddr :
       \/ step_Unmap_start(id, vaddr)
       \/ step_ReadWrite_Unmapped(id, vaddr)
       \/ \E pte \in PTE : step_Map_start(id, vaddr, pte)
       \/ \E op \in RWOp, base \in DOMAIN mappings : step_ReadWrite_Mapped(id, vaddr, op, base)

Next ==
  IF sound THEN \E id \in Thread : ThreadStep(id) ELSE sound' = FALSE

Spec == Init /\ [][Next]_vars

-----------------------------------------------------------------------------
(* Two mappings of the process never share physical memory: hlspec.rs      *)
(* pmem_no_overlap, which its inv() states for every sound behaviour.      *)
pmem_no_overlap ==
  \A bs1, bs2 \in DOMAIN mappings :
    overlap(mappings[bs1].frame, mappings[bs2].frame) => bs1 = bs2

(* The frame of a map call in flight overlaps no mapping and no other call *)
(* in flight (hlspec.rs inflight_map_no_overlap_pmem and ..inflight_pmem). *)
inflight_map_no_overlap_pmem ==
  \A id \in Thread : thread_state[id].tag = "Map" =>
    /\ ~candidate_mapping_overlaps_existing_pmem(mappings, thread_state[id].pte)
    /\ \A other \in Thread \ {id} : \A frame \in InflightFrames(thread_state[other]) :
         ~overlap(thread_state[id].pte.frame, frame)

(* A sound process sees no aliasing of physical memory. *)
NoAliasing == sound => pmem_no_overlap /\ inflight_map_no_overlap_pmem
=============================================================================
