---------------------------- MODULE Definitions ----------------------------
(***************************************************************************)
(* Address arithmetic of the page table (page-table/definitions_t.rs and   *)
(* spec_t/mem.rs): memory regions, alignment, overlap of regions and of a  *)
(* candidate mapping with a set of existing mappings.                      *)
(*                                                                         *)
(* A mapping table is a partial function from virtual base addresses to    *)
(* page table entries, i.e. the Map<nat, PageTableEntry> of the source.    *)
(***************************************************************************)
EXTENDS Integers

CONSTANTS
  WORD_SIZE,     \* bytes per memory word (8 in the source)
  PAGE_SIZES,    \* {L3_ENTRY_SIZE, L2_ENTRY_SIZE, L1_ENTRY_SIZE}
  UPPER_VADDR,   \* x86_arch_spec.upper_vaddr(0, 0)
  MAX_PHYADDR    \* the largest physical address

ASSUME SizesAssumption ==
  /\ WORD_SIZE \in Nat \ {0}
  /\ PAGE_SIZES \subseteq Nat \ {0}
  /\ \A size \in PAGE_SIZES : size % WORD_SIZE = 0
  /\ UPPER_VADDR \in Nat
  /\ MAX_PHYADDR \in Nat

MemRegion == [base : Nat, size : Nat]

Flags == [is_writable : BOOLEAN, is_supervisor : BOOLEAN, disable_execute : BOOLEAN]

PageTableEntry == [frame : MemRegion, flags : Flags]

Region(base, size) == [base |-> base, size |-> size]

aligned(addr, size) == addr % size = 0

between(x, a, b) == a <= x /\ x < b

word_index_spec(addr) == addr \div WORD_SIZE

(* Two regions with the same base overlap even when one of them is empty. *)
overlap(region1, region2) ==
  IF region1.base <= region2.base
  THEN \/ region1.base = region2.base
       \/ region2.base < region1.base + region1.size
  ELSE region1.base < region2.base + region2.size

candidate_mapping_in_bounds(base, pte) == base + pte.frame.size < UPPER_VADDR

candidate_mapping_overlaps_existing_vmem(mappings, base, pte) ==
  \E b \in DOMAIN mappings :
    overlap(Region(base, pte.frame.size), Region(b, mappings[b].frame.size))

(* Mutant: compares the bases only. *)
candidate_mapping_overlaps_existing_pmem_BaseOnly(mappings, pte) ==
  \E b \in DOMAIN mappings : pte.frame.base = mappings[b].frame.base

candidate_mapping_overlaps_existing_pmem(mappings, pte) ==
  \E b \in DOMAIN mappings : overlap(pte.frame, mappings[b].frame)

(* Map::insert and Map::remove of the source's Map type. *)
Insert(map, key, value) ==
  [k \in DOMAIN map \cup {key} |-> IF k = key THEN value ELSE map[k]]

Remove(map, key) == [k \in DOMAIN map \ {key} |-> map[k]]

EmptyMap == [k \in {} |-> {}]

(* What the flags of a mapping let a user access do: HWRWOp and RWOp are   *)
(* stores of a value and loads, a load possibly an instruction fetch.      *)
FlagsPermit(op, flags) ==
  /\ ~flags.is_supervisor
  /\ op.kind = "Store" => flags.is_writable
  /\ op.kind = "Load" /\ op.is_exec => ~flags.disable_execute

(***************************************************************************)
(* The argument checks of the two system calls. os.rs and hlspec.rs state  *)
(* the same conditions; os.rs asks in addition for free table pages.       *)
(***************************************************************************)
MapArgsValid(vaddr, pte) ==
  /\ pte.frame.size \in PAGE_SIZES
  /\ aligned(vaddr, pte.frame.size)
  /\ aligned(pte.frame.base, pte.frame.size)
  /\ pte.frame.base <= MAX_PHYADDR
  /\ candidate_mapping_in_bounds(vaddr, pte)

step_Unmap_enabled(vaddr) ==
  /\ vaddr < UPPER_VADDR
  /\ \E size \in PAGE_SIZES : aligned(vaddr, size)
=============================================================================
