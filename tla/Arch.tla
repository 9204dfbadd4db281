-------------------------------- MODULE Arch --------------------------------
(***************************************************************************)
(* The four-layer paging structure (page-table/definitions_t.rs and        *)
(* definitions_u.rs).  Layer 0 is the PML4, layer 3 the page table; the    *)
(* entries of the layers 1 to 3 can map a page.  The numbers 4096 and 512  *)
(* of the source are the constants PAGE_SIZE and X86_NUM_ENTRIES.          *)
(***************************************************************************)
EXTENDS Definitions

CONSTANTS
  PAGE_SIZE,        \* bytes of a page, which is also the size of a directory
  X86_NUM_ENTRIES   \* entries of a directory

L3_ENTRY_SIZE == PAGE_SIZE
L2_ENTRY_SIZE == X86_NUM_ENTRIES * L3_ENTRY_SIZE
L1_ENTRY_SIZE == X86_NUM_ENTRIES * L2_ENTRY_SIZE
L0_ENTRY_SIZE == X86_NUM_ENTRIES * L1_ENTRY_SIZE

MAX_BASE == L0_ENTRY_SIZE * X86_NUM_ENTRIES

Layer == 0 .. 3
EntryIndex == 0 .. X86_NUM_ENTRIES - 1

entry_size(layer) ==
  CASE layer = 0 -> L0_ENTRY_SIZE
    [] layer = 1 -> L1_ENTRY_SIZE
    [] layer = 2 -> L2_ENTRY_SIZE
    [] layer = 3 -> L3_ENTRY_SIZE

index_for_vaddr(layer, base, vaddr) == (vaddr - base) \div entry_size(layer)

entry_base(layer, base, idx) == base + idx * entry_size(layer)

upper_vaddr(layer, base) == entry_base(layer, base, X86_NUM_ENTRIES)

contains_entry_size_at_index_atleast(size, min_idx) ==
  \E layer \in min_idx .. 3 : entry_size(layer) = size

contains_entry_size(size) == contains_entry_size_at_index_atleast(size, 0)

(* Directories never restrict: restrictions are made on the frame mapping. *)
permissive_flags ==
  [is_writable |-> TRUE, is_supervisor |-> FALSE, disable_execute |-> FALSE]

(* The constants of Definitions are those of this structure. *)
ASSUME ArchAssumption ==
  /\ PAGE_SIZE \in Nat \ {0}
  /\ X86_NUM_ENTRIES \in Nat \ {0} /\ X86_NUM_ENTRIES % 2 = 0
  /\ PAGE_SIZES = {L1_ENTRY_SIZE, L2_ENTRY_SIZE, L3_ENTRY_SIZE}
  /\ UPPER_VADDR = upper_vaddr(0, 0)
=============================================================================
