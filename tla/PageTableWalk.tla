--------------------------- MODULE PageTableWalk ---------------------------
(***************************************************************************)
(* How the MMU reads a page table memory mem, which is region_view in some *)
(* state (spec_t/hardware.rs): the meaning of one word at a layer, and the *)
(* four-level page table walk.                                             *)
(*                                                                         *)
(* The address masks are arithmetic on the number addr of a word: the bits *)
(* above the physical address width are those of addr beyond MAX_PHYADDR,  *)
(* which is one less than a power of two, and the bits below a page size   *)
(* are addr % size.                                                        *)
(***************************************************************************)
EXTENDS PageTableMemory

MASK_ADDR(addr) == addr % (MAX_PHYADDR + 1)

MASK_PG_ADDR(layer, addr) == MASK_ADDR(addr) - (addr % entry_size(layer))

(* Bit 12: PAT in the entries that map a super or a huge page. *)
MASK_PG_FLAG_PAT(addr) == (addr \div PAGE_SIZE) % 2 = 1

(* Bits 13 to 29 of a super page, 13 to 20 of a huge page. *)
reserved_page_bits(layer, addr) == (addr % entry_size(layer)) \div (2 * PAGE_SIZE)

all_mb0_bits_are_zero(layer, word) ==
  word.P =>
    /\ word.addr <= MAX_PHYADDR
    /\ layer = 0 => ~word.PS
    /\ layer \in {1, 2} /\ word.PS => reserved_page_bits(layer, word.addr) = 0

maps_page(layer, word) == layer = 3 \/ (layer > 0 /\ word.PS)

(* GhostPageDirectoryEntry: what the MMU takes a word for. *)
view(layer, word) ==
  IF ~word.P \/ ~all_mb0_bits_are_zero(layer, word)
  THEN [kind |-> "Empty"]
  ELSE [kind    |-> IF maps_page(layer, word) THEN "Page" ELSE "Directory",
        addr    |-> IF maps_page(layer, word) THEN MASK_PG_ADDR(layer, word.addr)
                                              ELSE MASK_ADDR(word.addr),
        flag_RW |-> word.RW, flag_US |-> word.US, flag_XD |-> word.XD]

read_entry(mem, dir_addr, layer, idx) == view(layer, spec_read(mem, idx, dir_addr))

(* l0_bits to l3_bits: the index of addr in a directory of the layer. *)
index_bits(layer, addr) == (addr \div entry_size(layer)) % X86_NUM_ENTRIES

next_entry(mem, parent, layer, addr) ==
  IF parent.kind = "Directory"
  THEN read_entry(mem, parent.addr, layer, index_bits(layer, addr))
  ELSE [kind |-> "Empty"]

(* The entries the MMU meets on its way to addr, that of layer l at l + 1. *)
walk_entries(mem, addr) ==
  LET e0 == read_entry(mem, cr3, 0, index_bits(0, addr))
      e1 == next_entry(mem, e0, 1, addr)
      e2 == next_entry(mem, e1, 2, addr)
      e3 == next_entry(mem, e2, 3, addr)
  IN  <<e0, e1, e2, e3>>

(* An entry that maps a page gets the flags of the whole path: writable if *)
(* all its entries are, supervisor or not executable if one of them is.    *)
page_of_walk(path, layer) ==
  [frame |-> Region(path[layer + 1].addr, entry_size(layer)),
   flags |-> [is_writable     |-> \A l \in 1 .. layer + 1 : path[l].flag_RW,
              is_supervisor   |-> \E l \in 1 .. layer + 1 : ~path[l].flag_US,
              disable_execute |-> \E l \in 1 .. layer + 1 : path[l].flag_XD]]

(* The page table entries the walk of addr arrives at: one or none.  A     *)
(* translation is keyed by the base address of its page, so that the walk  *)
(* of an address inside a page does not count.                             *)
valid_pt_walks(mem, addr) ==
  LET path == walk_entries(mem, addr)
  IN  {page_of_walk(path, layer) :
         layer \in {l \in 1 .. 3 : path[l + 1].kind = "Page" /\ aligned(addr, entry_size(l))}}

valid_pt_walk(mem, addr, pte) == pte \in valid_pt_walks(mem, addr)

(* The mappings the MMU sees: the map of the page table specification.     *)
(* Pages are at least PAGE_SIZE large, so no other address can be a key.   *)
interp_pt_mem(mem) ==
  LET walks == UNION {{<<addr, pte>> : pte \in valid_pt_walks(mem, addr)} :
                        addr \in {a \in 0 .. MAX_BASE - 1 : aligned(a, PAGE_SIZE)}}
  IN  [addr \in {w[1] : w \in walks} |-> (CHOOSE w \in walks : w[1] = addr)[2]]
=============================================================================
