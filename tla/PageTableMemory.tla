-------------------------- MODULE PageTableMemory --------------------------
(***************************************************************************)
(* PageTableMemory of spec_t/mem.rs: the pages that hold page directories, *)
(* an allocator for them, and word reads and writes.                       *)
(*                                                                         *)
(* A word is the record of those of its bits that translation and the      *)
(* implementation look at: the flags P, RW, US, XD, bit 7 (page size, or   *)
(* PAT in layer 3) and the number formed by its bits 12 to 51, as addr.    *)
(* The zero word is zero_entry.  The other bits are never set: the model   *)
(* leaves them out, write-through and cache-disable among them.            *)
(*                                                                         *)
(* The contents of a page that is not allocated are not specified.  Here   *)
(* such a page is filled with the entry junk, which refers back to it, so  *)
(* that whoever follows a dangling pointer or relies on a fresh page being *)
(* zero without zeroing it meets entries that are present.                 *)
(***************************************************************************)
EXTENDS Arch, FiniteSets

CONSTANTS
  Page,   \* base addresses of the pages the allocator hands out
  cr3     \* base address of the root directory

VARIABLES
  regions,       \* the allocated pages, the root among them
  region_view    \* the words of each page

memvars == <<regions, region_view>>

PageRegions == Page \cup {cr3}

ASSUME MemoryAssumption ==
  /\ IsFiniteSet(Page)
  /\ Page \subseteq Nat
  /\ cr3 \in Nat \ Page
  /\ \A page \in PageRegions : aligned(page, PAGE_SIZE) /\ page + PAGE_SIZE <= MAX_PHYADDR

Word == [P : BOOLEAN, RW : BOOLEAN, US : BOOLEAN, XD : BOOLEAN, PS : BOOLEAN, addr : Nat]

zero_entry ==
  [P |-> FALSE, RW |-> FALSE, US |-> FALSE, XD |-> FALSE, PS |-> FALSE, addr |-> 0]

new_seq(word) == [idx \in EntryIndex |-> word]

junk(page) ==
  [P |-> TRUE, RW |-> FALSE, US |-> FALSE, XD |-> TRUE, PS |-> FALSE, addr |-> page]

alloc_available_pages == Cardinality(Page \ regions)

MemoryInit ==
  /\ regions = {cr3}
  /\ region_view = [page \in PageRegions |->
                      new_seq(IF page = cr3 THEN zero_entry ELSE junk(page))]

alloc_page(page) ==
  /\ page \in Page \ regions
  /\ regions' = regions \cup {page}
  /\ region_view' = [region_view EXCEPT ![page] = new_seq(zero_entry)]

(* The words of the page are no longer specified once it is given back. *)
dealloc_page(page) ==
  /\ regions' = regions \ {page}
  /\ region_view' = [region_view EXCEPT ![page] = new_seq(junk(page))]

write(page, idx, word) ==
  /\ region_view' = [region_view EXCEPT ![page][idx] = word]
  /\ regions' = regions

(* The word of the memory mem at index idx of a page. *)
spec_read(mem, idx, page) == mem[page][idx]
=============================================================================
