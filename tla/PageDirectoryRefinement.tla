------------------------ MODULE PageDirectoryRefinement -----------------------
(***************************************************************************)
(* The invariant of the memory of the page table implementation (PT::inv   *)
(* of l2_impl.rs), and the page table specification (spec_pt.rs) that it   *)
(* implements under the MMU's interpretation of the memory.                *)
(*                                                                         *)
(* The ghost PTDir of the source records which page each directory entry   *)
(* leads to and which pages lie below it; both are functions of the        *)
(* memory, and here they are computed from it, layer by layer: there are   *)
(* four.                                                                   *)
(***************************************************************************)
EXTENDS PageDirectory, PageTableWalk

view_at(ptr, l, i) == read_entry(region_view, ptr, l, i)

directories_at(ptr, l) == {i \in EntryIndex : view_at(ptr, l, i).kind = "Directory"}

directory_at(ptr, l, i) == view_at(ptr, l, i).addr

(* The directories that those of layer l in the set ptrs refer to. *)
below(ptrs, l) == UNION {{directory_at(ptr, l, i) : i \in directories_at(ptr, l)} : ptr \in ptrs}

(* The page itself and all pages below it. *)
used_regions(ptr, l) ==
  LET r1 == below({ptr}, l)
      r2 == below(r1, l + 1)
      r3 == below(r2, l + 2)
  IN  {ptr} \cup r1 \cup r2 \cup r3

directories_have_flags(ptr, l) ==
  \A i \in directories_at(ptr, l) :
    LET e == view_at(ptr, l, i) IN e.flag_RW /\ e.flag_US /\ ~e.flag_XD

used_regions_pairwise_disjoint(ptr, l) ==
  \A i, j \in directories_at(ptr, l) :
    i # j => used_regions(directory_at(ptr, l, i), l + 1)
               \cap used_regions(directory_at(ptr, l, j), l + 1) = {}

region_notin_used_regions(ptr, l) ==
  \A i \in directories_at(ptr, l) : ptr \notin used_regions(directory_at(ptr, l, i), l + 1)

(* The PAT bit of super and huge pages is in the way of MASK_ADDR. *)
hp_pat_is_zero(ptr, l) ==
  \A i \in EntryIndex :
    view_at(ptr, l, i).kind = "Page" /\ l \in {1, 2} => ~MASK_PG_FLAG_PAT(spec_read(region_view, i, ptr).addr)

entry_mb0_bits_are_zero(ptr, l) ==
  \A i \in EntryIndex : all_mb0_bits_are_zero(l, spec_read(region_view, i, ptr))

inv_at(ptr, l) ==
  /\ ptr \in regions
  /\ directories_have_flags(ptr, l)
  /\ used_regions_pairwise_disjoint(ptr, l)
  /\ region_notin_used_regions(ptr, l)
  /\ hp_pat_is_zero(ptr, l)
  /\ entry_mb0_bits_are_zero(ptr, l)

(* The directories of each layer that are reached from the root. *)
directories(l) ==
  LET d1 == below({cr3}, 0)
      d2 == below(d1, 1)
      d3 == below(d2, 2)
  IN  CASE l = 0 -> {cr3}
        [] l = 1 -> d1
        [] l = 2 -> d2
        [] l = 3 -> d3

(* The invariant holds between any two memory accesses of a call, not only *)
(* between calls: the pages reached from the root are allocated and form a *)
(* tree, their words are well formed, and the directories do not restrict  *)
(* the pages below them.  Between calls there is no empty directory, which *)
(* is what lets map_frame take a directory for a conflict, and every       *)
(* allocated page is in use: no call leaks a page (PT::inv, ispec_inv, and *)
(* the postconditions on regions).                                         *)
PageTableInv ==
  /\ TypeOK
  /\ \A l \in Layer : \A ptr \in directories(l) : inv_at(ptr, l)
  /\ pc = "idle" =>
       /\ \A l \in 1 .. 3 : \A ptr \in directories(l) : ~is_directory_empty(ptr)
       /\ regions = used_regions(cr3, 0)

-----------------------------------------------------------------------------
(* The calls with what the MMU sees of the memory after every access, a    *)
(* history variable that no step of the code reads.                        *)
VARIABLE mappings

mvars == <<vars, mappings>>

MInit == Init /\ mappings = interp_pt_mem(region_view)

MNext == Next /\ mappings' = interp_pt_mem(region_view')

MSpec == MInit /\ [][MNext]_mvars

interp_thread ==
  CASE pc = "idle" -> [state |-> "Idle"]
    [] pc \in {"map", "insert"} -> [state |-> "Mapping", vaddr |-> call.vaddr, pte |-> call.pte]
    [] OTHER -> [state |-> "Unmapping", vaddr |-> call.vaddr, result |-> ret]

(* The memory implements the page table specification under the MMU's      *)
(* interpretation: inserting and removing directories is invisible, the    *)
(* mapping appears or goes in one write, and the result is right.          *)
PT == INSTANCE PageTableSpec WITH
        pt <- mappings,
        thread <- interp_thread,
        result <- IF pc = "idle" THEN ret ELSE "none"

RefinesPageTableSpec == PT!Spec
=============================================================================
