--------------------------- MODULE PageDirectory ---------------------------
(***************************************************************************)
(* The implementation of the page table (impl_u/l2_impl.rs): map_frame and *)
(* unmap walk down from the root directory by reading words, allocate the  *)
(* directories they miss, write one word, and on the way back free the     *)
(* directories that have become empty.                                     *)
(*                                                                         *)
(* The recursion of map_frame_aux and unmap_aux is the variable stack: its *)
(* element d + 1 is the activation at layer d, with the directory it looks *)
(* at (ptr) and the first address that directory is about (base).  Every   *)
(* write, allocation and deallocation of the memory is a step of its own,  *)
(* because the MMU may walk the table between any two of them.             *)
(***************************************************************************)
EXTENDS PageTableMemory, Sequences

CONSTANTS
  VAddr,   \* the addresses map_frame and unmap are called with
  PTE      \* the page table entries map_frame is called with

ASSUME CallsAssumption ==
  /\ VAddr \subseteq Nat
  /\ PTE \subseteq PageTableEntry

VARIABLES
  pc,      \* what the running call does next
  call,    \* its arguments
  stack,   \* its activations
  ret      \* the result, once it is decided

localvars == <<pc, call, stack, ret>>
vars == <<regions, region_view, pc, call, stack, ret>>

NoCall == <<>>
MapCall == [vaddr : VAddr, pte : PTE]
UnmapCall == [vaddr : VAddr]

Activation == [ptr : PageRegions, base : Nat]

TypeOK ==
  /\ regions \subseteq PageRegions
  /\ region_view \in [PageRegions -> [EntryIndex -> Word]]
  /\ pc \in {"idle", "map", "insert", "unmap", "unmap_return", "dealloc"}
  /\ call \in MapCall \cup UnmapCall \cup {NoCall}
  /\ stack \in Seq(Activation)
  /\ ret \in {"none", "Ok", "Err"}

-----------------------------------------------------------------------------
(* Words: PageDirectoryEntry. *)

is_mapping(word) == word.P

is_page(layer, word) == layer = 3 \/ (layer # 0 /\ word.PS)

is_dir(layer, word) == ~is_page(layer, word)

address(word) == word.addr % (MAX_PHYADDR + 1)

new_entry(layer, addr, page, flags) ==
  [P  |-> TRUE,
   RW |-> flags.is_writable,
   US |-> ~flags.is_supervisor,
   XD |-> flags.disable_execute,
   PS |-> page /\ layer # 3,
   addr |-> addr]

new_page_entry(layer, pte) == new_entry(layer, pte.frame.base, TRUE, pte.flags)

(* Mutant: a new directory gets the flags of the page it is made for. *)
new_dir_entry_PageFlags(layer, addr) == new_entry(layer, addr, FALSE, call.pte.flags)

new_dir_entry(layer, addr) == new_entry(layer, addr, FALSE, permissive_flags)

-----------------------------------------------------------------------------
(* Activations. *)

layer == Len(stack) - 1

Top == stack[Len(stack)]
Caller == stack[Len(stack) - 1]

(* The index of the call's address in the directory of layer l. *)
idx(l) == index_for_vaddr(l, stack[l + 1].base, call.vaddr)

entry == spec_read(region_view, idx(layer), Top.ptr)

Descend(ptr) ==
  stack' = Append(stack, [ptr |-> ptr, base |-> entry_base(layer, Top.base, idx(layer))])

Return == stack' = SubSeq(stack, 1, layer)

Start(args, at) ==
  /\ pc = "idle"
  /\ pc' = at
  /\ call' = args
  /\ stack' = <<[ptr |-> cr3, base |-> 0]>>
  /\ ret' = "none"
  /\ UNCHANGED memvars

Finish(res) ==
  /\ pc' = "idle"
  /\ call' = NoCall
  /\ stack' = <<>>
  /\ ret' = res

-----------------------------------------------------------------------------
(* map_frame *)

accepted_mapping(vaddr, pte) ==
  /\ contains_entry_size_at_index_atleast(pte.frame.size, 1)
  /\ pte.frame.base <= MAX_PHYADDR
  /\ aligned(vaddr, pte.frame.size)
  /\ aligned(pte.frame.base, pte.frame.size)
  /\ vaddr + pte.frame.size <= upper_vaddr(0, 0)

(* Mutant: two pages are thought to be enough for three new directories. *)
map_frame_TwoPages(vaddr, pte) ==
  /\ alloc_available_pages >= 2
  /\ accepted_mapping(vaddr, pte)
  /\ Start([vaddr |-> vaddr, pte |-> pte], "map")

map_frame(vaddr, pte) ==
  /\ alloc_available_pages >= 3
  /\ accepted_mapping(vaddr, pte)
  /\ Start([vaddr |-> vaddr, pte |-> pte], "map")

AtPageSize == entry_size(layer) = call.pte.frame.size

(* Mutant: a directory where the page should go is overwritten. *)
MapDirectorySameSize_Overwrite ==
  /\ pc = "map" /\ is_mapping(entry) /\ is_dir(layer, entry) /\ AtPageSize
  /\ write(Top.ptr, idx(layer), new_page_entry(layer, call.pte))
  /\ Finish("Ok")

(* There are smaller pages where the page should go. *)
MapDirectorySameSize ==
  /\ pc = "map" /\ is_mapping(entry) /\ is_dir(layer, entry) /\ AtPageSize
  /\ Finish("Err")
  /\ UNCHANGED memvars

MapDescend ==
  /\ pc = "map" /\ is_mapping(entry) /\ is_dir(layer, entry) /\ ~AtPageSize
  /\ Descend(address(entry))
  /\ UNCHANGED <<regions, region_view, pc, call, ret>>

MapPagePresent ==
  /\ pc = "map" /\ is_mapping(entry) /\ is_page(layer, entry)
  /\ Finish("Err")
  /\ UNCHANGED memvars

MapWritePage ==
  /\ pc = "map" /\ ~is_mapping(entry) /\ AtPageSize
  /\ write(Top.ptr, idx(layer), new_page_entry(layer, call.pte))
  /\ Finish("Ok")

(* insert_empty_directory: the new directory is allocated, and zeroed,     *)
(* before it is linked; map_frame_aux goes on in it.                       *)
insert_empty_directory_alloc ==
  /\ pc = "map" /\ ~is_mapping(entry) /\ ~AtPageSize
  /\ \E page \in Page : alloc_page(page) /\ Descend(page)
  /\ pc' = "insert"
  /\ UNCHANGED <<call, ret>>

insert_empty_directory_write ==
  /\ pc = "insert"
  /\ write(Caller.ptr, idx(layer - 1), new_dir_entry(layer - 1, Top.ptr))
  /\ pc' = "map"
  /\ UNCHANGED <<call, stack, ret>>

-----------------------------------------------------------------------------
(* unmap *)

accepted_unmap(vaddr) ==
  /\ between(vaddr, 0, upper_vaddr(0, 0))
  /\ \E l \in Layer : aligned(vaddr, entry_size(l))

unmap(vaddr) ==
  /\ accepted_unmap(vaddr)
  /\ Start([vaddr |-> vaddr], "unmap")

UnmapDescend ==
  /\ pc = "unmap" /\ is_mapping(entry) /\ is_dir(layer, entry)
  /\ Descend(address(entry))
  /\ UNCHANGED <<regions, region_view, pc, call, ret>>

(* Mutant: the page that contains the address is unmapped. *)
UnmapPage_Unaligned ==
  /\ pc = "unmap" /\ is_mapping(entry) /\ is_page(layer, entry)
  /\ write(Top.ptr, idx(layer), zero_entry)
  /\ pc' = "unmap_return"
  /\ ret' = "Ok"
  /\ UNCHANGED <<call, stack>>

UnmapPage ==
  /\ pc = "unmap" /\ is_mapping(entry) /\ is_page(layer, entry)
  /\ aligned(call.vaddr, entry_size(layer))
  /\ write(Top.ptr, idx(layer), zero_entry)
  /\ pc' = "unmap_return"
  /\ ret' = "Ok"
  /\ UNCHANGED <<call, stack>>

(* Nothing is mapped at the address, or a page that begins before it. *)
UnmapNothing ==
  /\ pc = "unmap"
  /\ \/ ~is_mapping(entry)
     \/ is_page(layer, entry) /\ ~aligned(call.vaddr, entry_size(layer))
  /\ pc' = "unmap_return"
  /\ ret' = "Err"
  /\ UNCHANGED <<regions, region_view, call, stack>>

is_directory_empty(ptr) == \A i \in EntryIndex : ~is_mapping(spec_read(region_view, i, ptr))

Returning(res) == pc = "unmap_return" /\ ret = res

(* Mutant: the directory is given back before its entry is cleared. *)
UnmapUnlink_DeallocFirst ==
  /\ Returning("Ok") /\ layer > 0 /\ is_directory_empty(Top.ptr)
  /\ dealloc_page(Top.ptr)
  /\ pc' = "dealloc"
  /\ UNCHANGED <<call, stack, ret>>

(* The directory the call returns from is empty: its entry is cleared, and *)
(* then the page is given back.                                            *)
UnmapUnlink ==
  /\ Returning("Ok") /\ layer > 0 /\ is_directory_empty(Top.ptr)
  /\ write(Caller.ptr, idx(layer - 1), zero_entry)
  /\ pc' = "dealloc"
  /\ UNCHANGED <<call, stack, ret>>

UnmapDealloc ==
  /\ pc = "dealloc"
  /\ dealloc_page(Top.ptr)
  /\ Return
  /\ pc' = "unmap_return"
  /\ UNCHANGED <<call, ret>>

UnmapKeepDirectory ==
  /\ Returning("Ok") /\ layer > 0 /\ ~is_directory_empty(Top.ptr)
  /\ Return
  /\ UNCHANGED <<regions, region_view, pc, call, ret>>

UnmapEnd ==
  /\ Returning("Err") \/ (Returning("Ok") /\ layer = 0)
  /\ Finish(ret)
  /\ UNCHANGED memvars

-----------------------------------------------------------------------------
Init ==
  /\ MemoryInit
  /\ pc = "idle"
  /\ call = NoCall
  /\ stack = <<>>
  /\ ret = "none"

MapStep ==
  \/ MapDirectorySameSize \/ MapDescend \/ MapPagePresent \/ MapWritePage
  \/ insert_empty_directory_alloc \/ insert_empty_directory_write

UnmapStep ==
  \/ UnmapDescend \/ UnmapPage \/ UnmapNothing
  \/ UnmapUnlink \/ UnmapDealloc \/ UnmapKeepDirectory \/ UnmapEnd

Next ==
  \/ \E vaddr \in VAddr : unmap(vaddr) \/ \E pte \in PTE : map_frame(vaddr, pte)
  \/ MapStep
  \/ UnmapStep

Spec == Init /\ [][Next]_vars

(* Whenever map_frame_aux needs a new directory there is a page for it:    *)
(* the three pages map_frame asks for are enough in every layer, because a *)
(* page is mapped in layer 1 at the earliest and in layer 3 at the latest, *)
(* and a call that meets existing directories needs fewer.                 *)
AllocationSucceeds ==
  pc = "map" /\ ~is_mapping(entry) /\ ~AtPageSize => Page \ regions # {}
=============================================================================
