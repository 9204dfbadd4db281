---------------------- MODULE PageDirectoryProperties ----------------------
(***************************************************************************)
(* The interpretation of the memory as a tree (PT::interp of l2_impl.rs),  *)
(* and the refinement from the memory over the tree (l1.rs) and the map    *)
(* (l0.rs) to what the MMU sees.  What the source does by recursion in the *)
(* layer is unrolled, as in Directory.                                     *)
(***************************************************************************)
EXTENDS PageDirectoryRefinement

L1 == INSTANCE Directory
L0 == INSTANCE PageTableContents

(* History variables, which no step of the code reads: the interpretation  *)
(* of the memory, and what a call has done so far.                         *)
VARIABLES
  dir,  \* interp: the memory as a tree
  old   \* the tree at the start of the call, and whether the call wrote

hvars == <<mvars, dir, old>>

-----------------------------------------------------------------------------
(* The tree of a memory. *)

interp_at_entry(mem, ptr, l, i, sub) ==
  LET e == read_entry(mem, ptr, l, i)
  IN  CASE e.kind = "Directory" -> L1!DirectoryEntry(sub)
        [] e.kind = "Page" ->
             L1!PageEntry([frame |-> Region(e.addr, entry_size(l)),
                           flags |-> [is_writable     |-> e.flag_RW,
                                      is_supervisor   |-> ~e.flag_US,
                                      disable_execute |-> e.flag_XD]])
        [] e.kind = "Empty" -> L1!EmptyEntry

interp_with(l, base, entries) ==
  [entries |-> entries, layer |-> l, base_vaddr |-> base, flags |-> permissive_flags]

interp_at3(mem, ptr, base) ==
  interp_with(3, base, [i \in EntryIndex |-> interp_at_entry(mem, ptr, 3, i, {})])

interp_at2(mem, ptr, base) ==
  interp_with(2, base,
    [i \in EntryIndex |->
       interp_at_entry(mem, ptr, 2, i,
         interp_at3(mem, read_entry(mem, ptr, 2, i).addr, entry_base(2, base, i)))])

interp_at1(mem, ptr, base) ==
  interp_with(1, base,
    [i \in EntryIndex |->
       interp_at_entry(mem, ptr, 1, i,
         interp_at2(mem, read_entry(mem, ptr, 1, i).addr, entry_base(1, base, i)))])

interp_at0(mem, ptr, base) ==
  interp_with(0, base,
    [i \in EntryIndex |->
       interp_at_entry(mem, ptr, 0, i,
         interp_at1(mem, read_entry(mem, ptr, 0, i).addr, entry_base(0, base, i)))])

interp(mem) == interp_at0(mem, cr3, 0)

(* resolve reads the words without the masks of the MMU. It asks the       *)
(* directory an entry refers to; sub is what that one answers.             *)
resolve_at(ptr, l, base, vaddr, sub) ==
  LET i == index_for_vaddr(l, base, vaddr)
      word == spec_read(region_view, i, ptr)
      pte == [frame |-> Region(address(word), entry_size(l)),
              flags |-> [is_writable     |-> word.RW,
                         is_supervisor   |-> ~word.US,
                         disable_execute |-> word.XD]]
  IN  IF ~is_mapping(word) THEN L0!Err("none")
      ELSE IF is_dir(l, word) THEN sub
      ELSE L0!Ok(<<entry_base(l, base, i), pte>>)

next_ptr(ptr, l, base, vaddr) ==
  address(spec_read(region_view, index_for_vaddr(l, base, vaddr), ptr))

next_base(l, base, vaddr) == entry_base(l, base, index_for_vaddr(l, base, vaddr))

resolve3(ptr, base, vaddr) == resolve_at(ptr, 3, base, vaddr, L0!Err("none"))
resolve2(ptr, base, vaddr) ==
  resolve_at(ptr, 2, base, vaddr,
             resolve3(next_ptr(ptr, 2, base, vaddr), next_base(2, base, vaddr), vaddr))
resolve1(ptr, base, vaddr) ==
  resolve_at(ptr, 1, base, vaddr,
             resolve2(next_ptr(ptr, 1, base, vaddr), next_base(1, base, vaddr), vaddr))
resolve0(ptr, base, vaddr) ==
  resolve_at(ptr, 0, base, vaddr,
             resolve1(next_ptr(ptr, 0, base, vaddr), next_base(0, base, vaddr), vaddr))

resolve(vaddr) == resolve0(cr3, 0, vaddr)

(* The MMU sees the mappings of the tree in every state, those in the      *)
(* middle of a call included; and between calls resolve, which reads the   *)
(* words with one mask and takes the flags of the last entry alone, finds  *)
(* for every address what the tree holds there                             *)
(* (lemma_page_table_walk_interp).                                         *)
WalkMatchesTree ==
  /\ mappings = L1!interp(dir).map
  /\ pc = "idle" =>
       \A vaddr \in 0 .. MAX_BASE - 1 : resolve(vaddr) = L1!resolve(dir, vaddr)

(* The memory of every state between calls is a tree of layer 1            *)
(* (Directory::inv), and on it the operations of layer 1 do what those of  *)
(* layer 0 do on its map: a walk down one path decides, for all page       *)
(* sizes, whether the new page overlaps some existing one, and finds the   *)
(* page that contains an address (lemma_map_frame_refines_map_frame,       *)
(* lemma_unmap_refines_unmap, lemma_resolve_refines).                      *)
L1RefinesL0 ==
  pc = "idle" =>
    LET abs(r) == [r EXCEPT !.value = L1!interp(r.value)]
        c == L1!interp(dir)
    IN  /\ L1!inv(dir) /\ L0!inv(c)
        /\ \A vaddr \in VAddr :
             /\ \A pte \in PTE :
                  L1!accepted_mapping(dir, vaddr, pte) =>
                    /\ L0!accepted_mapping(c, vaddr, pte)
                    /\ abs(L1!map_frame(dir, vaddr, pte)) = L0!map_frame(c, vaddr, pte)
             /\ L0!accepted_unmap(c, vaddr) =>
                  abs(L1!unmap(dir, vaddr)) = L0!unmap(c, vaddr)
        /\ \A vaddr \in 0 .. MAX_BASE - 1 : L1!resolve(dir, vaddr) = L0!resolve(c, vaddr)

-----------------------------------------------------------------------------
(* The calls with their history. *)

HInit ==
  /\ MInit
  /\ dir = interp(region_view)
  /\ old = [dir |-> dir, written |-> FALSE]

HNext ==
  /\ MNext
  /\ dir' = interp(region_view')
  /\ old' = IF pc # "idle" /\ pc' # "idle"
            THEN [old EXCEPT !.written = @ \/ memvars' # memvars]
            ELSE [dir |-> dir', written |-> FALSE]

HSpec == HInit /\ [][HNext]_hvars

(* When a call returns, the memory is that of the tree layer 1 computes    *)
(* for the call, with the same result; and a call that fails has not       *)
(* written, allocated or freed anything (the postconditions of             *)
(* map_frame_aux and unmap_aux).                                           *)
OperationsRefineL1 ==
  [][pc # "idle" /\ pc' = "idle" =>
       LET expected == IF call \in MapCall
                       THEN L1!map_frame(old.dir, call.vaddr, call.pte)
                       ELSE L1!unmap(old.dir, call.vaddr)
       IN  /\ ret' = expected.res
           /\ dir' = expected.value
           /\ ret' = "Err" => ~old.written /\ UNCHANGED memvars]_hvars
=============================================================================
