----------------------------- MODULE Directory -----------------------------
(***************************************************************************)
(* Layer 1 of the page table refinement (impl_u/l1.rs): the page table as  *)
(* a tree of directories without memory, and its operations on the tree.   *)
(*                                                                         *)
(* The functions of the source call themselves for the directory at an     *)
(* entry, and there are four layers. Each is written here as what it does  *)
(* in one directory, given what it returns for the directory at the entry  *)
(* (name_at), and unrolled: name is the function for the root, name1 to    *)
(* name3 are the function for the directories of the layers below.         *)
(*                                                                         *)
(* A directory is [entries, layer, base_vaddr, flags]; an entry is one of  *)
(* Directory, Page and Empty below.  PageTableContents is layer 0.         *)
(***************************************************************************)
EXTENDS Arch

L0 == INSTANCE PageTableContents

DirectoryEntry(d) == [tag |-> "Directory", dir |-> d]
PageEntry(pte) == [tag |-> "Page", pte |-> pte]
EmptyEntry == [tag |-> "Empty"]

entries_with(d, tag) == {i \in DOMAIN d.entries : d.entries[i].tag = tag}

index_in(d, vaddr) == index_for_vaddr(d.layer, d.base_vaddr, vaddr)

base_of_entry(d, i) == entry_base(d.layer, d.base_vaddr, i)

upper_vaddr_of(d) == upper_vaddr(d.layer, d.base_vaddr)

well_formed(d) ==
  /\ d.layer \in Layer /\ d.base_vaddr \in Nat
  /\ aligned(d.base_vaddr, entry_size(d.layer) * X86_NUM_ENTRIES)
  /\ DOMAIN d.entries = EntryIndex
  /\ \A i \in EntryIndex : d.entries[i].tag \in {"Directory", "Page", "Empty"}
  /\ d.flags = permissive_flags

empty(d) == \A i \in EntryIndex : d.entries[i].tag = "Empty"

pages_match_entry_size(d) ==
  \A i \in entries_with(d, "Page") : d.entries[i].pte.frame.size = entry_size(d.layer)

directories_are_in_next_layer(d) ==
  \A i \in entries_with(d, "Directory") :
    /\ d.entries[i].dir.layer = d.layer + 1
    /\ d.entries[i].dir.base_vaddr = base_of_entry(d, i)

directories_are_nonempty(d) ==
  \A i \in entries_with(d, "Directory") : ~empty(d.entries[i].dir)

frames_aligned(d) ==
  \A i \in entries_with(d, "Page") :
    aligned(d.entries[i].pte.frame.base, entry_size(d.layer))

inv_at(d) ==
  /\ well_formed(d)
  /\ pages_match_entry_size(d)
  /\ directories_are_in_next_layer(d)
  /\ directories_are_nonempty(d)
  /\ frames_aligned(d)

(* There is no layer below layer 3. *)
inv3(d) == inv_at(d) /\ entries_with(d, "Directory") = {}
inv2(d) == inv_at(d) /\ \A i \in entries_with(d, "Directory") : inv3(d.entries[i].dir)
inv1(d) == inv_at(d) /\ \A i \in entries_with(d, "Directory") : inv2(d.entries[i].dir)
inv(d)  == inv_at(d) /\ \A i \in entries_with(d, "Directory") : inv1(d.entries[i].dir)

(* The map of an entry, sub being that of the directory there, and the     *)
(* union of the maps of all entries, which prefers the first.              *)
interp_of_entry(d, i, sub) ==
  CASE d.entries[i].tag = "Page" -> Insert(EmptyMap, base_of_entry(d, i), d.entries[i].pte)
    [] d.entries[i].tag = "Directory" -> sub
    [] d.entries[i].tag = "Empty" -> EmptyMap

entry_with(maps, va) ==
  CHOOSE i \in EntryIndex : va \in DOMAIN maps[i] /\ \A j \in 0 .. i - 1 : va \notin DOMAIN maps[j]

union_of(maps) ==
  [va \in UNION {DOMAIN maps[i] : i \in EntryIndex} |-> maps[entry_with(maps, va)][va]]

interp3(d) == union_of([i \in EntryIndex |-> interp_of_entry(d, i, EmptyMap)])
interp2(d) == union_of([i \in EntryIndex |-> interp_of_entry(d, i, interp3(d.entries[i].dir))])
interp1(d) == union_of([i \in EntryIndex |-> interp_of_entry(d, i, interp2(d.entries[i].dir))])
interp0(d) == union_of([i \in EntryIndex |-> interp_of_entry(d, i, interp1(d.entries[i].dir))])

interp(d) ==
  [map |-> interp0(d), lower |-> d.base_vaddr, upper |-> upper_vaddr_of(d)]

update(d, i, e) ==
  [entries    |-> [d.entries EXCEPT ![i] = e],
   layer      |-> d.layer,
   base_vaddr |-> d.base_vaddr,
   flags      |-> d.flags]

accepted_mapping(d, base, pte) ==
  /\ aligned(base, pte.frame.size)
  /\ aligned(pte.frame.base, pte.frame.size)
  /\ d.base_vaddr <= base /\ base + pte.frame.size <= upper_vaddr_of(d)
  /\ contains_entry_size_at_index_atleast(pte.frame.size, d.layer)

new_empty_dir(d, i) ==
  [entries    |-> [j \in EntryIndex |-> EmptyEntry],
   layer      |-> d.layer + 1,
   base_vaddr |-> base_of_entry(d, i),
   flags      |-> permissive_flags]

(* The result r of an operation on the directory at entry i, put back into d. *)
put_back(d, i, r) == [res |-> r.res, value |-> update(d, i, DirectoryEntry(r.value))]

(* The directory at entry i, or the one that is made there. *)
dir_at(d, i) ==
  IF d.entries[i].tag = "Directory" THEN d.entries[i].dir ELSE new_empty_dir(d, i)

map_frame_at(d, base, pte, r) ==
  LET i == index_in(d, base)
      e == d.entries[i]
      here == entry_size(d.layer) = pte.frame.size
  IN  CASE e.tag = "Page" \/ (e.tag = "Directory" /\ here) -> L0!Err(d)
        [] e.tag = "Empty" /\ here -> L0!Ok(update(d, i, PageEntry(pte)))
        [] e.tag # "Page" /\ ~here -> put_back(d, i, r)

map_frame3(d, base, pte) == map_frame_at(d, base, pte, L0!Err(d))
map_frame2(d, base, pte) ==
  map_frame_at(d, base, pte, map_frame3(dir_at(d, index_in(d, base)), base, pte))
map_frame1(d, base, pte) ==
  map_frame_at(d, base, pte, map_frame2(dir_at(d, index_in(d, base)), base, pte))
map_frame(d, base, pte) ==
  map_frame_at(d, base, pte, map_frame1(dir_at(d, index_in(d, base)), base, pte))

accepted_unmap(d, base) == L0!accepted_unmap(interp(d), base)

(* Mutant: the page goes, whichever of its addresses is given. *)
unmap_page_AnyAddress(d, i, base) == L0!Ok(update(d, i, EmptyEntry))

unmap_page(d, i, base) ==
  IF aligned(base, entry_size(d.layer))
  THEN L0!Ok(update(d, i, EmptyEntry))
  ELSE L0!Err(d)

unmap_at(d, base, r) ==
  LET i == index_in(d, base)
      e == d.entries[i]
  IN  CASE e.tag = "Empty" -> L0!Err(d)
        [] e.tag = "Page" -> unmap_page(d, i, base)
        [] e.tag = "Directory" ->
             IF r.res = "Ok" /\ empty(r.value)
             THEN L0!Ok(update(d, i, EmptyEntry))
             ELSE put_back(d, i, r)

unmap3(d, base) == unmap_at(d, base, L0!Err(d))
unmap2(d, base) == unmap_at(d, base, unmap3(dir_at(d, index_in(d, base)), base))
unmap1(d, base) == unmap_at(d, base, unmap2(dir_at(d, index_in(d, base)), base))
unmap(d, base)  == unmap_at(d, base, unmap1(dir_at(d, index_in(d, base)), base))

resolve_at(d, vaddr, r) ==
  LET i == index_in(d, vaddr)
      e == d.entries[i]
  IN  CASE e.tag = "Page" -> L0!Ok(<<base_of_entry(d, i), e.pte>>)
        [] e.tag = "Directory" -> r
        [] e.tag = "Empty" -> L0!Err("none")

resolve3(d, vaddr) == resolve_at(d, vaddr, L0!Err("none"))
resolve2(d, vaddr) == resolve_at(d, vaddr, resolve3(dir_at(d, index_in(d, vaddr)), vaddr))
resolve1(d, vaddr) == resolve_at(d, vaddr, resolve2(dir_at(d, index_in(d, vaddr)), vaddr))
resolve(d, vaddr)  == resolve_at(d, vaddr, resolve1(dir_at(d, index_in(d, vaddr)), vaddr))
=============================================================================
