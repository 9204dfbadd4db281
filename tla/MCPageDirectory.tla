-------------------------- MODULE MCPageDirectory --------------------------
(***************************************************************************)
(* Instance of the page table implementation for TLC: two entries per      *)
(* directory, so that every directory has a sibling, one page table entry  *)
(* for each page size, each with flags of its own, and fewer pages than    *)
(* the directories that the addresses could need.                          *)
(***************************************************************************)
EXTENDS PageDirectoryProperties

MCPageTableEntry(base, size, rw, su, xd) ==
  [frame |-> Region(base, size),
   flags |-> [is_writable |-> rw, is_supervisor |-> su, disable_execute |-> xd]]

MCPTE == {MCPageTableEntry(2, 2, TRUE, FALSE, FALSE),
          MCPageTableEntry(4, 4, FALSE, FALSE, TRUE),
          MCPageTableEntry(8, 8, TRUE, TRUE, FALSE)}

(***************************************************************************)
(* The code never compares page addresses, so two states that differ only  *)
(* in which page is used where have the same behaviours.  The view names a *)
(* page by the set of positions at which a walk from the root reaches it,  *)
(* and TLC explores one state for each view.  It keeps everything else:    *)
(* the words that are reached, which pages are shared, dangling or leaked, *)
(* the call, and the history.                                              *)
(***************************************************************************)
RECURSIVE Nodes(_, _, _)
Nodes(ptr, l, base) ==
  {<<ptr, l, base>>} \cup
  UNION {Nodes(directory_at(ptr, l, i), l + 1, entry_base(l, base, i)) :
           i \in directories_at(ptr, l)}

Anonymous(word, kind) == IF kind = "Directory" THEN [word EXCEPT !.addr = 0] ELSE word

PageRenamingView ==
  LET nodes == Nodes(cr3, 0, 0)
      positions(ptr) == {<<n[2], n[3]>> : n \in {m \in nodes : m[1] = ptr}}
      node(ptr, l, base) ==
        <<l, base, positions(ptr), ptr \in regions,
          [i \in EntryIndex |-> Anonymous(spec_read(region_view, i, ptr), view_at(ptr, l, i).kind)]>>
      activation(a) ==
        <<positions(a.ptr), a.base, [i \in EntryIndex |-> is_mapping(spec_read(region_view, i, a.ptr))]>>
  IN  <<{node(n[1], n[2], n[3]) : n \in nodes}, Cardinality(regions),
        pc, call, [d \in DOMAIN stack |-> activation(stack[d])], ret,
        dir, mappings, old>>
=============================================================================
