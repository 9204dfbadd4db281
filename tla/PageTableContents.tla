------------------------- MODULE PageTableContents -------------------------
(***************************************************************************)
(* Layer 0 of the page table refinement (impl_u/l0.rs): a range of         *)
(* addresses [lower, upper) and the mappings in it, as one map.            *)
(***************************************************************************)
EXTENDS Arch

mapping_region(c, va) == Region(va, c.map[va].frame.size)

mappings_are_of_valid_size(c) ==
  \A va \in DOMAIN c.map : contains_entry_size(c.map[va].frame.size)

mappings_are_aligned(c) ==
  \A va \in DOMAIN c.map :
    /\ aligned(va, c.map[va].frame.size)
    /\ aligned(c.map[va].frame.base, c.map[va].frame.size)

mappings_dont_overlap(c) ==
  \A b1, b2 \in DOMAIN c.map :
    b1 = b2 \/ ~overlap(mapping_region(c, b1), mapping_region(c, b2))

candidate_in_bounds(c, base, pte) ==
  c.lower <= base /\ base + pte.frame.size <= c.upper

mappings_in_bounds(c) ==
  \A b1 \in DOMAIN c.map : candidate_in_bounds(c, b1, c.map[b1])

inv(c) ==
  /\ mappings_are_of_valid_size(c)
  /\ mappings_are_aligned(c)
  /\ mappings_dont_overlap(c)
  /\ mappings_in_bounds(c)

accepted_mapping(c, base, pte) ==
  /\ aligned(base, pte.frame.size)
  /\ aligned(pte.frame.base, pte.frame.size)
  /\ candidate_in_bounds(c, base, pte)
  /\ contains_entry_size(pte.frame.size)

valid_mapping(c, base, pte) ==
  \A b \in DOMAIN c.map : ~overlap(Region(base, pte.frame.size), mapping_region(c, b))

Ok(value) == [res |-> "Ok", value |-> value]
Err(value) == [res |-> "Err", value |-> value]

map_frame(c, base, pte) ==
  IF valid_mapping(c, base, pte)
  THEN Ok([c EXCEPT !.map = Insert(c.map, base, pte)])
  ELSE Err(c)

accepted_resolve(c, vaddr) == between(vaddr, c.lower, c.upper)

(* The mapping that contains vaddr, with its base address. *)
resolve(c, vaddr) ==
  LET bases == {b \in DOMAIN c.map : between(vaddr, b, b + c.map[b].frame.size)}
  IN  IF bases # {}
      THEN LET base == CHOOSE b \in bases : TRUE IN Ok(<<base, c.map[base]>>)
      ELSE Err("none")

accepted_unmap(c, base) ==
  /\ between(base, c.lower, c.upper)
  /\ \E layer \in Layer : aligned(base, entry_size(layer))

unmap(c, base) ==
  IF base \in DOMAIN c.map
  THEN Ok([c EXCEPT !.map = Remove(c.map, base)])
  ELSE Err(c)
=============================================================================
