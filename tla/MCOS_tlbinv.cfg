SPECIFICATION Spec
CONSTANTS
  c1 = c1
  c2 = c2
  u1 = u1
  u2 = u2
  u3 = u3
  Core = {c1, c2}
  ULT = {u1, u2, u3}
  ULT2core <- MCULT2core
  WORD_SIZE = 2
  PAGE_SIZES = {2, 6}
  UPPER_VADDR = 8
  MAX_PHYADDR = 7
  phys_mem_size = 2
  Value = {0}
  FreePages = {2, 3}
  VAddr = {0, 2}
  PTE <- PTEOverlapping
  Err = Err
INVARIANT TLB_dom_subset_of_pt_and_inflight_unmap_vaddr
