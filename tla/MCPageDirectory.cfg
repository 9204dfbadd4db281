SPECIFICATION HSpec
CONSTANTS
  WORD_SIZE = 1
  PAGE_SIZES = {2, 4, 8}
  UPPER_VADDR = 32
  MAX_PHYADDR = 63
  PAGE_SIZE = 2
  X86_NUM_ENTRIES = 2
  Page = {42, 44, 46, 48, 50, 52, 54, 56}
  cr3 = 40
  VAddr = {0, 2, 4, 6, 8, 16, 24}
  PTE <- MCPTE
VIEW PageRenamingView
INVARIANTS
  PageTableInv
  AllocationSucceeds
  WalkMatchesTree
  L1RefinesL0
PROPERTIES
  OperationsRefineL1
  RefinesPageTableSpec
