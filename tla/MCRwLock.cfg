SPECIFICATION Spec
CONSTANTS
  t1 = t1
  t2 = t2
  t3 = t3
  t4 = t4
  Thread = {t1, t2, t3, t4}
  rc_width = 2
  Slot <- MCSlot
  Data = {0, 1}
  NoData = NoData
  MAX_RC = 2
INVARIANTS RwLockTypeOK shared_counts_agree Exclusion shared_inv_agree
PROPERTIES RefinesRwLockSpec
SYMMETRY MCSymmetry
