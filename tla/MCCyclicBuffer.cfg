SPECIFICATION Spec
CONSTANTS
  num_replicas = 2
  LOG_SIZE = 3
  MAX_IDX = 7
INVARIANTS TypeOK pointer_ordering all_combiner_valid OneHolderPerCell
           alive_bits_inv
