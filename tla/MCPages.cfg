SPECIFICATION Spec
CONSTANTS
  z_num_pages = 11
  PAGE_NUM_ORDERS = 4
  PAGE_SIZE = 2
  Length = {1, 4, 8, 9}
INVARIANTS
  Partition
  FullyMerged
  FittingBlock
