SPECIFICATION FairSpec
CONSTANTS
  IRQ_MIN_ID = 26
  IRQ_MAX_ID = 31
  Lines <- MCLines
  Unimplemented <- MCUnimplemented
  MinCycles = 2
  MaxCycles = 12
  MaxStall = 1
  Products = 3
INVARIANTS MmstatusUnshared
PROPERTIES ServedOnce Finishes
