CONSTANTS
  PULP_OBI = TRUE
  SIZE = 8
  InitialMem <- Contents
  Reg = {1, 2}
  Insns <- AllInsns
  FPU = FALSE
  FpuResults = {5}
  MAX_INSNS = 2
  None = None
SPECIFICATION Spec
INVARIANTS OneTransaction AccessesExact
PROPERTY ImplementsAtomicMemory
