CONSTANTS
  PULP_OBI = FALSE
  SIZE = 8
  InitialMem <- Contents
  Reg = {1, 2}
  Insns <- PostIncrementLoads
  FPU = TRUE
  FpuResults = {5}
  MAX_INSNS = 2
  None = None
SPECIFICATION Spec
INVARIANT AccessesExact
