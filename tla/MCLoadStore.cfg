CONSTANTS
  PULP_OBI = FALSE
  SIZE = 8
  InitialMem <- Contents
  Reg = {1, 2}
  Insns <- SomeInsns
  FPU = FALSE
  FpuResults = {5}
  MAX_INSNS = 3
  None = None
SPECIFICATION FairSpec
INVARIANTS TypeOK CountsOutstanding RegistersAgree AccessesExact EventFinishes
PROPERTIES OfferHeld NoStall ImplementsAtomicMemory Completes
