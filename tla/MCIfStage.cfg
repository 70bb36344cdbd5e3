CONSTANTS
  WORDS = 3
  None = None
SPECIFICATION FairSpec
INVARIANTS TypeOK InStep
PROPERTIES WordBringsInstruction ImplementsInstrStream KeepsIssuing
