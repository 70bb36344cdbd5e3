SPECIFICATION FairSpec
CONSTANTS
  None = None
  COUNT = 8
  Passes = 2
  Bombs = 1
  Line = 11
  Scenarios <- MCScenarios
INVARIANTS TypeOK NoAnswerLost
PROPERTIES ImplementsHart LoopJumpsFit HaltTaken InterruptServed Finishes
