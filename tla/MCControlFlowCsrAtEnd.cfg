SPECIFICATION Spec
CONSTANTS
  None = None
  COUNT = 8
  Passes = 2
  Bombs = 1
  Line = 11
  Scenarios <- CsrAtEnd
PROPERTY LoopEndsCounted
