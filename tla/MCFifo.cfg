CONSTANTS
  DEPTH = 4
  PTR_VALUES = 4
  Word = {zero, w1, w2}
  ResetWord = zero
SPECIFICATION FifoSpec
INVARIANT FifoTypeOK
PROPERTY ImplementsQueue
