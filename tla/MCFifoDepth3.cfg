CONSTANTS
  DEPTH = 3
  PTR_VALUES = 4
  Word = {zero, w1, w2}
  ResetWord = zero
SPECIFICATION FifoSpec
PROPERTY ImplementsQueue
