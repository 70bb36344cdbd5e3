CONSTANTS
  DEPTH = 2
  WORDS = 3
  PULP_OBI = TRUE
  PULP_XPULP = TRUE
  MIN_LOOP_BODY = 3
  None = None
SPECIFICATION MCSpec
INVARIANT OneTransaction
PROPERTIES ImplementsFetchStream KeepsFetching
