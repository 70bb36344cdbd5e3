CONSTANTS
  DEPTH = 2
  WORDS = 4
  PULP_OBI = FALSE
  PULP_XPULP = TRUE
  MIN_LOOP_BODY = 3
  None = None
SPECIFICATION MCSpec
INVARIANTS TypeOK CountsOutstanding WantedWordsFit LoopEndRequested IdealWordEveryCycle
PROPERTIES AddressPhaseStable ImplementsFetchStream KeepsFetching
