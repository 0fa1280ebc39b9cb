SPECIFICATION Spec
CONSTANTS
  Callers = {g1, g2}
  NilConfig = NilConfig
  GivenConfigs <- MCGivenConfigs
  MaxCalls = 2
  MaxReads = 2
INVARIANT TypeOK ExclusiveUse DeadlineClearedOnExit
PROPERTY ReadsReturn
