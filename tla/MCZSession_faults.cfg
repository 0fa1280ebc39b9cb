SPECIFICATION Spec
CONSTANTS
  Files <- MCFilesLong
  AcceptReply <- MCAcceptTwo
  UseAttn = FALSE
  MaxRetries = 2
  BlockMin = 1
  BlockInit = 2
  SMaxBlock = 3
  GoodNeeded = 2
  GoodNeededUnreliable = 4
  ZcrcqInterval = 2
  MaxFileSize = 0
  WindowSize = 2
  RecvMaxLen = 2
  DataRetryMax = 1
  MaxConsecutiveErr = 2
  WriteCuts = {0}
  MaxFaults = 2
  FaultKinds = {"lose", "garble", "slow", "write"}
  PosModulus = 1024
INVARIANT TypeOK DataIntegrity CompleteOnSuccess WindowRespected CleanRunSucceeds OutcomesAgree
PROPERTY Termination DeliveryRefined
