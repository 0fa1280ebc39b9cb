SPECIFICATION Spec
CONSTANTS
  Files <- MCFilesOffers
  AcceptReply <- MCAcceptOffers
  UseAttn = FALSE
  MaxRetries = 2
  BlockMin = 1
  BlockInit = 2
  SMaxBlock = 3
  GoodNeeded = 2
  GoodNeededUnreliable = 4
  ZcrcqInterval = 2
  MaxFileSize = 3
  WindowSize = 2
  RecvMaxLen = 11
  DataRetryMax = 1
  MaxConsecutiveErr = 2
  WriteCuts = {0}
  MaxFaults = 1
  FaultKinds = {"lose"}
  PosModulus = 1024
INVARIANT DataIntegrity
