SPECIFICATION Spec
CONSTANTS
  Files <- MCFilesAnswers
  AcceptReply <- MCAcceptAnswers
  UseAttn = TRUE
  MaxRetries = 10
  BlockMin = 1
  BlockInit = 2
  SMaxBlock = 3
  GoodNeeded = 2
  GoodNeededUnreliable = 4
  ZcrcqInterval = 2
  MaxFileSize = 3
  WindowSize = 2
  RecvMaxLen = 11
  DataRetryMax = 25
  MaxConsecutiveErr = 15
  WriteCuts = {0}
  MaxFaults = 2
  FaultKinds = {"lose"}
  PosModulus = 1024
INVARIANT DataIntegrity SkipMeansReceiverSkipped
