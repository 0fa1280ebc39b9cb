SPECIFICATION Spec
CONSTANTS
  Files <- MCFilesBig
  AcceptReply <- MCAcceptBig
  UseAttn = FALSE
  MaxRetries = 10
  BlockMin = 1
  BlockInit = 2
  SMaxBlock = 3
  GoodNeeded = 2
  GoodNeededUnreliable = 4
  ZcrcqInterval = 2
  MaxFileSize = 0
  WindowSize = 0
  RecvMaxLen = 11
  DataRetryMax = 25
  MaxConsecutiveErr = 15
  WriteCuts = {0}
  MaxFaults = 0
  FaultKinds = {}
  PosModulus = 4
PROPERTY Termination
