SPECIFICATION CodecSpec
CONSTANTS
  Payloads <- MCPayloads
  HexTypes <- MCHexTypes
  BinTypes <- MCBinTypes
  HdrData <- MCHdrData
  FlowBytes <- MCFlowBytes
  Znulls = 1
  GarbageMax = 3
  MaxLen = 5
  MaxFrames = 3
  MaxNoise = 1
INVARIANT TypeOK FlowTransparent NoRawCRAfterAt
