CONSTANTS
  DataBits = 5
  BitCycles = 3
  Wrap = 9
  BufCapacity = 1
  IsrCapacity = 7
  Answers <- MCAnswers
  Control <- MCControl
  LF <- MCLF
  Timeout = 50
  Delays = {2, 28}
  MaxLatency = 1
  MaxLate = 1
  MaxHold = 6
  MaxGap = 1
  MaxExchanges = 2
SPECIFICATION Spec
INVARIANTS TypeOK DecodedInOrder
PROPERTIES LeftoverIsLineEnd NothingWithheld
CHECK_DEADLOCK FALSE
