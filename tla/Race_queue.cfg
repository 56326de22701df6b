CONSTANTS
  MAX_SIZE = 2
  MaxPushes = 6
SPECIFICATION RaceSpec
INVARIANTS CountNeverOverstates AwsRequestsValid
CHECK_DEADLOCK FALSE
