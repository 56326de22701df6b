SPECIFICATION Spec
CONSTANTS
  MinWait = 1
  MaxWait = 2
  MaxRetries = 1
  MaxReplies = 1
  MaxInbox = 1
  MaxFaults = 1
INVARIANT SuccessMeansPassed
CHECK_DEADLOCK FALSE
