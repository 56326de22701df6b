SPECIFICATION FairSpec
CONSTANTS
  MinWait = 1
  MaxWait = 2
  MaxRetries = 1
  MaxReplies = 1
  MaxInbox = 1
  MaxFaults = 1
INVARIANTS PacketsOwn StackInUseIsAlive RestIsUsable IdleIsSubscribed
PROPERTIES DeathNoticed ConnectsAgain
CHECK_DEADLOCK FALSE
