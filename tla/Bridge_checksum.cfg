CONSTANTS
  Levels = {0, 1}
  MAX_DEVICE_COUNT = 2
  Sketch <- RelayAndDht
  Ids = {1, 2}
  New = {2}
  RxBuff = 8
  Orders <- SomeOrders
  MaxRounds = 1
  MaxFaults = 2
SPECIFICATION Spec
PROPERTIES OnlyCheckedServed
