CONSTANTS
  relay = relay
  probe = probe
  NoDevice = NoDevice
  MAX_DEVICE_COUNT = 1
  MAX_COMPONENT_COUNT = 3
  Devices = {relay, probe}
  Meta <- MCMeta
  ActValues = {0, 1}
  Requests <- OneOutput
  NoResponseCap = 3
  Leftovers = {"clear", "eol", "junk"}
  Mishaps = {}
  MaxFaults = 1
  MaxMoves = 4
  MaxRestarts = 1
SPECIFICATION FairSpec
INVARIANTS PlugState KnownDevice
PROPERTIES DropHasCause ReadingsFiledUnderSender RemovalNoticed BoardIdentified
