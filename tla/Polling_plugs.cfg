CONSTANTS
  relay = relay
  probe = probe
  NoDevice = NoDevice
  MAX_DEVICE_COUNT = 2
  MAX_COMPONENT_COUNT = 3
  Devices = {relay, probe}
  Meta <- MCOutputs
  ActValues = {0, 1}
  Requests <- BothBoards
  NoResponseCap = 2
  Leftovers = {"clear", "eol"}
  Mishaps = {"lost", "late"}
  MaxFaults = 0
  MaxMoves = 3
  MaxRestarts = 0
SPECIFICATION Spec
INVARIANTS ServerListCurrent ActuatorMirror
