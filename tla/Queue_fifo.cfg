CONSTANTS
  status = status
  actuators = actuators
  none = none
  unset = unset
  Items = {status, actuators}
  Defaults = {none, unset}
  MAX_SIZE = 3
SPECIFICATION Spec
PROPERTIES IsFifo
