CONSTANTS
  EnableBle = TRUE
  WifiEnabled = TRUE
  MAX_WIFI_RETRIES = 1
  CONNECT_RETRIES = 0
  ConsoleCommands = {"start_ble", "bleStart", "bleExit", "wifi_begin"}
SPECIFICATION Spec
INVARIANTS RunsSubscribed BleAlone
PROPERTIES BleOnlyAsked RebootHappens ButtonLeadsToBle WifiComesBack
