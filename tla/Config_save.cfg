CONSTANTS
  CoreFields <- MCCore
  MqttFields <- MCMqtt
  FileFields <- MCFiles
  Texts = {"old", "new"}
  DefaultText = "old"
  Ports = {1883, 8883}
  DefaultPort = 1883
  Files = {"cert", "long"}
  NoFile = "none"
  FileSize <- MCSize
  ChunkSize = 2
  Capacity = 7
  MaxEdits = 1
  MaxBreaks = 2
  MaxCommands = 1
SPECIFICATION Spec
CHECK_DEADLOCK FALSE
INVARIANTS CleanMeansSaved FilesWhole
PROPERTIES SavedAsEntered  SaveEndsInRestart
