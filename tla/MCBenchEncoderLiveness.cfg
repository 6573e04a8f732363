SPECIFICATION HistorySpec
CONSTANTS
  Malformed = Malformed
  Inputs <- HistoryInputs
  NominalSupply = 3
  UndervoltageThreshold = 2
  CommandLimit = 1
  StartupSamples = 2
  ShutdownSamples = 2
  WatchdogSamples = 3
  EncoderStaleSamples = 3
  RelayMismatchSamples = 2
PROPERTIES
  LivenessFromHealthyAdvance
