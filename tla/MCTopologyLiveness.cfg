SPECIFICATION FairTopologySpec
CONSTANTS
  Malformed = Malformed
  Falsy = Falsy
  NoFrame = NoFrame
  NoMessage = NoMessage
  Inputs <- NoInputs
  Deltas <- AnyDelta
  CommandFrames <- WellFormedCommands
  EncoderFrames <- SimEncoders
  SafetyFrames <- SimSafety
  Injections <- HeldSilence
  AutoCommands <- Commands
  SimSupply = 3
  SimUndervoltage = 1
  MinBurst = 2
  MaxBurst = 2
  MaxBehind = 3
  RestartLags <- Lags
  MaxDisturbances = 1
  NominalSupply = 3
  UndervoltageThreshold = 2
  CommandLimit = 1
  StartupSamples = 1
  ShutdownSamples = 1
  WatchdogSamples = 1
  EncoderStaleSamples = 1
  RelayMismatchSamples = 2
  CommandStaleSamples = 1
  ExitChoices = {0}
PROPERTIES
  HeldFaultStopsMotor
  RestartedPublisherIsHeard
  RespawnDisarms
