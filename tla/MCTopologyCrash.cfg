SPECIFICATION LaunchSpec
CONSTANTS
  Malformed = Malformed
  Falsy = Falsy
  NoFrame = NoFrame
  NoMessage = NoMessage
  Inputs <- NoInputs
  Deltas <- AnyDelta
  CommandFrames <- WellFormedCommands
  EncoderFrames <- SimEncoders
  SafetyFrames <- SimSafety
  Injections <- NoInjections
  AutoCommands <- Commands
  SimSupply = 3
  SimUndervoltage = 1
  MinBurst = 2
  MaxBurst = 2
  MaxBehind = 3
  RestartLags <- NoLag
  MaxDisturbances = 0
  NominalSupply = 3
  UndervoltageThreshold = 2
  CommandLimit = 1
  StartupSamples = 1
  ShutdownSamples = 1
  WatchdogSamples = 2
  EncoderStaleSamples = 2
  RelayMismatchSamples = 2
  CommandStaleSamples = 2
  ExitChoices = {0}
PROPERTIES
  CrashDisarms
