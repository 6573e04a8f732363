SPECIFICATION NodeSpec
CONSTANTS
  Malformed = Malformed
  Falsy = Falsy
  NoFrame = NoFrame
  Inputs <- NoInputs
  Deltas <- Advances
  CommandFrames <- WellFormedCommands
  EncoderFrames <- HealthyEncoders
  SafetyFrames <- MirroringSafety
  NominalSupply = 3
  UndervoltageThreshold = 2
  CommandLimit = 1
  StartupSamples = 1
  ShutdownSamples = 1
  WatchdogSamples = 2
  EncoderStaleSamples = 2
  RelayMismatchSamples = 2
  CommandStaleSamples = 2
  ExitChoices = {0}
PROPERTIES
  NoSampleBeforeContact
