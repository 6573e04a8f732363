SPECIFICATION AdapterSpec
CONSTANTS
  Malformed = Malformed
  Falsy = Falsy
  NoFrame = NoFrame
  Inputs <- NoInputs
  Deltas <- Advances
  CommandFrames <- MalformedCommands
  EncoderFrames <- MalformedEncoders
  SafetyFrames <- MalformedSafety
  NominalSupply = 3
  UndervoltageThreshold = 2
  CommandLimit = 1
  StartupSamples = 1
  ShutdownSamples = 1
  WatchdogSamples = 1
  EncoderStaleSamples = 1
  RelayMismatchSamples = 2
  CommandStaleSamples = 1
PROPERTIES
  MalformedFrameFaults
  ResetNeedsHealthyRelay
