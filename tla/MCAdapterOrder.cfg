SPECIFICATION HistorySpec
CONSTANTS
  Malformed = Malformed
  Falsy = Falsy
  NoFrame = NoFrame
  Inputs <- NoInputs
  Deltas <- Anomalies
  CommandFrames <- WellFormedCommands
  EncoderFrames <- HealthyEncoders
  SafetyFrames <- MirroringSafety
  NominalSupply = 3
  UndervoltageThreshold = 2
  CommandLimit = 1
  StartupSamples = 1
  ShutdownSamples = 1
  WatchdogSamples = 2
  EncoderStaleSamples = 1
  RelayMismatchSamples = 2
  CommandStaleSamples = 2
INVARIANTS
  SilenceIsBounded
  ReadyNeedsEncoderFrames
PROPERTIES
  MotionNeedsNewCommand
  ViolationLatches
  ResetNeedsHeartbeat
