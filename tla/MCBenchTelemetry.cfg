SPECIFICATION Spec
CONSTANTS
  Malformed = Malformed
  Inputs <- TelemetryInputs
  NominalSupply = 3
  UndervoltageThreshold = 2
  CommandLimit = 1
  StartupSamples = 2
  ShutdownSamples = 2
  WatchdogSamples = 3
  EncoderStaleSamples = 3
  RelayMismatchSamples = 2
INVARIANTS
  TypeOK
  FaultForcesSafeOutput
  LatchMatchesState
  DriveIsConfirmed
  ReadyNeedsLiveness
  DeadlinesHold
PROPERTIES
  ImplementsInterlock
  FaultLogReplays
