SPECIFICATION FairSpec
CONSTANTS
  Malformed = Malformed
  Inputs <- HistoryInputs
  NominalSupply = 3
  UndervoltageThreshold = 2
  CommandLimit = 1
  StartupSamples = 1
  ShutdownSamples = 2
  WatchdogSamples = 2
  EncoderStaleSamples = 2
  RelayMismatchSamples = 2
INVARIANTS
  RestartTakesItsTime
  HeldRequestStartsNothing
  RunningNeedsSoundInput
  ResetInterlock
  RecoveryTakesBoundedTime
  UnheardDriveIsBounded
PROPERTIES
  RelayStaysOff
  RecoveryPossible
  SilenceStopsMotor
