SPECIFICATION ValidationSpec
CONSTANTS
  Malformed = Malformed
  Falsy = Falsy
  NoFrame = NoFrame
  NoConfig = NoConfig
  Payloads <- AllPayloads
  Motors <- AllMotors
CHECK_DEADLOCK FALSE
INVARIANTS
  AcceptedConfigurationIsSound
  BenchValidationVerdict
  AdapterEvidenceVerdict
