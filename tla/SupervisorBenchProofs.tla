----------------------- MODULE SupervisorBenchProofs -----------------------
(***************************************************************************)
(* Proofs about SupervisorBench, for every value of its constants and with *)
(* no bound on anything: the invariants that MCSupervisorBench checks on a *)
(* small instance, and that the bench implements SafetyInterlock.          *)
(***************************************************************************)
EXTENDS SupervisorBench, TLAPS

\* A sample after normalisation.
ValidatedInputs ==
  [supply_voltage_v : Int, requested_motor_voltage_v : Int,
   arm_request : BOOLEAN, run_request : BOOLEAN,
   shutdown_request : BOOLEAN, reset_request : BOOLEAN,
   watchdog_heartbeat : BOOLEAN, estop_active : BOOLEAN,
   encoder_stale : BOOLEAN, encoder_failed : BOOLEAN,
   encoder_invalid : BOOLEAN, relay_feedback_failed : BOOLEAN]

\* Startup has counted fewer healthy samples than it needs while it lasts.
StartupPending == state = "SAFE_STARTUP" => startup_healthy < StartupSamples

\* The inductive invariant: the checked invariants support each other, and
\* only the startup counter needs a conjunct of its own.
IInv ==
  /\ TypeOK
  /\ FaultForcesSafeOutput
  /\ LatchMatchesState
  /\ DriveIsConfirmed
  /\ ReadyNeedsLiveness
  /\ DeadlinesHold
  /\ StartupPending

-----------------------------------------------------------------------------
(* Operators.                                                              *)

\* _validate_runtime_inputs turns whatever it is given into a typed sample.
LEMMA ValidatedType == ASSUME NEW in PROVE Validated(in) \in ValidatedInputs
<1>1. \A x, safe : safe \in BOOLEAN => BooleanOr(x, safe) \in BOOLEAN
  BY DEF BooleanOr
<1>2. CASE in = Malformed
  BY <1>2 DEF Validated, ValidatedInputs
<1>3. CASE in # Malformed
  <2>1. (IF ValidSupply(in) THEN in.supply_voltage_v ELSE 0) \in Int
    BY DEF ValidSupply
  <2>2. (IF in.requested_motor_voltage_v \in Int
         THEN in.requested_motor_voltage_v ELSE 0) \in Int
    OBVIOUS
  <2> QED BY <1>1, <1>3, <2>1, <2>2, Zenon DEF Validated, ValidatedInputs
<1> QED BY <1>2, <1>3

\* Detection reports fault codes and nothing else.
LEMMA DetectedType == ASSUME NEW in, NEW v PROVE Detected(in, v) \subseteq FaultCode
  BY DEF Detected, InvalidFaults, FaultCode

\* A supervision counter moves within its threshold.
LEMMA BumpType ==
  ASSUME NEW limit \in Nat, NEW count \in 0..limit
  PROVE  Bump(count, limit) \in 0..limit
  BY DEF Bump

\* The H-bridge limiter stays within its limit, whatever is requested.
LEMMA ClippedWithinLimit ==
  ASSUME NEW v \in ValidatedInputs
  PROVE  Clipped(v) \in -CommandLimit..CommandLimit
  BY ConfigAssumption DEF Clipped, ValidatedInputs

\* The record of a safe sample is safe.
LEMMA SafeRecordFacts ==
  ASSUME NEW v \in ValidatedInputs,
         NEW detected \in SUBSET FaultCode, NEW published \in SUBSET FaultCode
  PROVE  LET r == SafeRecord(v, detected, published) IN
         /\ r \in TelemetryRecord
         /\ SafeOutput(r)
         /\ r.detected_faults = detected
         /\ r.published_faults = published
         /\ r.reset_accepted = FALSE
<1>1. Saturated(v) \in BOOLEAN
  BY DEF Saturated
<1> QED BY <1>1 DEF SafeRecord, Record, TelemetryRecord, SafeOutput

\* So is that of a sample in FAULT_LATCHED, whatever became of its reset.
LEMMA ResetRecordFacts ==
  ASSUME NEW v \in ValidatedInputs,
         NEW detected \in SUBSET FaultCode, NEW published \in SUBSET FaultCode,
         NEW accepted \in BOOLEAN, NEW rejected \in BOOLEAN
  PROVE  LET r == ResetRecord(v, detected, published, accepted, rejected) IN
         /\ r \in TelemetryRecord
         /\ SafeOutput(r)
         /\ r.detected_faults = detected
         /\ r.published_faults = published
         /\ r.reset_accepted = accepted
<1>1. Saturated(v) \in BOOLEAN
  BY DEF Saturated
<1> QED BY <1>1 DEF ResetRecord, TelemetryRecord, SafeOutput

-----------------------------------------------------------------------------
(* Sampling.                                                               *)

\* Sampling keeps its counters within their thresholds and never takes back
\* the encoder's liveness.
LEMMA SampleType ==
  ASSUME TypeOK, NEW v \in ValidatedInputs, Sample(v)
  PROVE  /\ sequence' \in SequenceRelation
         /\ stale_age' \in 0..EncoderStaleSamples
         /\ liveness' \in BOOLEAN
         /\ missed' \in 0..WatchdogSamples
         /\ liveness' = (liveness \/ AdvanceSeen(v))
<1>1. EncoderStaleSamples \in Nat /\ WatchdogSamples \in Nat
  BY ConfigAssumption
<1>2. sequence' \in SequenceRelation
  BY DEF TypeOK, Sample, NextSequence, SequenceRelation
<1>3. stale_age' \in 0..EncoderStaleSamples
  <2>1. Bump(stale_age, EncoderStaleSamples) \in 0..EncoderStaleSamples
    BY <1>1, BumpType DEF TypeOK
  <2> QED BY <1>1, <2>1 DEF TypeOK, Sample, NextStaleAge
<1>4. missed' \in 0..WatchdogSamples
  <2>1. Bump(missed, WatchdogSamples) \in 0..WatchdogSamples
    BY <1>1, BumpType DEF TypeOK
  <2> QED BY <1>1, <2>1 DEF TypeOK, Sample, NextMissed
<1>5. liveness' = (liveness \/ AdvanceSeen(v))
  BY DEF Sample
<1>6. liveness' \in BOOLEAN
  BY <1>5
<1> QED BY <1>2, <1>3, <1>4, <1>5, <1>6

\* A sample that detects nothing is within both deadlines.
LEMMA NothingDetected ==
  ASSUME TypeOK, NEW in, NEW v \in ValidatedInputs, Sample(v), Detected(in, v) = {}
  PROVE  missed' < WatchdogSamples /\ stale_age' < EncoderStaleSamples
<1>1. "WATCHDOG_TIMEOUT" \notin Detected(in, v) /\ "ENCODER_STALE" \notin Detected(in, v)
  OBVIOUS
<1>2. ~(NextMissed(v) >= WatchdogSamples) /\ ~(NextStaleAge(v) >= EncoderStaleSamples)
  BY <1>1 DEF Detected, WatchdogExpired
<1>3. missed' \in Int /\ stale_age' \in Int
  BY SampleType
<1> QED BY <1>2, <1>3, ConfigAssumption DEF Sample

-----------------------------------------------------------------------------
(* Steps.                                                                  *)

\* A step that ends outside RUNNING with a safe record keeps the invariant
\* when it pairs the latch with its set and counts startup and hold correctly.
LEMMA SafeStepKeepsInvariant ==
  ASSUME TypeOK, NEW v \in ValidatedInputs, Sample(v),
         state' \in States \ {"RUNNING"},
         latched' \in SUBSET FaultCode,
         state' = "FAULT_LATCHED" <=> latched' # {},
         state' = "READY" => liveness',
         state' # "FAULT_LATCHED" =>
           missed' < WatchdogSamples /\ stale_age' < EncoderStaleSamples,
         startup_healthy' \in 0..StartupSamples,
         StartupPending',
         shutdown_hold' \in 0..ShutdownSamples,
         disarmed_seen' \in BOOLEAN,
         mismatch' = 0,
         record' \in TelemetryRecord,
         SafeOutput(record')
  PROVE  IInv'
<1>1. TypeOK'
  BY SampleType, ConfigAssumption DEF TypeOK
<1>2. FaultForcesSafeOutput'
  BY DEF FaultForcesSafeOutput
<1>3. LatchMatchesState'
  BY DEF LatchMatchesState
<1>4. DriveIsConfirmed'
  BY ConfigAssumption DEF DriveIsConfirmed, SafeOutput
<1>5. ReadyNeedsLiveness'
  BY DEF ReadyNeedsLiveness
<1>6. DeadlinesHold'
  BY ConfigAssumption DEF DeadlinesHold
<1> QED BY <1>1, <1>2, <1>3, <1>4, <1>5, <1>6 DEF IInv

\* A step that drives, inhibits or trips the relay keeps the invariant.
LEMMA RunKeepsInvariant ==
  ASSUME IInv, NEW v \in ValidatedInputs, Sample(v),
         missed' < WatchdogSamples, stale_age' < EncoderStaleSamples,
         state \in {"READY", "RUNNING"},
         Run(v),
         UNCHANGED <<startup_healthy, shutdown_hold, disarmed_seen>>
  PROVE  IInv'
<1>1. TypeOK /\ latched = {} /\ liveness /\ mismatch < RelayMismatchSamples
  BY DEF IInv, LatchMatchesState, ReadyNeedsLiveness, DeadlinesHold
<1>2. /\ sequence' \in SequenceRelation /\ stale_age' \in 0..EncoderStaleSamples
      /\ liveness' = TRUE /\ missed' \in 0..WatchdogSamples
  BY <1>1, SampleType
<1>3. CASE DriveMotor(v) \/ InhibitMotor(v)
  <2>1. /\ state' = "RUNNING" /\ latched' = {}
        /\ mismatch' \in 0..RelayMismatchSamples /\ mismatch' < RelayMismatchSamples
    <3>1. CASE DriveMotor(v)
      BY <1>1, <3>1, ConfigAssumption DEF DriveMotor
    <3>2. CASE InhibitMotor(v)
      <4>1. state' = "RUNNING" /\ latched' = {} /\ mismatch' = mismatch + 1
            /\ mismatch + 1 < RelayMismatchSamples
        BY <1>1, <3>2 DEF InhibitMotor
      <4> QED BY <1>1, <4>1, ConfigAssumption DEF TypeOK
    <3> QED BY <1>3, <3>1, <3>2
  <2>2. /\ record' \in TelemetryRecord
        /\ record'.detected_faults = {}
        /\ record'.motor_command_v # 0 =>
             record'.relay_enable_command /\ record'.relay_enable_feedback
        /\ record'.motor_command_v \in -CommandLimit..CommandLimit
    <3>0. Saturated(v) \in BOOLEAN
      BY DEF Saturated
    <3>1. CASE DriveMotor(v)
      <4>1. Clipped(v) \in -CommandLimit..CommandLimit /\ Clipped(v) \in Int
        BY ClippedWithinLimit, ConfigAssumption
      <4> QED BY <3>0, <3>1, <4>1 DEF DriveMotor, Record, TelemetryRecord
    <3>2. CASE InhibitMotor(v)
      BY <3>0, <3>2, ConfigAssumption DEF InhibitMotor, Record, TelemetryRecord
    <3> QED BY <1>3, <3>1, <3>2
  <2>3. TypeOK'
    BY <1>1, <1>2, <2>1, <2>2 DEF TypeOK, States
  <2>4. FaultForcesSafeOutput'
    BY <2>1, <2>2 DEF FaultForcesSafeOutput
  <2>5. LatchMatchesState' /\ ReadyNeedsLiveness' /\ StartupPending'
    BY <1>2, <2>1 DEF LatchMatchesState, ReadyNeedsLiveness, StartupPending
  <2>6. DriveIsConfirmed'
    BY <2>1, <2>2 DEF DriveIsConfirmed
  <2>7. DeadlinesHold'
    BY <2>1 DEF DeadlinesHold
  <2> QED BY <2>3, <2>4, <2>5, <2>6, <2>7 DEF IInv
<1>4. CASE LatchRelayFailure(v)
  <2>1. /\ state' = "FAULT_LATCHED" /\ latched' = {"RELAY_FEEDBACK_FAILURE"}
        /\ mismatch' \in 0..RelayMismatchSamples
    BY <1>1, <1>4, ConfigAssumption DEF LatchRelayFailure, TypeOK
  <2>2. record' \in TelemetryRecord /\ SafeOutput(record')
    <3>1. {"RELAY_FEEDBACK_FAILURE"} \in SUBSET FaultCode
      BY DEF FaultCode
    <3>2. {"RELAY_FEEDBACK_FAILURE"} \ latched \in SUBSET FaultCode
      BY <3>1
    <3> QED BY <1>4, <3>1, <3>2, SafeRecordFacts DEF LatchRelayFailure
  <2>3. TypeOK'
    BY <1>1, <1>2, <2>1, <2>2 DEF TypeOK, States, FaultCode
  <2>4. DriveIsConfirmed'
    BY <2>2, ConfigAssumption DEF DriveIsConfirmed, SafeOutput
  <2>5. FaultForcesSafeOutput' /\ LatchMatchesState' /\ ReadyNeedsLiveness'
        /\ DeadlinesHold' /\ StartupPending'
    BY <2>1, <2>2 DEF FaultForcesSafeOutput, LatchMatchesState, ReadyNeedsLiveness,
                      DeadlinesHold, StartupPending
  <2> QED BY <2>3, <2>4, <2>5 DEF IInv
<1> QED BY <1>3, <1>4 DEF Run

\* Latching, holding and resetting a fault keep the invariant.
LEMMA FaultStepKeepsInvariant ==
  ASSUME IInv, NEW in, NEW v \in ValidatedInputs, Sample(v),
         NEW detected \in SUBSET FaultCode, detected = Detected(in, v),
         LatchFault(v, detected) \/ HoldFault(v, detected) \/ AcceptReset(v, detected)
  PROVE  IInv'
<1>1. TypeOK /\ LatchMatchesState
  BY DEF IInv
<1>2. detected \ latched \in SUBSET FaultCode /\ latched \cup detected \in SUBSET FaultCode
  BY <1>1 DEF TypeOK
<1>3. CASE LatchFault(v, detected)
  <2>1. record' \in TelemetryRecord /\ SafeOutput(record')
    BY <1>2, <1>3, SafeRecordFacts DEF LatchFault, KeepSafe
  <2>2. /\ state' = "FAULT_LATCHED" /\ latched' = latched \cup detected /\ detected # {}
        /\ mismatch' = 0
        /\ UNCHANGED <<startup_healthy, shutdown_hold, disarmed_seen>>
    BY <1>3 DEF LatchFault, KeepSafe
  <2> QED
    BY <1>1, <1>2, <2>1, <2>2, SafeStepKeepsInvariant DEF TypeOK, States, StartupPending
<1>4. CASE HoldFault(v, detected)
  <2>1. record' \in TelemetryRecord /\ SafeOutput(record')
    <3>1. record' = ResetRecord(v, detected, detected \ latched, FALSE, v.reset_request)
      BY <1>4 DEF HoldFault
    <3>2. v.reset_request \in BOOLEAN
      BY DEF ValidatedInputs
    <3> QED BY <1>2, <3>1, <3>2, ResetRecordFacts
  <2>2. /\ state = "FAULT_LATCHED" /\ state' = state /\ latched' = latched \cup detected
        /\ mismatch' = 0
        /\ UNCHANGED <<startup_healthy, shutdown_hold, disarmed_seen>>
    BY <1>4 DEF HoldFault
  <2>3. latched' # {}
    BY <1>1, <2>2 DEF LatchMatchesState
  <2> QED
    BY <1>1, <1>2, <2>1, <2>2, <2>3, SafeStepKeepsInvariant DEF TypeOK, States, StartupPending
<1>5. CASE AcceptReset(v, detected)
  <2>1. record' \in TelemetryRecord /\ SafeOutput(record')
    <3>1. record' = ResetRecord(v, {}, {}, TRUE, FALSE)
      BY <1>5 DEF AcceptReset
    <3> QED BY <3>1, ResetRecordFacts
  <2>2. /\ state' = "SAFE_SHUTDOWN" /\ latched' = {} /\ mismatch' = 0
        /\ shutdown_hold' = 0 /\ disarmed_seen' = FALSE
        /\ startup_healthy' = startup_healthy
        /\ Detected(in, v) = {}
    BY <1>5 DEF AcceptReset, ResetAllowed
  <2>3. missed' < WatchdogSamples /\ stale_age' < EncoderStaleSamples
    BY <1>1, <2>2, NothingDetected
  <2>4. /\ state' \in States \ {"RUNNING"}
        /\ startup_healthy' \in 0..StartupSamples /\ shutdown_hold' \in 0..ShutdownSamples
    BY <1>1, <2>2, ConfigAssumption DEF TypeOK, States
  <2>5. StartupPending'
    BY <2>2 DEF StartupPending
  <2>6. /\ latched' \in SUBSET FaultCode
        /\ state' = "FAULT_LATCHED" <=> latched' # {}
        /\ state' = "READY" => liveness'
        /\ disarmed_seen' \in BOOLEAN
    BY <2>2
  <2> QED BY <1>1, <2>1, <2>2, <2>3, <2>4, <2>5, <2>6, SafeStepKeepsInvariant
<1> QED BY <1>3, <1>4, <1>5

\* The state machine keeps the invariant when nothing is detected.
LEMMA AdvanceKeepsInvariant ==
  ASSUME IInv, NEW in, NEW v \in ValidatedInputs, Sample(v),
         Detected(in, v) = {}, Advance(v, Detected(in, v))
  PROVE  IInv'
<1>1. TypeOK /\ LatchMatchesState /\ ReadyNeedsLiveness /\ StartupPending
  BY DEF IInv
<1>2. missed' < WatchdogSamples /\ stale_age' < EncoderStaleSamples
  BY <1>1, NothingDetected
<1>3. liveness' = (liveness \/ AdvanceSeen(v))
  BY <1>1, SampleType
<1>4. SafeRecord(v, {}, {}) \in TelemetryRecord /\ SafeOutput(SafeRecord(v, {}, {}))
  BY SafeRecordFacts
<1>5. ASSUME KeepSafe(v, {}, {}) PROVE mismatch' = 0 /\ record' \in TelemetryRecord /\ SafeOutput(record')
  BY <1>4, <1>5 DEF KeepSafe
<1>6. ASSUME EnterShutdown(v), state \in {"READY", "RUNNING"} PROVE IInv'
  <2>1. /\ state' = "SAFE_SHUTDOWN" /\ shutdown_hold' = 0 /\ disarmed_seen' = FALSE
        /\ KeepSafe(v, {}, {}) /\ UNCHANGED <<latched, startup_healthy>>
    BY <1>6 DEF EnterShutdown
  <2>2. latched = {}
    BY <1>1, <1>6 DEF LatchMatchesState
  <2>3. /\ state' \in States \ {"RUNNING"}
        /\ startup_healthy' \in 0..StartupSamples /\ shutdown_hold' \in 0..ShutdownSamples
    BY <1>1, <2>1, ConfigAssumption DEF TypeOK, States
  <2>4. StartupPending'
    BY <2>1 DEF StartupPending
  <2>5. mismatch' = 0 /\ record' \in TelemetryRecord /\ SafeOutput(record')
    BY <1>5, <2>1
  <2>6. /\ latched' \in SUBSET FaultCode
        /\ state' = "FAULT_LATCHED" <=> latched' # {}
        /\ state' = "READY" => liveness'
        /\ disarmed_seen' \in BOOLEAN
    BY <2>1, <2>2
  <2> QED BY <1>1, <1>2, <2>3, <2>4, <2>5, <2>6, SafeStepKeepsInvariant
<1>7. CASE AdvanceStartup(v)
  <2>1. /\ state = "SAFE_STARTUP" /\ KeepSafe(v, {}, {}) /\ UNCHANGED <<latched, shutdown_hold>>
        /\ startup_healthy' = IF liveness \/ AdvanceSeen(v)
                              THEN startup_healthy + 1 ELSE startup_healthy
    BY <1>7 DEF AdvanceStartup
  <2>2. latched = {} /\ startup_healthy \in 0..StartupSamples /\ startup_healthy < StartupSamples
    BY <1>1, <2>1 DEF LatchMatchesState, StartupPending, TypeOK
  <2>3. startup_healthy' \in 0..StartupSamples
    BY <2>1, <2>2, ConfigAssumption
  <2>4. /\ state' \in {"READY", "SAFE_STARTUP"} /\ disarmed_seen' \in BOOLEAN
        /\ state' = "READY" => startup_healthy' >= StartupSamples
        /\ state' = "SAFE_STARTUP" => startup_healthy' < StartupSamples
    BY <1>1, <1>7, <2>1 DEF AdvanceStartup, TypeOK
  <2>5. state' = "READY" => liveness'
    <3>1. CASE liveness \/ AdvanceSeen(v)
      BY <1>3, <3>1
    <3>2. CASE ~(liveness \/ AdvanceSeen(v))
      <4>1. startup_healthy' = startup_healthy
        BY <2>1, <3>2
      <4> QED BY <2>2, <2>4, <4>1, ConfigAssumption
    <3> QED BY <3>1, <3>2
  <2>6. StartupPending'
    BY <2>4 DEF StartupPending
  <2>7. mismatch' = 0 /\ record' \in TelemetryRecord /\ SafeOutput(record')
    BY <1>5, <2>1
  <2>8. state' \in States \ {"RUNNING"} /\ shutdown_hold' \in 0..ShutdownSamples
    BY <1>1, <2>1, <2>4 DEF TypeOK, States
  <2>9. latched' \in SUBSET FaultCode /\ (state' = "FAULT_LATCHED" <=> latched' # {})
    BY <2>1, <2>2, <2>4
  <2> QED
    BY <1>1, <1>2, <2>3, <2>4, <2>5, <2>6, <2>7, <2>8, <2>9, SafeStepKeepsInvariant
<1>8. CASE AdvanceReady(v)
  <2>1. state = "READY" /\ latched = {} /\ liveness
    BY <1>1, <1>8 DEF AdvanceReady, LatchMatchesState, ReadyNeedsLiveness
  <2>2. CASE EnterShutdown(v)
    BY <1>6, <2>1, <2>2
  <2>3. CASE Run(v) /\ UNCHANGED <<startup_healthy, shutdown_hold, disarmed_seen>>
    BY <1>2, <2>1, <2>3, RunKeepsInvariant
  <2>4. CASE /\ disarmed_seen' = (disarmed_seen \/ (~v.arm_request /\ ~v.run_request))
             /\ KeepSafe(v, {}, {})
             /\ UNCHANGED <<state, latched, startup_healthy, shutdown_hold>>
    <3>1. disarmed_seen' \in BOOLEAN
      BY <2>4
    <3>2. liveness' = TRUE
      BY <1>3, <2>1
    <3> QED
      BY <1>1, <1>2, <1>5, <2>1, <2>4, <3>1, <3>2, SafeStepKeepsInvariant
      DEF TypeOK, States, StartupPending
  <2> QED BY <1>8, <2>2, <2>3, <2>4 DEF AdvanceReady
<1>9. CASE AdvanceRunning(v)
  <2>1. state = "RUNNING"
    BY <1>9 DEF AdvanceRunning
  <2>2. CASE EnterShutdown(v)
    BY <1>6, <2>1, <2>2
  <2>3. CASE Run(v) /\ UNCHANGED <<startup_healthy, shutdown_hold, disarmed_seen>>
    BY <1>2, <2>1, <2>3, RunKeepsInvariant
  <2> QED BY <1>9, <2>2, <2>3 DEF AdvanceRunning
<1>10. CASE AdvanceShutdown(v)
  <2>1. /\ state = "SAFE_SHUTDOWN" /\ KeepSafe(v, {}, {}) /\ UNCHANGED <<latched, startup_healthy>>
        /\ shutdown_hold' = Bump(shutdown_hold, ShutdownSamples)
    BY <1>10 DEF AdvanceShutdown
  <2>2. latched = {}
    BY <1>1, <2>1 DEF LatchMatchesState
  <2>3. shutdown_hold' \in 0..ShutdownSamples
    BY <1>1, <2>1, ConfigAssumption, BumpType DEF TypeOK
  <2>4. /\ state' \in {"READY", "SAFE_SHUTDOWN"} /\ disarmed_seen' \in BOOLEAN
        /\ state' = "READY" => liveness'
    BY <1>1, <1>3, <1>10, <2>1 DEF AdvanceShutdown, TypeOK
  <2> QED
    BY <1>1, <1>2, <1>5, <2>1, <2>2, <2>3, <2>4, SafeStepKeepsInvariant
    DEF TypeOK, States, StartupPending
<1> QED BY <1>7, <1>8, <1>9, <1>10 DEF Advance

-----------------------------------------------------------------------------
(* The invariants.                                                         *)

LEMMA InitInvariant == ASSUME Init PROVE IInv
<1>1. QuietRecord \in TelemetryRecord /\ SafeOutput(QuietRecord) /\ QuietRecord.detected_faults = {}
  BY DEF QuietRecord, TelemetryRecord, SafeOutput
<1>2. TypeOK
  <2>1. /\ startup_healthy \in 0..StartupSamples /\ shutdown_hold \in 0..ShutdownSamples
        /\ missed \in 0..WatchdogSamples /\ stale_age \in 0..EncoderStaleSamples
        /\ mismatch \in 0..RelayMismatchSamples
    BY ConfigAssumption DEF Init
  <2>2. state \in States /\ sequence \in SequenceRelation
    BY DEF Init, States, SequenceRelation
  <2>3. latched \subseteq FaultCode /\ record \in TelemetryRecord
    BY <1>1 DEF Init
  <2>4. liveness \in BOOLEAN /\ disarmed_seen \in BOOLEAN
    BY DEF Init
  <2> QED BY <2>1, <2>2, <2>3, <2>4 DEF TypeOK
<1>3. /\ FaultForcesSafeOutput
      /\ LatchMatchesState
      /\ ReadyNeedsLiveness
  <2>1. state = "SAFE_STARTUP" /\ latched = {} /\ record = QuietRecord
    BY DEF Init
  <2>2. FaultForcesSafeOutput
    BY <1>1, <2>1 DEF FaultForcesSafeOutput
  <2> QED BY <2>1, <2>2 DEF LatchMatchesState, ReadyNeedsLiveness
<1>4. DriveIsConfirmed
  BY <1>1, ConfigAssumption DEF Init, DriveIsConfirmed, SafeOutput
<1>5. DeadlinesHold /\ StartupPending
  BY ConfigAssumption DEF Init, DeadlinesHold, StartupPending
<1> QED BY <1>2, <1>3, <1>4, <1>5 DEF IInv

\* Whatever its argument, one call of step keeps the invariant.
LEMMA StepInvariant == ASSUME IInv, NEW in, Step(in) PROVE IInv'
<1> DEFINE v == Validated(in)
<1> DEFINE detected == Detected(in, v)
<1>1. v \in ValidatedInputs /\ detected \in SUBSET FaultCode
  BY ValidatedType, DetectedType
<1>2. /\ Sample(v)
      /\ \/ LatchFault(v, detected) \/ HoldFault(v, detected)
         \/ AcceptReset(v, detected) \/ Advance(v, detected)
  BY DEF Step
<1>3. CASE Advance(v, detected)
  <2>1. detected = {}
    BY <1>3 DEF Advance
  <2> QED BY <1>1, <1>2, <1>3, <2>1, AdvanceKeepsInvariant
<1>4. CASE LatchFault(v, detected) \/ HoldFault(v, detected) \/ AcceptReset(v, detected)
  BY <1>1, <1>2, <1>4, FaultStepKeepsInvariant
<1> QED BY <1>2, <1>3, <1>4

\* The inductive invariant holds in every state of every behaviour.
THEOREM BenchInvariant == Spec => []IInv
<1>1. ASSUME IInv, [Next]_bench_vars PROVE IInv'
  <2>1. CASE Next
    BY <1>1, <2>1, StepInvariant DEF Next
  <2>2. CASE UNCHANGED bench_vars
    BY <1>1, <2>2
    DEF bench_vars, IInv, TypeOK, FaultForcesSafeOutput, LatchMatchesState,
        DriveIsConfirmed, ReadyNeedsLiveness, DeadlinesHold, StartupPending
  <2> QED BY <1>1, <2>1, <2>2
<1> QED BY <1>1, InitInvariant, PTL DEF Spec

\* Every variable keeps its range: no counter passes its threshold, no sample
\* leaves an ill-typed record.
THEOREM BenchTypes == Spec => []TypeOK
<1>1. IInv => TypeOK
  BY DEF IInv
<1> QED BY <1>1, BenchInvariant, PTL

\* A supervisor that publishes a drive or a raised relay while it detects or
\* holds a fault is impossible, whatever the samples and the thresholds.
THEOREM SafeOutputUnderFault == Spec => []FaultForcesSafeOutput
<1>1. IInv => FaultForcesSafeOutput
  BY DEF IInv
<1> QED BY <1>1, BenchInvariant, PTL

\* The motor is driven only in RUNNING and only over a confirmed relay.
THEOREM ConfirmedDrive == Spec => []DriveIsConfirmed
<1>1. IInv => DriveIsConfirmed
  BY DEF IInv
<1> QED BY <1>1, BenchInvariant, PTL

\* No supervision counter is at its threshold outside FAULT_LATCHED.
THEOREM Deadlines == Spec => []DeadlinesHold
<1>1. IInv => DeadlinesHold
  BY DEF IInv
<1> QED BY <1>1, BenchInvariant, PTL

\* Neither READY nor RUNNING precedes the encoder's first observed advance.
THEOREM LivenessFirst == Spec => []ReadyNeedsLiveness
<1>1. IInv => ReadyNeedsLiveness
  BY DEF IInv
<1> QED BY <1>1, BenchInvariant, PTL

\* The state FAULT_LATCHED and the latched set never disagree.
THEOREM LatchAgrees == Spec => []LatchMatchesState
<1>1. IInv => LatchMatchesState
  BY DEF IInv
<1> QED BY <1>1, BenchInvariant, PTL

-----------------------------------------------------------------------------
(* Steps: the fault channel, the way out of the latch, the interlock.      *)

\* What one call of step does, as one case for each branch of the code.
LEMMA StepCases ==
  ASSUME IInv, NEW in, Step(in)
  PROVE  \E v \in ValidatedInputs : \E detected \in SUBSET FaultCode :
           /\ Sample(v)
           /\ detected = {} => missed' < WatchdogSamples /\ stale_age' < EncoderStaleSamples
           /\ \/ LatchFault(v, detected) \/ HoldFault(v, detected)
              \/ AcceptReset(v, detected)
              \/ Advance(v, detected)
<1> DEFINE v == Validated(in)
<1> DEFINE detected == Detected(in, v)
<1>1. v \in ValidatedInputs /\ detected \in SUBSET FaultCode
  BY ValidatedType, DetectedType
<1>2. /\ Sample(v)
      /\ \/ LatchFault(v, detected) \/ HoldFault(v, detected)
         \/ AcceptReset(v, detected) \/ Advance(v, detected)
  BY DEF Step
<1>3. detected = {} => missed' < WatchdogSamples /\ stale_age' < EncoderStaleSamples
  BY <1>1, <1>2, NothingDetected DEF IInv
<1> QED BY <1>1, <1>2, <1>3

\* A fault-free sample either runs or publishes a quiet, safe record, and in
\* either case it does not touch the latch except for the late relay failure.
LEMMA AdvanceCases ==
  ASSUME NEW v, NEW detected, Advance(v, detected)
  PROVE  /\ state # "FAULT_LATCHED" /\ detected = {}
         /\ \/ state \in {"READY", "RUNNING"} /\ Run(v)
            \/ /\ state' # "FAULT_LATCHED"
               /\ record' = SafeRecord(v, {}, {})
               /\ latched' = latched
<1>1. detected = {}
  BY DEF Advance
<1>2. CASE AdvanceStartup(v)
  BY <1>1, <1>2 DEF AdvanceStartup, KeepSafe
<1>3. CASE AdvanceReady(v)
  BY <1>1, <1>3 DEF AdvanceReady, EnterShutdown, KeepSafe
<1>4. CASE AdvanceRunning(v)
  BY <1>1, <1>4 DEF AdvanceRunning, EnterShutdown, KeepSafe
<1>5. CASE AdvanceShutdown(v)
  BY <1>1, <1>5 DEF AdvanceShutdown, KeepSafe
<1> QED BY <1>2, <1>3, <1>4, <1>5 DEF Advance

\* One step of the fault channel: nothing already latched is published again,
\* and what is published is exactly what the latch gains.
LogStep ==
  /\ record'.published_faults \cap latched = {}
  /\ latched' = IF record'.reset_accepted THEN {}
                ELSE latched \cup record'.published_faults

LEMMA RunLogs ==
  ASSUME NEW v, latched = {}, Run(v) PROVE LogStep
<1>1. CASE DriveMotor(v)
  BY <1>1 DEF DriveMotor, Record, LogStep
<1>2. CASE InhibitMotor(v)
  BY <1>2 DEF InhibitMotor, Record, LogStep
<1>3. CASE LatchRelayFailure(v)
  BY <1>3 DEF LatchRelayFailure, SafeRecord, Record, LogStep
<1> QED BY <1>1, <1>2, <1>3 DEF Run

LEMMA StepLogs == ASSUME IInv, NEW in, Step(in) PROVE LogStep
<1>1. PICK v \in ValidatedInputs, detected \in SUBSET FaultCode :
        \/ LatchFault(v, detected) \/ HoldFault(v, detected)
        \/ AcceptReset(v, detected) \/ Advance(v, detected)
  BY StepCases
<1>2. CASE LatchFault(v, detected)
  BY <1>2 DEF LatchFault, KeepSafe, SafeRecord, Record, LogStep
<1>3. CASE HoldFault(v, detected)
  BY <1>3 DEF HoldFault, ResetRecord, LogStep
<1>4. CASE AcceptReset(v, detected)
  BY <1>4 DEF AcceptReset, ResetRecord, LogStep
<1>5. CASE Advance(v, detected)
  <2>1. latched = {}
    BY <1>5, AdvanceCases DEF IInv, LatchMatchesState
  <2>2. CASE Run(v)
    BY <2>1, <2>2, RunLogs
  <2>3. CASE record' = SafeRecord(v, {}, {}) /\ latched' = latched
    BY <2>3 DEF SafeRecord, Record, LogStep
  <2> QED BY <1>5, <2>2, <2>3, AdvanceCases
<1> QED BY <1>1, <1>2, <1>3, <1>4, <1>5

\* Replaying the fault channel reproduces the latched set, in every behaviour.
THEOREM FaultLog == Spec => FaultLogReplays
<1>1. ASSUME IInv, [Next]_bench_vars PROVE [LogStep]_bench_vars
  BY <1>1, StepLogs DEF Next
<1> QED BY <1>1, BenchInvariant, PTL DEF Spec, FaultLogReplays, LogStep

\* A step out of FAULT_LATCHED.
LatchExit ==
  state = "FAULT_LATCHED" /\ state' # "FAULT_LATCHED" =>
    /\ state' = "SAFE_SHUTDOWN"
    /\ record'.reset_accepted
    /\ record'.detected_faults = {}
    /\ missed' < WatchdogSamples
    /\ stale_age' < EncoderStaleSamples
    /\ SafeOutput(record')

LEMMA StepExits == ASSUME IInv, NEW in, Step(in) PROVE LatchExit
<1> SUFFICES ASSUME state = "FAULT_LATCHED", state' # "FAULT_LATCHED"
             PROVE  LatchExit
  BY DEF LatchExit
<1>1. PICK v \in ValidatedInputs, detected \in SUBSET FaultCode :
        /\ detected = {} => missed' < WatchdogSamples /\ stale_age' < EncoderStaleSamples
        /\ \/ LatchFault(v, detected) \/ HoldFault(v, detected)
           \/ AcceptReset(v, detected) \/ Advance(v, detected)
  BY StepCases
<1>2. AcceptReset(v, detected)
  BY <1>1, AdvanceCases DEF LatchFault, HoldFault
<1>3. /\ detected = {} /\ state' = "SAFE_SHUTDOWN"
      /\ record' = ResetRecord(v, {}, {}, TRUE, FALSE)
  BY <1>2 DEF AcceptReset, ResetAllowed
<1>4. SafeOutput(record') /\ record'.detected_faults = {} /\ record'.reset_accepted
  BY <1>3 DEF ResetRecord, SafeOutput
<1> QED BY <1>1, <1>3, <1>4 DEF LatchExit

\* FAULT_LATCHED is left only by an accepted reset of a sample that detected
\* nothing, into SAFE_SHUTDOWN and with safe outputs.
THEOREM LatchExits == Spec => LatchEndsInSafeShutdown
<1>1. ASSUME IInv, [Next]_bench_vars PROVE [LatchExit]_bench_vars
  BY <1>1, StepExits DEF Next
<1> QED BY <1>1, BenchInvariant, PTL DEF Spec, LatchEndsInSafeShutdown, LatchExit

-----------------------------------------------------------------------------
(* What a step into a state, or out of one, tells of its sample.           *)

\* A detected fault is latched in its own sample, and the outputs are safe.
LEMMA DetectedLatches ==
  ASSUME NEW in, NEW code, Step(in), code \in Detected(in, Validated(in))
  PROVE  state' = "FAULT_LATCHED" /\ code \in latched' /\ SafeOutput(record')
<1> DEFINE v == Validated(in)
<1> DEFINE detected == Detected(in, v)
<1>1. detected # {}
  OBVIOUS
<1>2. LatchFault(v, detected) \/ HoldFault(v, detected)
  BY <1>1 DEF Step, AcceptReset, ResetAllowed, Advance
<1>3. CASE LatchFault(v, detected)
  BY <1>3 DEF LatchFault, KeepSafe, SafeRecord, Record, SafeOutput
<1>4. CASE HoldFault(v, detected)
  BY <1>4 DEF HoldFault, ResetRecord, SafeOutput
<1> QED BY <1>2, <1>3, <1>4

\* RUNNING is entered only by a request that is low in no part, from READY
\* with the operator seen letting go.
LEMMA EntersRunning ==
  ASSUME NEW in, Step(in), state' = "RUNNING"
  PROVE  /\ Validated(in).arm_request /\ Validated(in).run_request
         /\ state = "RUNNING" \/ (state = "READY" /\ disarmed_seen)
<1> DEFINE v == Validated(in)
<1> DEFINE detected == Detected(in, v)
<1>1. Advance(v, detected)
  BY DEF Step, LatchFault, HoldFault, AcceptReset
<1> HIDE DEF v, detected
<1>2. AdvanceReady(v) \/ AdvanceRunning(v)
  BY <1>1 DEF Advance, AdvanceStartup, AdvanceShutdown
<1>3. ~EnterShutdown(v) /\ ~(state = "READY" /\ UNCHANGED state)
  BY DEF EnterShutdown
<1>4. CASE AdvanceReady(v)
  BY <1>3, <1>4, Zenon DEF AdvanceReady, v
<1>5. CASE AdvanceRunning(v)
  BY <1>3, <1>5, Zenon DEF AdvanceRunning, v
<1> QED BY <1>2, <1>4, <1>5

\* The operator is seen letting go in READY, not on the way into it.
LEMMA EntersArmed ==
  ASSUME NEW in, Step(in), state' = "READY", disarmed_seen' PROVE state = "READY"
<1> DEFINE v == Validated(in)
<1> DEFINE detected == Detected(in, v)
<1>1. Advance(v, detected)
  BY DEF Step, LatchFault, HoldFault, AcceptReset
<1> HIDE DEF v, detected
<1>2. CASE AdvanceStartup(v) \/ AdvanceShutdown(v)
  BY <1>2 DEF AdvanceStartup, AdvanceShutdown
<1>3. CASE AdvanceRunning(v)
  BY <1>3 DEF AdvanceRunning, EnterShutdown, Run, DriveMotor, InhibitMotor, LatchRelayFailure
<1>4. CASE AdvanceReady(v)
  BY <1>4 DEF AdvanceReady
<1> QED BY <1>1, <1>2, <1>3, <1>4 DEF Advance

\* READY is entered from SAFE_STARTUP or through SAFE_SHUTDOWN.
LEMMA EntersReady ==
  ASSUME NEW in, Step(in), state' = "READY"
  PROVE  state \in {"SAFE_STARTUP", "SAFE_SHUTDOWN", "READY"}
<1> DEFINE v == Validated(in)
<1> DEFINE detected == Detected(in, v)
<1>1. Advance(v, detected)
  BY DEF Step, LatchFault, HoldFault, AcceptReset
<1> HIDE DEF v, detected
<1>2. ~AdvanceRunning(v)
  BY DEF AdvanceRunning, EnterShutdown, Run, DriveMotor, InhibitMotor, LatchRelayFailure
<1> QED BY <1>1, <1>2 DEF Advance, AdvanceStartup, AdvanceReady, AdvanceShutdown

\* SAFE_STARTUP is never entered by a step.
LEMMA StaysInStartup ==
  ASSUME NEW in, Step(in), state' = "SAFE_STARTUP" PROVE state = "SAFE_STARTUP"
<1> DEFINE v == Validated(in)
<1> DEFINE detected == Detected(in, v)
<1>1. Advance(v, detected)
  BY DEF Step, LatchFault, HoldFault, AcceptReset
<1> HIDE DEF v, detected
<1>2. ~AdvanceRunning(v) /\ ~AdvanceReady(v)
  BY DEF AdvanceRunning, AdvanceReady, EnterShutdown, Run, DriveMotor, InhibitMotor,
         LatchRelayFailure
<1> QED BY <1>1, <1>2 DEF Advance, AdvanceStartup, AdvanceShutdown

\* A sample that reports an accepted reset ends outside the latch.
LEMMA AcceptedLeavesLatch ==
  ASSUME NEW in, Step(in), record'.reset_accepted PROVE state' # "FAULT_LATCHED"
<1> DEFINE v == Validated(in)
<1> DEFINE detected == Detected(in, v)
<1>1. AcceptReset(v, detected) \/ ~record'.reset_accepted \/ state' # "FAULT_LATCHED"
  <2>1. LatchFault(v, detected) \/ HoldFault(v, detected) => ~record'.reset_accepted
    BY DEF LatchFault, KeepSafe, SafeRecord, Record, HoldFault, ResetRecord
  <2>2. Advance(v, detected) => ~record'.reset_accepted \/ state' # "FAULT_LATCHED"
    BY AdvanceCases DEF Run, DriveMotor, InhibitMotor, LatchRelayFailure, SafeRecord, Record
  <2> QED BY <2>1, <2>2 DEF Step
<1> QED BY <1>1 DEF AcceptReset

\* What normalisation refuses is detected as a fault.
LEMMA RefusedIsDetected ==
  ASSUME NEW in, in # Malformed, NEW v
  PROVE  /\ ~ValidSupply(in) => "INVALID_SUPPLY_VOLTAGE" \in Detected(in, v)
         /\ in.requested_motor_voltage_v \notin Int => "INVALID_COMMAND" \in Detected(in, v)
         /\ (\E f \in BooleanFields : in[f] \notin BOOLEAN)
              => "INVALID_RUNTIME_INPUT" \in Detected(in, v)
  BY DEF Detected, InvalidFaults

-----------------------------------------------------------------------------
(* Refinement: the bench implements SafetyInterlock.                       *)

MotorOn == record.motor_command_v # 0

\* The position of the interlock in each state of the bench.
LEMMA Positions ==
  /\ state = "FAULT_LATCHED" => InterlockMode = "latched"
  /\ state = "RUNNING" => InterlockMode = "driving"
  /\ state = "READY" /\ disarmed_seen => InterlockMode = "armed"
  /\ state = "READY" /\ ~disarmed_seen => InterlockMode = "waiting"
  /\ state \in {"SAFE_STARTUP", "SAFE_SHUTDOWN"} => InterlockMode = "off"
  BY DEF InterlockMode

\* The same in the next state.
LEMMA NextPositions ==
  /\ state' = "FAULT_LATCHED" => InterlockMode' = "latched"
  /\ state' = "RUNNING" => InterlockMode' = "driving"
  /\ state' = "READY" /\ disarmed_seen' => InterlockMode' = "armed"
  /\ state' = "READY" /\ ~disarmed_seen' => InterlockMode' = "waiting"
  /\ state' \in {"SAFE_STARTUP", "SAFE_SHUTDOWN"} => InterlockMode' = "off"
  BY DEF InterlockMode

\* Outside RUNNING the motor receives nothing.
LEMMA MotorOffOutsideRunning == ASSUME IInv, state # "RUNNING" PROVE MotorOn = FALSE
  BY DEF IInv, DriveIsConfirmed, MotorOn

\* A step of the interlock, with its definitions in terms of the bench.
InterlockStep ==
  \/ InterlockMode' = "latched" /\ MotorOn' = FALSE
  \/ InterlockMode = "latched" /\ InterlockMode' = "off" /\ MotorOn' = FALSE
  \/ InterlockMode = "off" /\ InterlockMode' = "waiting" /\ MotorOn' = FALSE
  \/ InterlockMode = "waiting" /\ InterlockMode' = "armed" /\ MotorOn' = FALSE
  \/ InterlockMode \in {"armed", "driving"} /\ InterlockMode' = "driving"
  \/ InterlockMode \in {"waiting", "armed", "driving"} /\ InterlockMode' = "off"
     /\ MotorOn' = FALSE
  \/ InterlockMode' = InterlockMode /\ MotorOn' = MotorOn

\* The state machine's steps, read as moves of the interlock.
LEMMA AdvanceMoves ==
  ASSUME IInv, IInv', NEW v, NEW detected, Advance(v, detected)
  PROVE  InterlockStep
<1>1. /\ state # "RUNNING" => MotorOn = FALSE
      /\ state' # "RUNNING" => MotorOn' = FALSE
  BY MotorOffOutsideRunning DEF IInv, DriveIsConfirmed, MotorOn
<1>2. ASSUME Run(v), InterlockMode \in {"armed", "driving"} PROVE InterlockStep
  <2>1. state' = "RUNNING" \/ state' = "FAULT_LATCHED"
    BY <1>2 DEF Run, DriveMotor, InhibitMotor, LatchRelayFailure
  <2> QED BY <1>1, <1>2, <2>1, NextPositions DEF InterlockStep
<1>3. CASE AdvanceStartup(v)
  <2>1. /\ state = "SAFE_STARTUP"
        /\ \/ state' = "READY" /\ disarmed_seen' = FALSE
           \/ state' = state
    BY <1>3 DEF AdvanceStartup
  <2> QED BY <1>1, <2>1, Positions, NextPositions DEF InterlockStep
<1>4. CASE AdvanceReady(v)
  <2>1. /\ state = "READY"
        /\ \/ state' = "SAFE_SHUTDOWN"
           \/ disarmed_seen /\ Run(v)
           \/ state' = "READY" /\ (disarmed_seen => disarmed_seen')
    BY <1>4 DEF AdvanceReady, EnterShutdown
  <2>2. CASE state' = "SAFE_SHUTDOWN"
    BY <1>1, <2>1, <2>2, Positions, NextPositions DEF InterlockStep
  <2>3. CASE disarmed_seen /\ Run(v)
    BY <1>2, <2>1, <2>3, Positions
  <2>4. CASE state' = "READY" /\ (disarmed_seen => disarmed_seen')
    <3>1. CASE disarmed_seen
      BY <1>1, <2>1, <2>4, <3>1, Positions, NextPositions DEF InterlockStep
    <3>2. CASE ~disarmed_seen
      BY <1>1, <2>1, <2>4, <3>2, Positions, NextPositions DEF InterlockStep
    <3> QED BY <3>1, <3>2
  <2> QED BY <2>1, <2>2, <2>3, <2>4
<1>5. CASE AdvanceRunning(v)
  <2>1. state = "RUNNING" /\ (state' = "SAFE_SHUTDOWN" \/ Run(v))
    BY <1>5 DEF AdvanceRunning, EnterShutdown
  <2> QED BY <1>1, <1>2, <2>1, Positions, NextPositions DEF InterlockStep
<1>6. CASE AdvanceShutdown(v)
  <2>1. /\ state = "SAFE_SHUTDOWN"
        /\ \/ state' = "READY" /\ disarmed_seen' = FALSE
           \/ state' = state
    BY <1>6 DEF AdvanceShutdown
  <2> QED BY <1>1, <2>1, Positions, NextPositions DEF InterlockStep
<1> QED BY <1>3, <1>4, <1>5, <1>6 DEF Advance

LEMMA StepMoves == ASSUME IInv, NEW in, Step(in) PROVE InterlockStep
<1>1. IInv'
  BY StepInvariant
<1>2. PICK v \in ValidatedInputs, detected \in SUBSET FaultCode :
        \/ LatchFault(v, detected) \/ HoldFault(v, detected)
        \/ AcceptReset(v, detected) \/ Advance(v, detected)
  BY StepCases
<1>3. state' # "RUNNING" => MotorOn' = FALSE
  BY <1>1 DEF IInv, DriveIsConfirmed, MotorOn
<1>4. CASE LatchFault(v, detected) \/ HoldFault(v, detected)
  BY <1>3, <1>4, NextPositions DEF LatchFault, HoldFault, InterlockStep
<1>5. CASE AcceptReset(v, detected)
  <2>1. state = "FAULT_LATCHED" /\ state' = "SAFE_SHUTDOWN"
    BY <1>5 DEF AcceptReset
  <2> QED BY <1>3, <2>1, Positions, NextPositions DEF InterlockStep
<1>6. CASE Advance(v, detected)
  BY <1>1, <1>6, AdvanceMoves
<1> QED BY <1>2, <1>4, <1>5, <1>6

\* Every behaviour of the supervisor is, through InterlockMode, a behaviour of
\* the abstract interlock: driving is entered only from a ready position that
\* saw its operator let go, and a trip comes back only through off.
THEOREM Refinement == Spec => ImplementsInterlock
<1>1. ASSUME Init PROVE Interlock!Init
  BY <1>1, Positions DEF Init, Interlock!Init, QuietRecord
<1>2. ASSUME IInv, [Next]_bench_vars PROVE [Interlock!Next]_(Interlock!vars)
  <2>1. CASE Next
    <3>1. InterlockStep
      BY <1>2, <2>1, StepMoves DEF Next
    <3> QED
      BY <3>1
      DEF InterlockStep, MotorOn, Interlock!Next, Interlock!vars, Interlock!Trip,
          Interlock!Release, Interlock!BecomeReady, Interlock!LetGo, Interlock!Drive,
          Interlock!Stop
  <2>2. CASE UNCHANGED bench_vars
    BY <2>2 DEF bench_vars, Interlock!vars, InterlockMode
  <2> QED BY <1>2, <2>1, <2>2
<1> QED BY <1>1, <1>2, BenchInvariant, PTL DEF Spec, ImplementsInterlock, Interlock!Spec

=============================================================================
