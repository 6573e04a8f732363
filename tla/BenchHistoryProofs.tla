------------------------- MODULE BenchHistoryProofs -------------------------
(***************************************************************************)
(* Proofs about BenchHistory: how long a restart takes, for every          *)
(* threshold, and what the inputs of the samples before tell of motion and *)
(* of an accepted reset.                                                   *)
(***************************************************************************)
EXTENDS BenchHistory, SupervisorBenchProofs

\* The fault-free samples are as many as the way to RUNNING takes: from the
\* first sample on, through startup, and from the last fault on, through the
\* hold of SAFE_SHUTDOWN.  A fault leaves SAFE_STARTUP for good.
CalmStages ==
  /\ calm \in Nat
  /\ state = "SAFE_STARTUP" => ~faulted /\ (sequence # "NONE" => calm >= startup_healthy + 1)
  /\ state = "SAFE_SHUTDOWN" => calm >= (IF faulted THEN shutdown_hold + 1 ELSE Hold + 1)
  /\ state = "READY" => calm >= Hold + 1
  /\ state = "READY" /\ disarmed_seen => calm >= Hold + 2
  /\ state = "FAULT_LATCHED" => faulted

\* The samples since the relay was on are as many as the way back takes.
DarkStages ==
  /\ dark \in Nat
  /\ state = "SAFE_STARTUP" => ~driven
  /\ driven /\ state = "SAFE_SHUTDOWN" => dark >= shutdown_hold + 1
  /\ driven /\ state = "READY" => dark >= ShutdownSamples + 1
  /\ driven /\ state = "READY" /\ disarmed_seen => dark >= RelayOffSamples

\* Nothing is counted before the encoder gave its baseline.
NoBaseline == sequence = "NONE" => ~liveness /\ startup_healthy = 0

DisarmedKnown == state = "READY" /\ disarmed_seen => disarmed_since

\* Only the latch keeps the encoder's next sequence from being looked at.
EncoderLooked ==
  /\ state \in {"READY", "RUNNING", "SAFE_SHUTDOWN"} => sequence = "SEEN"
  /\ state = "SAFE_STARTUP" => sequence # "ADVANCED"

\* The bench's own count of a silent source is at least the samples driven in
\* that silence: no latch or reset takes anything off it, except that an
\* encoder whose last advance was not looked at starts over, undriven.
DriveCounted ==
  /\ unheard_drive \in [{"encoder", "heartbeat"} -> Nat]
  /\ unheard_drive["heartbeat"] <= missed
  /\ unheard_drive["encoder"] <= IF sequence = "SEEN" THEN stale_age ELSE 0

\* Every calm sample is one of the hold or of the startup.
RecoveryCounted ==
  /\ recovering \in Nat
  /\ recovering > 0 =>
       /\ state \in {"SAFE_STARTUP", "SAFE_SHUTDOWN", "READY"}
       /\ sequence = "SEEN"
       /\ state = "SAFE_STARTUP" => recovering <= startup_healthy + 1
       /\ state = "SAFE_SHUTDOWN" =>
            /\ recovering <= shutdown_hold + 1
            /\ recovering > 1 => shutdown_hold < ShutdownSamples

\* The inductive invariant of the bench with its history.
HistoryInv ==
  /\ IInv
  /\ faulted \in BOOLEAN /\ driven \in BOOLEAN
  /\ CalmStages /\ DarkStages
  /\ NoBaseline
  /\ EncoderLooked
  /\ DriveCounted
  /\ UnheardDriveIsBounded
  /\ RecoveryCounted
  /\ DisarmedKnown
  /\ RestartTakesItsTime
  /\ HeldRequestStartsNothing
  /\ ResetInterlock
  /\ RunningNeedsSoundInput

\* A count that stops at its limit is long enough for both holds.
LEMMA LimitType ==
  /\ CountLimit \in Nat
  /\ CountLimit >= StartupSamples + 3 /\ CountLimit >= ShutdownSamples + 3
  /\ StartupSamples \in Nat /\ ShutdownSamples \in Nat
  BY ConfigAssumption DEF CountLimit, LongerHold

-----------------------------------------------------------------------------
(* The way to RUNNING, one sample at a time.                               *)

\* A sample that ends outside the latch detected nothing, and looked at the
\* encoder.
LEMMA QuietSample ==
  ASSUME NEW in, Step(in), state' # "FAULT_LATCHED"
  PROVE  /\ Detected(in, Validated(in)) = {}
         /\ sequence' = "SEEN"
<1> DEFINE v == Validated(in)
<1>1. Detected(in, v) = {}
  <2>1. \A code : code \notin Detected(in, v)
    BY DetectedLatches
  <2> QED BY <2>1
<1>2. sequence' = NextSequence(v)
  BY DEF Step, Sample
<1> HIDE DEF v
<1>3. ~v.encoder_failed /\ ~v.encoder_invalid
  BY <1>1 DEF Detected
<1> QED BY <1>1, <1>2, <1>3 DEF NextSequence, EncoderUsable, v

\* How the hold, the startup count and READY come about.
LEMMA StageSteps ==
  ASSUME IInv, NoBaseline, NEW in, Step(in), state' # "FAULT_LATCHED"
  PROVE  /\ state' = "SAFE_SHUTDOWN" =>
              /\ shutdown_hold' = 0 \/ (state = "SAFE_SHUTDOWN" /\ shutdown_hold' <= shutdown_hold + 1)
              /\ state # "SAFE_STARTUP"
         /\ state' = "SAFE_STARTUP" =>
              /\ state = "SAFE_STARTUP" /\ startup_healthy' <= startup_healthy + 1
              /\ sequence = "NONE" => startup_healthy' = startup_healthy
         /\ state' = "READY" =>
              \/ state = "READY"
              \/ state = "SAFE_SHUTDOWN" /\ shutdown_hold + 1 >= ShutdownSamples
              \/ /\ state = "SAFE_STARTUP" /\ sequence # "NONE"
                 /\ startup_healthy + 1 >= StartupSamples
<1> DEFINE v == Validated(in)
<1> DEFINE detected == Detected(in, v)
<1>1. AcceptReset(v, detected) \/ Advance(v, detected)
  BY DEF Step, LatchFault, HoldFault
<1>2. /\ shutdown_hold \in Nat /\ startup_healthy \in Nat
      /\ ShutdownSamples \in Nat /\ StartupSamples \in Nat
      /\ sequence = "NONE" => ~liveness /\ ~AdvanceSeen(v)
  BY ConfigAssumption DEF IInv, TypeOK, AdvanceSeen, NoBaseline
<1> HIDE DEF v, detected
<1>3. CASE AcceptReset(v, detected)
  BY <1>3 DEF AcceptReset
<1>4. CASE AdvanceStartup(v)
  <2>1. /\ state = "SAFE_STARTUP"
        /\ startup_healthy' = startup_healthy
           \/ (sequence # "NONE" /\ startup_healthy' = startup_healthy + 1)
    BY <1>2, <1>4, Zenon DEF AdvanceStartup
  <2>2. \/ state' = "READY" /\ startup_healthy' >= StartupSamples
        \/ state' = state
    BY <1>4 DEF AdvanceStartup
  <2>3. state' = "READY" => startup_healthy' # startup_healthy
    BY <1>2, <2>1, <2>2 DEF IInv, StartupPending
  <2> QED BY <1>2, <2>1, <2>2, <2>3
<1>5. CASE AdvanceReady(v)
  BY <1>2, <1>5 DEF AdvanceReady, EnterShutdown, Run, DriveMotor, InhibitMotor, LatchRelayFailure
<1>6. CASE AdvanceRunning(v)
  BY <1>2, <1>6 DEF AdvanceRunning, EnterShutdown, Run, DriveMotor, InhibitMotor, LatchRelayFailure
<1>7. CASE AdvanceShutdown(v)
  BY <1>2, <1>7 DEF AdvanceShutdown, Bump
<1> QED BY <1>1, <1>3, <1>4, <1>5, <1>6, <1>7 DEF Advance

\* One more fault-free sample goes with the bench one stage further.
LEMMA CalmAdvances ==
  ASSUME IInv, NoBaseline, CalmStages, RestartTakesItsTime, faulted \in BOOLEAN,
         NEW in, Step(in), state' # "FAULT_LATCHED", calm' = Bump(calm, CountLimit),
         faulted' = faulted
  PROVE  CalmStages' /\ RestartTakesItsTime'
<1>1. /\ calm \in Nat /\ calm' \in Nat
      /\ calm' = calm + 1 \/ (calm' = calm /\ calm >= CountLimit)
  BY LimitType DEF CalmStages, Bump
<1>2. /\ shutdown_hold \in 0..ShutdownSamples /\ startup_healthy \in 0..StartupSamples
      /\ shutdown_hold' \in 0..ShutdownSamples /\ startup_healthy' \in 0..StartupSamples
  BY StepInvariant DEF IInv, TypeOK
<1>3. /\ Hold' = Hold /\ Hold \in {StartupSamples, ShutdownSamples}
      /\ Hold = IF faulted THEN ShutdownSamples ELSE StartupSamples
  BY DEF Hold
<1>4. state' = "SAFE_STARTUP" => ~faulted' /\ calm' >= startup_healthy' + 1
  <2> SUFFICES ASSUME state' = "SAFE_STARTUP" PROVE ~faulted' /\ calm' >= startup_healthy' + 1
    OBVIOUS
  <2>1. /\ state = "SAFE_STARTUP" /\ startup_healthy' <= startup_healthy + 1
        /\ sequence = "NONE" => startup_healthy' = startup_healthy /\ startup_healthy = 0
    BY StageSteps DEF NoBaseline
  <2>2. ~faulted /\ (sequence # "NONE" => calm >= startup_healthy + 1)
    BY <2>1 DEF CalmStages
  <2> QED BY <1>1, <1>2, <2>1, <2>2, LimitType
<1>5. state' = "SAFE_SHUTDOWN" =>
        calm' >= (IF faulted' THEN shutdown_hold' + 1 ELSE Hold' + 1)
  <2> SUFFICES ASSUME state' = "SAFE_SHUTDOWN"
               PROVE  calm' >= (IF faulted THEN shutdown_hold' + 1 ELSE Hold + 1)
    BY <1>3
  <2>1. shutdown_hold' = 0 \/ (state = "SAFE_SHUTDOWN" /\ shutdown_hold' <= shutdown_hold + 1)
    BY StageSteps
  <2>2. CASE faulted
    <3>1. state = "SAFE_SHUTDOWN" => calm >= shutdown_hold + 1
      BY <2>2 DEF CalmStages
    <3> QED BY <1>1, <1>2, <2>1, <2>2, <3>1, LimitType
  <2>3. CASE ~faulted
    <3>1. state \in {"READY", "RUNNING", "SAFE_SHUTDOWN"}
      BY <2>3, StageSteps DEF CalmStages, IInv, TypeOK, States
    <3>2. calm >= Hold + 1
      BY <1>1, <1>3, <2>3, <3>1, LimitType DEF CalmStages, RestartTakesItsTime, RestartSamples
    <3> QED BY <1>1, <1>3, <2>3, <3>2, LimitType
  <2> QED BY <2>2, <2>3
<1>6. state' = "READY" => calm' >= Hold' + 1
  <2> SUFFICES ASSUME state' = "READY" PROVE calm' >= Hold + 1
    BY <1>3
  <2>1. \/ state = "READY"
        \/ state = "SAFE_SHUTDOWN" /\ shutdown_hold + 1 >= ShutdownSamples
        \/ /\ state = "SAFE_STARTUP" /\ sequence # "NONE"
           /\ startup_healthy + 1 >= StartupSamples
    BY StageSteps
  <2>2. \/ calm >= Hold + 1
        \/ calm >= shutdown_hold + 1 /\ shutdown_hold + 1 >= ShutdownSamples /\ faulted
        \/ calm >= startup_healthy + 1 /\ startup_healthy + 1 >= StartupSamples /\ ~faulted
    BY <2>1 DEF CalmStages
  <2> QED BY <1>1, <1>2, <1>3, <2>2, LimitType
<1>7. state' = "READY" /\ disarmed_seen' => calm' >= Hold' + 2
  <2>1. state' = "READY" /\ disarmed_seen' => calm >= Hold + 1
    BY EntersArmed DEF CalmStages
  <2> QED BY <1>1, <1>3, <2>1, LimitType
<1>8. RestartTakesItsTime'
  <2> SUFFICES ASSUME state' = "RUNNING" PROVE calm' >= Hold + 3
    BY <1>3 DEF RestartTakesItsTime, RestartSamples
  <2>1. state = "RUNNING" \/ (state = "READY" /\ disarmed_seen)
    BY EntersRunning
  <2>2. calm >= Hold + 2
    BY <1>1, <1>3, <2>1, LimitType DEF CalmStages, RestartTakesItsTime, RestartSamples
  <2>3. state = "RUNNING" => calm >= Hold + 3
    BY DEF RestartTakesItsTime, RestartSamples
  <2> QED BY <1>1, <1>3, <2>1, <2>2, <2>3, LimitType
<1> QED BY <1>1, <1>4, <1>5, <1>6, <1>7, <1>8 DEF CalmStages

\* One more sample with the relay off goes with the bench one stage further.
LEMMA DarkAdvances ==
  ASSUME IInv, NoBaseline, DarkStages, NEW in, Step(in),
         state' \notin {"FAULT_LATCHED", "RUNNING"}, dark' = Bump(dark, CountLimit),
         driven' = driven
  PROVE  DarkStages'
<1>1. /\ dark \in Nat /\ dark' \in Nat
      /\ dark' = dark + 1 \/ (dark' = dark /\ dark >= CountLimit)
  BY LimitType DEF DarkStages, Bump
<1>2. shutdown_hold \in 0..ShutdownSamples /\ shutdown_hold' \in 0..ShutdownSamples
  BY StepInvariant DEF IInv, TypeOK
<1>3. state' = "SAFE_STARTUP" => ~driven'
  BY StageSteps DEF DarkStages
<1>4. driven' /\ state' = "SAFE_SHUTDOWN" => dark' >= shutdown_hold' + 1
  <2> SUFFICES ASSUME driven', state' = "SAFE_SHUTDOWN" PROVE dark' >= shutdown_hold' + 1
    OBVIOUS
  <2>1. shutdown_hold' = 0 \/ (state = "SAFE_SHUTDOWN" /\ shutdown_hold' <= shutdown_hold + 1)
    BY StageSteps
  <2>2. state = "SAFE_SHUTDOWN" => dark >= shutdown_hold + 1
    BY DEF DarkStages
  <2> QED BY <1>1, <1>2, <2>1, <2>2, LimitType
<1>5. driven' /\ state' = "READY" => dark' >= ShutdownSamples + 1
  <2> SUFFICES ASSUME driven', state' = "READY" PROVE dark' >= ShutdownSamples + 1
    OBVIOUS
  <2>1. state = "READY" \/ (state = "SAFE_SHUTDOWN" /\ shutdown_hold + 1 >= ShutdownSamples)
    BY StageSteps DEF DarkStages
  <2>2. dark >= ShutdownSamples + 1 \/ (dark >= shutdown_hold + 1 /\ shutdown_hold + 1 >= ShutdownSamples)
    BY <2>1 DEF DarkStages
  <2> QED BY <1>1, <1>2, <2>2, LimitType
<1>6. driven' /\ state' = "READY" /\ disarmed_seen' => dark' >= RelayOffSamples'
  <2> SUFFICES ASSUME driven', state' = "READY", disarmed_seen' PROVE dark' >= ShutdownSamples + 2
    BY DEF RelayOffSamples
  <2>1. dark >= ShutdownSamples + 1
    BY EntersArmed DEF DarkStages
  <2> QED BY <1>1, <2>1, LimitType
<1> QED BY <1>1, <1>3, <1>4, <1>5, <1>6 DEF DarkStages

\* What the record of a sample outside the latch says.
LEMMA QuietRecordFacts ==
  ASSUME NEW in, Step(in), state' # "FAULT_LATCHED"
  PROVE  record'.detected_faults = {}
<1> DEFINE v == Validated(in)
<1> DEFINE detected == Detected(in, v)
<1>1. AcceptReset(v, detected) \/ Advance(v, detected)
  BY DEF Step, LatchFault, HoldFault
<1> HIDE DEF v, detected
<1>2. CASE AcceptReset(v, detected)
  BY <1>2 DEF AcceptReset, ResetRecord
<1>3. CASE Advance(v, detected)
  BY <1>3, AdvanceCases DEF Run, DriveMotor, InhibitMotor, LatchRelayFailure, SafeRecord, Record
<1> QED BY <1>1, <1>2, <1>3

\* A bench enters the latch in a sample that detects something.
LEMMA LatchFaults ==
  ASSUME NEW in, Step(in), state' = "FAULT_LATCHED"
  PROVE  state = "FAULT_LATCHED" \/ record'.detected_faults # {}
<1> DEFINE v == Validated(in)
<1> DEFINE detected == Detected(in, v)
<1>1. LatchFault(v, detected) \/ HoldFault(v, detected) \/ AcceptReset(v, detected)
      \/ Advance(v, detected)
  BY DEF Step
<1> HIDE DEF v, detected
<1>2. CASE LatchFault(v, detected)
  BY <1>2 DEF LatchFault, KeepSafe, SafeRecord, Record
<1>3. CASE HoldFault(v, detected) \/ AcceptReset(v, detected)
  BY <1>3 DEF HoldFault, AcceptReset
<1>4. CASE Advance(v, detected)
  <2>1. ASSUME Run(v) PROVE record'.detected_faults # {}
    BY <2>1 DEF Run, DriveMotor, InhibitMotor, LatchRelayFailure, SafeRecord, Record
  <2> QED
    BY <1>4, <2>1
    DEF Advance, AdvanceStartup, AdvanceReady, AdvanceRunning, AdvanceShutdown, EnterShutdown
<1> QED BY <1>1, <1>2, <1>3, <1>4

-----------------------------------------------------------------------------
(* What a sample without a fault is like.                                  *)

LEMMA SoundSample ==
  ASSUME NEW in, Detected(in, Validated(in)) = {}
  PROVE  LET v == Validated(in) IN
         /\ ~v.estop_active /\ ~v.encoder_failed /\ ~v.encoder_invalid
         /\ v.supply_voltage_v >= UndervoltageThreshold
<1> DEFINE v == Validated(in)
<1>1. in # Malformed /\ InvalidFaults(in) = {}
  BY DEF Detected, InvalidFaults
<1>2. ~v.estop_active /\ ~v.encoder_failed /\ ~v.encoder_invalid
  BY DEF Detected
<1>3. ~(v.supply_voltage_v < UndervoltageThreshold)
  <2>1. ~Undervoltage(in, v)
    BY DEF Detected
  <2> QED BY <1>1, <2>1 DEF Undervoltage
<1>4. v.supply_voltage_v \in Int /\ UndervoltageThreshold \in Int
  BY ValidatedType, ConfigAssumption DEF ValidatedInputs
<1> QED BY <1>2, <1>3, <1>4

LEMMA RunningSample ==
  ASSUME NEW in, Step(in), state' = "RUNNING"
  PROVE  LET v == Validated(in) IN
         /\ v.arm_request /\ v.run_request /\ ~v.shutdown_request
         /\ record'.motor_command_v # 0 => ~v.relay_feedback_failed
<1> DEFINE v == Validated(in)
<1> DEFINE detected == Detected(in, v)
<1>1. Advance(v, detected)
  BY DEF Step, LatchFault, HoldFault, AcceptReset
<1> HIDE DEF v, detected
<1>2. AdvanceReady(v) \/ AdvanceRunning(v)
  BY <1>1 DEF Advance, AdvanceStartup, AdvanceShutdown
<1>3. ~EnterShutdown(v) /\ ~(state = "READY" /\ UNCHANGED state)
  BY DEF EnterShutdown
<1>4. v.arm_request /\ v.run_request /\ ~v.shutdown_request /\ Run(v)
  <2>1. CASE AdvanceReady(v)
    BY <1>3, <2>1, Zenon DEF AdvanceReady
  <2>2. CASE AdvanceRunning(v)
    BY <1>3, <2>2, Zenon DEF AdvanceRunning
  <2> QED BY <1>2, <2>1, <2>2
<1>5. record'.motor_command_v # 0 => ~v.relay_feedback_failed
  BY <1>4 DEF Run, DriveMotor, InhibitMotor, LatchRelayFailure, Record
<1> QED BY <1>4, <1>5 DEF v

LEMMA AcceptedSample ==
  ASSUME NEW in, Step(in), record'.reset_accepted
  PROVE  LET v == Validated(in) IN
         /\ v.reset_request /\ ~v.arm_request /\ ~v.run_request /\ ~v.relay_feedback_failed
         /\ ~record'.reset_rejected
<1> DEFINE v == Validated(in)
<1> DEFINE detected == Detected(in, v)
<1>1. AcceptReset(v, detected)
  <2>1. ~LatchFault(v, detected) /\ ~HoldFault(v, detected)
    BY DEF LatchFault, KeepSafe, SafeRecord, Record, HoldFault, ResetRecord
  <2>2. ~Advance(v, detected)
    BY AdvanceCases DEF Run, DriveMotor, InhibitMotor, LatchRelayFailure, SafeRecord, Record
  <2> QED BY <2>1, <2>2 DEF Step
<1> HIDE DEF v, detected
<1>2. ~record'.reset_rejected
  BY <1>1 DEF AcceptReset, ResetRecord
<1> QED BY <1>1, <1>2 DEF AcceptReset, ResetAllowed, v

-----------------------------------------------------------------------------
(* The inductive invariant.                                                *)

\* A record outside RUNNING leaves the relay off, so its sample is counted.
LEMMA RememberCounts ==
  ASSUME IInv, faulted \in BOOLEAN, driven \in BOOLEAN,
         NEW in, Step(in), Remember(in), state' # "FAULT_LATCHED"
  PROVE  /\ calm' = Bump(calm, CountLimit) /\ faulted' = faulted
         /\ state' # "RUNNING" => dark' = Bump(dark, CountLimit) /\ driven' = driven
<1>1. record'.detected_faults = {}
  BY QuietRecordFacts
<1>2. state' # "RUNNING" => ~record'.relay_enable_command
  BY StepInvariant DEF IInv, DriveIsConfirmed
<1> QED BY <1>1, <1>2 DEF Remember

\* A bench that stays in READY has seen its operator let go by this sample or
\* before it.
LEMMA DisarmedBySample ==
  ASSUME NEW in, Step(in), state = "READY", state' = "READY", disarmed_seen'
  PROVE  disarmed_seen \/ (~Validated(in).arm_request /\ ~Validated(in).run_request)
<1> DEFINE v == Validated(in)
<1> DEFINE detected == Detected(in, v)
<1>1. Advance(v, detected)
  BY DEF Step, LatchFault, HoldFault, AcceptReset
<1> HIDE DEF v, detected
<1>2. AdvanceReady(v)
  BY <1>1 DEF Advance, AdvanceStartup, AdvanceRunning, AdvanceShutdown
<1>3. ~EnterShutdown(v) /\ ~Run(v)
  BY DEF EnterShutdown, Run, DriveMotor, InhibitMotor, LatchRelayFailure
<1> QED BY <1>2, <1>3, Zenon DEF AdvanceReady, v

LEMMA LookKept ==
  ASSUME HistoryInv, NEW in, Step(in) PROVE EncoderLooked'
<1>1. state' # "FAULT_LATCHED" => sequence' = "SEEN"
  BY QuietSample
<1> QED BY <1>1 DEF EncoderLooked

\* The relay is on in the samples that end in RUNNING only.
LEMMA RelayMeansRunning ==
  ASSUME HistoryInv, NEW in, Step(in), record'.relay_enable_command
  PROVE  /\ state' = "RUNNING" /\ state \in {"READY", "RUNNING"}
         /\ missed' < WatchdogSamples /\ stale_age' < EncoderStaleSamples
<1>1. state' = "RUNNING"
  BY StepInvariant DEF HistoryInv, IInv, DriveIsConfirmed
<1>2. missed' < WatchdogSamples /\ stale_age' < EncoderStaleSamples
  BY <1>1, StepInvariant DEF HistoryInv, IInv, DeadlinesHold
<1>3. state \in {"READY", "RUNNING"}
  BY <1>1, EntersRunning
<1> QED BY <1>1, <1>2, <1>3

LEMMA HeartbeatDriveCounted ==
  ASSUME HistoryInv, NEW in, Step(in), Remember(in)
  PROVE  /\ unheard_drive'["heartbeat"] \in Nat
         /\ unheard_drive'["heartbeat"] <= missed'
         /\ unheard_drive'["heartbeat"] < WatchdogSamples
<1> DEFINE v == Validated(in)
<1> DEFINE d == unheard_drive["heartbeat"]
<1>1. /\ missed' = NextMissed(v) /\ missed \in Nat /\ missed' \in Nat
      /\ WatchdogSamples \in Nat \ {0}
      /\ d \in Nat /\ d <= missed /\ d < WatchdogSamples
  <2>1. missed' \in Nat
    BY StepInvariant, ConfigAssumption DEF HistoryInv, IInv, TypeOK
  <2>2. d < WatchdogSamples
    BY DEF HistoryInv, UnheardDriveIsBounded, DriveLimit
  <2> QED
    BY <2>1, <2>2, ConfigAssumption DEF HistoryInv, IInv, TypeOK, DriveCounted, Step, Sample
<1>2. unheard_drive'["heartbeat"] =
        IF v.watchdog_heartbeat THEN 0
        ELSE IF record'.relay_enable_command THEN Bump(d, WatchdogSamples) ELSE d
  BY DEF Remember, Drive, DriveLimit
<1>3. record'.relay_enable_command => missed' < WatchdogSamples
  BY RelayMeansRunning
<1> HIDE DEF v, d
<1>4. CASE v.watchdog_heartbeat
  BY <1>1, <1>2, <1>4
<1>5. CASE ~v.watchdog_heartbeat
  BY <1>1, <1>2, <1>3, <1>5 DEF NextMissed, Bump
<1> QED BY <1>4, <1>5

LEMMA EncoderDriveCounted ==
  ASSUME HistoryInv, NEW in, Step(in), Remember(in)
  PROVE  /\ unheard_drive'["encoder"] \in Nat
         /\ unheard_drive'["encoder"] <= IF sequence' = "SEEN" THEN stale_age' ELSE 0
         /\ unheard_drive'["encoder"] < EncoderStaleSamples
<1> DEFINE v == Validated(in)
<1> DEFINE d == unheard_drive["encoder"]
<1>1. /\ stale_age \in Nat /\ stale_age' \in Nat /\ EncoderStaleSamples \in Nat \ {0}
      /\ d \in Nat /\ d < EncoderStaleSamples
      /\ d <= IF sequence = "SEEN" THEN stale_age ELSE 0
  <2>1. stale_age' \in Nat
    BY StepInvariant, ConfigAssumption DEF HistoryInv, IInv, TypeOK
  <2>2. d < EncoderStaleSamples
    BY DEF HistoryInv, UnheardDriveIsBounded, DriveLimit
  <2> QED BY <2>1, <2>2, ConfigAssumption DEF HistoryInv, IInv, TypeOK, DriveCounted
<1>2. sequence' = NextSequence(v) /\ stale_age' = NextStaleAge(v)
  BY DEF Step, Sample
<1>3. unheard_drive'["encoder"] =
        IF ~v.encoder_stale THEN 0
        ELSE IF record'.relay_enable_command THEN Bump(d, EncoderStaleSamples) ELSE d
  BY DEF Remember, Drive, DriveLimit
<1>4. record'.relay_enable_command => sequence = "SEEN" /\ stale_age' < EncoderStaleSamples
  BY RelayMeansRunning DEF HistoryInv, EncoderLooked
<1>5. record'.relay_enable_command => EncoderUsable(v)
  <2>1. record'.relay_enable_command => Detected(in, v) = {}
    BY RelayMeansRunning, QuietSample
  <2> HIDE DEF v
  <2> QED BY <2>1 DEF Detected, EncoderUsable
<1> HIDE DEF v, d
<1>6. CASE ~v.encoder_stale
  BY <1>1, <1>3, <1>6
<1>7. CASE v.encoder_stale /\ ~EncoderUsable(v)
  <2>1. unheard_drive'["encoder"] = d
    BY <1>3, <1>5, <1>7
  <2>2. sequence' = sequence /\ stale_age' = stale_age
    BY <1>2, <1>7 DEF NextSequence, NextStaleAge, SequenceAdvances
  <2> QED BY <1>1, <2>1, <2>2
<1>8. CASE v.encoder_stale /\ EncoderUsable(v) /\ sequence # "SEEN"
  <2>1. unheard_drive'["encoder"] = d
    BY <1>3, <1>4, <1>8
  <2> QED BY <1>1, <1>8, <2>1
<1>9. CASE v.encoder_stale /\ EncoderUsable(v) /\ sequence = "SEEN"
  <2>1. sequence' = "SEEN" /\ stale_age' = Bump(stale_age, EncoderStaleSamples)
    BY <1>2, <1>9 DEF NextSequence, NextStaleAge, AdvanceSeen, SequenceAdvances
  <2> QED BY <1>1, <1>3, <1>4, <1>9, <2>1 DEF Bump
<1> QED BY <1>6, <1>7, <1>8, <1>9

LEMMA DriveKept ==
  ASSUME HistoryInv, NEW in, Step(in), Remember(in)
  PROVE  DriveCounted' /\ UnheardDriveIsBounded'
<1>1. unheard_drive' = [encoder |-> unheard_drive'["encoder"],
                       heartbeat |-> unheard_drive'["heartbeat"]]
  BY DEF Remember
<1>2. DriveCounted'
  BY <1>1, HeartbeatDriveCounted, EncoderDriveCounted DEF DriveCounted
<1>3. UnheardDriveIsBounded'
  BY HeartbeatDriveCounted, EncoderDriveCounted DEF UnheardDriveIsBounded, DriveLimit
<1> QED BY <1>2, <1>3

-----------------------------------------------------------------------------
(* Recovery.                                                               *)

LEMMA RecoveryType ==
  /\ RecoverySamples \in Nat /\ RecoverySamples >= 2
  /\ StartupSamples < RecoverySamples /\ ShutdownSamples < RecoverySamples
  BY ConfigAssumption DEF RecoverySamples, LongerHold

\* A calm sample detects nothing, and looks at an encoder that has advanced.
LEMMA CalmSample ==
  ASSUME IInv, NEW in, Step(in), Remember(in), CalmInput'
  PROVE  LET v == Validated(in) IN
         /\ Detected(in, v) = {}
         /\ sequence' = "SEEN"
         /\ sequence # "NONE" => AdvanceSeen(v)
         /\ ~v.arm_request /\ ~v.run_request /\ ~v.shutdown_request
         /\ ~v.relay_feedback_failed
<1> DEFINE v == Validated(in)
<1> DEFINE Refused == {"INVALID_RUNTIME_INPUT", "INVALID_SUPPLY_VOLTAGE", "INVALID_COMMAND"}
<1>1. /\ ~v.arm_request /\ ~v.run_request /\ ~v.shutdown_request
      /\ v.watchdog_heartbeat /\ ~v.estop_active
      /\ ~v.encoder_stale /\ ~v.encoder_failed /\ ~v.encoder_invalid
      /\ ~v.relay_feedback_failed /\ v.supply_voltage_v >= UndervoltageThreshold
      /\ record'.detected_faults \cap Refused = {}
  BY DEF Remember, CalmInput
<1>2. InvalidFaults(in) = {}
  <2>1. Detected(in, v) # {} => record'.detected_faults = Detected(in, v)
    BY DEF Step, LatchFault, HoldFault, AcceptReset, ResetAllowed, Advance, KeepSafe,
           SafeRecord, Record, ResetRecord
  <2>2. InvalidFaults(in) \subseteq Detected(in, v) /\ InvalidFaults(in) \subseteq Refused
    BY DEF Detected, InvalidFaults
  <2> QED BY <1>1, <2>1, <2>2
<1>3. /\ v.supply_voltage_v \in Int /\ UndervoltageThreshold \in Int
      /\ WatchdogSamples \in Nat \ {0} /\ EncoderStaleSamples \in Nat \ {0}
      /\ sequence \in {"NONE", "SEEN", "ADVANCED"}
  BY ValidatedType, ConfigAssumption DEF ValidatedInputs, IInv, TypeOK, SequenceRelation
<1> HIDE DEF v, Refused
<1>4. EncoderUsable(v) /\ SequenceAdvances(v)
  BY <1>1 DEF EncoderUsable, SequenceAdvances
<1>5. sequence # "NONE" => AdvanceSeen(v)
  BY <1>3, <1>4 DEF AdvanceSeen
<1>6. NextStaleAge(v) = 0 /\ NextMissed(v) = 0
  BY <1>1, <1>4, <1>5 DEF NextStaleAge, NextMissed
<1>7. Detected(in, v) = {}
  <2>1. ~Undervoltage(in, v) /\ ~WatchdogExpired(v) /\ ~(NextStaleAge(v) >= EncoderStaleSamples)
    BY <1>1, <1>3, <1>6 DEF Undervoltage, WatchdogExpired
  <2> QED BY <1>1, <1>2, <2>1 DEF Detected
<1>8. sequence' = "SEEN"
  <2>1. sequence' = NextSequence(v)
    BY DEF Step, Sample, v
  <2> QED BY <1>4, <2>1 DEF NextSequence
<1> QED BY <1>1, <1>5, <1>7, <1>8 DEF v

\* Where a calm sample leads, from where the latch is left or was not taken.
LEMMA CalmStep ==
  ASSUME IInv, NEW in, Step(in), Remember(in), CalmInput',
         state # "FAULT_LATCHED" \/ Validated(in).reset_request
  PROVE  /\ state' \in {"SAFE_STARTUP", "SAFE_SHUTDOWN", "READY"}
         /\ state = "READY" => state' = "READY"
         /\ state' = "SAFE_STARTUP" => state = "SAFE_STARTUP" /\ startup_healthy' \in Nat
         /\ state' = "SAFE_STARTUP" /\ sequence # "NONE" => startup_healthy' = startup_healthy + 1
         /\ state' = "SAFE_SHUTDOWN" => shutdown_hold' \in Nat
         /\ state \in {"SAFE_STARTUP", "READY"} => state' # "SAFE_SHUTDOWN"
         /\ state = "SAFE_SHUTDOWN" /\ state' = "SAFE_SHUTDOWN" /\ sequence # "NONE" =>
              shutdown_hold' = shutdown_hold + 1 /\ shutdown_hold' < ShutdownSamples
<1> DEFINE v == Validated(in)
<1> DEFINE detected == Detected(in, v)
<1>1. /\ detected = {} /\ ~v.arm_request /\ ~v.run_request /\ ~v.shutdown_request
      /\ ~v.relay_feedback_failed /\ (sequence # "NONE" => AdvanceSeen(v))
  BY CalmSample
<1>2. /\ shutdown_hold \in Nat /\ startup_healthy \in Nat
      /\ ShutdownSamples \in Nat /\ StartupSamples \in Nat
      /\ shutdown_hold' \in Nat /\ startup_healthy' \in Nat
  BY StepInvariant, ConfigAssumption DEF IInv, TypeOK
<1>3. AcceptReset(v, detected) \/ Advance(v, detected)
  <2>1. ~LatchFault(v, detected)
    BY <1>1 DEF LatchFault
  <2>2. ResetAllowed(v, detected)
    BY <1>1 DEF ResetAllowed
  <2>3. ~HoldFault(v, detected)
    BY <2>2 DEF HoldFault
  <2> QED BY <2>1, <2>3 DEF Step
<1> HIDE DEF v, detected
<1>4. CASE AcceptReset(v, detected)
  BY <1>2, <1>4 DEF AcceptReset
<1>5. CASE AdvanceStartup(v)
  <2>1. state = "SAFE_STARTUP" /\ (state' = "READY" \/ state' = state)
    BY <1>5 DEF AdvanceStartup
  <2>2. sequence # "NONE" => startup_healthy' = startup_healthy + 1
    BY <1>1, <1>5, Zenon DEF AdvanceStartup
  <2> QED BY <1>2, <2>1, <2>2
<1>6. CASE AdvanceReady(v)
  BY <1>1, <1>6 DEF AdvanceReady, EnterShutdown, Run, DriveMotor, InhibitMotor, LatchRelayFailure
<1>7. CASE AdvanceRunning(v)
  BY <1>1, <1>2, <1>7
  DEF AdvanceRunning, EnterShutdown, Run, DriveMotor, InhibitMotor, LatchRelayFailure
<1>8. CASE AdvanceShutdown(v)
  <2>1. /\ state = "SAFE_SHUTDOWN" /\ state' \in {"READY", "SAFE_SHUTDOWN"}
        /\ shutdown_hold' = Bump(shutdown_hold, ShutdownSamples)
    BY <1>8 DEF AdvanceShutdown
  <2>2. sequence # "NONE" /\ state' = "SAFE_SHUTDOWN" => ~(shutdown_hold' >= ShutdownSamples)
    BY <1>1, <1>8 DEF AdvanceShutdown
  <2> QED BY <1>2, <2>1, <2>2 DEF Bump
<1> QED BY <1>3, <1>4, <1>5, <1>6, <1>7, <1>8 DEF Advance

LEMMA RecoveryKept ==
  ASSUME HistoryInv, NEW in, Step(in), Remember(in) PROVE RecoveryCounted'
<1> DEFINE v == Validated(in)
<1>1. /\ recovering \in Nat /\ RecoverySamples \in Nat
      /\ shutdown_hold \in Nat /\ startup_healthy \in Nat
  BY RecoveryType, ConfigAssumption DEF HistoryInv, RecoveryCounted, IInv, TypeOK
<1>2. recovering' = IF CalmInput' /\ (recovering > 0 \/ v.reset_request)
                    THEN Bump(recovering, RecoverySamples) ELSE 0
  BY DEF Remember
<1>3. recovering' \in Nat /\ recovering' <= recovering + 1
  BY <1>1, <1>2 DEF Bump
<1> SUFFICES ASSUME recovering' > 0
             PROVE  /\ state' \in {"SAFE_STARTUP", "SAFE_SHUTDOWN", "READY"}
                    /\ sequence' = "SEEN"
                    /\ state' = "SAFE_STARTUP" => recovering' <= startup_healthy' + 1
                    /\ state' = "SAFE_SHUTDOWN" =>
                         /\ recovering' <= shutdown_hold' + 1
                         /\ recovering' > 1 => shutdown_hold' < ShutdownSamples
  BY <1>3 DEF RecoveryCounted
<1>4. CalmInput' /\ (recovering > 0 \/ v.reset_request)
  BY <1>2
<1>5. recovering > 0 =>
        /\ state \in {"SAFE_STARTUP", "SAFE_SHUTDOWN", "READY"} /\ sequence # "NONE"
        /\ state = "SAFE_STARTUP" => recovering <= startup_healthy + 1
        /\ state = "SAFE_SHUTDOWN" => recovering <= shutdown_hold + 1
  BY DEF HistoryInv, RecoveryCounted
<1>6. sequence' = "SEEN"
  BY <1>4, CalmSample DEF HistoryInv
<1>7. state # "FAULT_LATCHED" \/ v.reset_request
  BY <1>4, <1>5
<1>8. IInv
  BY DEF HistoryInv
<1> HIDE DEF v
<1>9. CASE recovering = 0
  BY <1>1, <1>3, <1>4, <1>6, <1>7, <1>8, <1>9, CalmStep DEF v
<1>10. CASE recovering > 0
  <2>1. recovering <= startup_healthy + 1 /\ state' = "SAFE_STARTUP" => recovering' <= startup_healthy' + 1
    BY <1>1, <1>3, <1>4, <1>5, <1>7, <1>8, <1>10, CalmStep DEF v
  <2>2. state' = "SAFE_STARTUP" => state = "SAFE_STARTUP"
    BY <1>4, <1>7, <1>8, CalmStep DEF v
  <2>3. state' = "SAFE_SHUTDOWN" => state = "SAFE_SHUTDOWN"
    BY <1>4, <1>5, <1>7, <1>8, <1>10, CalmStep DEF v
  <2>4. state' = "SAFE_SHUTDOWN" =>
          shutdown_hold' = shutdown_hold + 1 /\ shutdown_hold' < ShutdownSamples
    BY <1>4, <1>5, <1>7, <1>8, <1>10, <2>3, CalmStep DEF v
  <2>5. state' \in {"SAFE_STARTUP", "SAFE_SHUTDOWN", "READY"}
    BY <1>4, <1>7, <1>8, CalmStep DEF v
  <2> QED BY <1>1, <1>3, <1>5, <1>6, <1>10, <2>1, <2>2, <2>3, <2>4, <2>5
<1> QED BY <1>1, <1>9, <1>10

-----------------------------------------------------------------------------
(* The step as a whole.                                                    *)

LEMMA HistoryStep ==
  ASSUME HistoryInv, NEW in, Step(in), Remember(in) PROVE HistoryInv'
<1> DEFINE v == Validated(in)
<1>1. IInv' /\ input' = v
  BY StepInvariant DEF HistoryInv, Remember
<1>2. /\ calm' \in Nat /\ dark' \in Nat
      /\ faulted' \in BOOLEAN /\ driven' \in BOOLEAN
  BY LimitType DEF HistoryInv, CalmStages, DarkStages, Remember, Bump
<1>3. ASSUME state' # "FAULT_LATCHED"
      PROVE  /\ sequence' = "SEEN" /\ calm' = Bump(calm, CountLimit) /\ faulted' = faulted
             /\ state' # "RUNNING" => dark' = Bump(dark, CountLimit) /\ driven' = driven
  BY <1>3, QuietSample, RememberCounts DEF HistoryInv
<1>4. CalmStages' /\ RestartTakesItsTime'
  <2>1. CASE state' = "FAULT_LATCHED"
    <3>1. faulted \/ record'.detected_faults # {}
      BY <2>1, LatchFaults DEF HistoryInv, CalmStages
    <3>2. faulted'
      BY <3>1 DEF Remember, HistoryInv
    <3> QED BY <1>2, <2>1, <3>2 DEF CalmStages, RestartTakesItsTime
  <2>2. CASE state' # "FAULT_LATCHED"
    BY <1>3, <2>2, CalmAdvances DEF HistoryInv
  <2> QED BY <2>1, <2>2
<1>5. DarkStages'
  <2>1. CASE state' \in {"FAULT_LATCHED", "RUNNING"}
    BY <1>2, <2>1 DEF DarkStages
  <2>2. CASE state' \notin {"FAULT_LATCHED", "RUNNING"}
    BY <1>3, <2>2, DarkAdvances DEF HistoryInv
  <2> QED BY <2>1, <2>2
<1>6. NoBaseline'
  <2>1. sequence' = NextSequence(v) /\ liveness' = (liveness \/ AdvanceSeen(v))
    BY DEF Step, Sample
  <2>2. sequence' = "NONE" => sequence = "NONE" /\ ~liveness /\ startup_healthy = 0
    BY <2>1 DEF NextSequence, HistoryInv, NoBaseline
  <2>3. sequence' = "NONE" => ~liveness'
    BY <2>1, <2>2 DEF AdvanceSeen
  <2>4. sequence' = "NONE" => state' = "FAULT_LATCHED"
    BY <1>3
  <2>5. state' = "FAULT_LATCHED" => startup_healthy' = startup_healthy
    <3>1. ASSUME Advance(v, Detected(in, v)), state' = "FAULT_LATCHED"
          PROVE  startup_healthy' = startup_healthy
      BY <3>1
      DEF Advance, AdvanceStartup, AdvanceReady, AdvanceRunning, AdvanceShutdown, EnterShutdown
    <3> QED BY <3>1 DEF Step, LatchFault, HoldFault, AcceptReset
  <2> QED BY <2>2, <2>3, <2>4, <2>5 DEF NoBaseline
<1>7. DisarmedKnown'
  <2> SUFFICES ASSUME state' = "READY", disarmed_seen' PROVE disarmed_since'
    BY DEF DisarmedKnown
  <2>1. state = "READY"
    BY EntersArmed
  <2>2. disarmed_seen \/ (~v.arm_request /\ ~v.run_request)
    BY <2>1, DisarmedBySample
  <2>3. disarmed_since \/ (~v.arm_request /\ ~v.run_request)
    BY <2>1, <2>2 DEF HistoryInv, DisarmedKnown
  <2> QED BY <1>1, <2>1, <2>3 DEF Remember
<1>9. HeldRequestStartsNothing'
  <2> SUFFICES ASSUME state' = "RUNNING" PROVE disarmed_since'
    BY DEF HeldRequestStartsNothing
  <2>1. state = "RUNNING" \/ (state = "READY" /\ disarmed_seen)
    BY EntersRunning
  <2>2. disarmed_since
    BY <2>1 DEF HistoryInv, HeldRequestStartsNothing, DisarmedKnown
  <2> QED BY <2>1, <2>2 DEF Remember
<1>10. ResetInterlock'
  <2> SUFFICES ASSUME record'.reset_accepted PROVE ResetInterlock'
    BY DEF ResetInterlock
  <2>1. Detected(in, v) = {}
    BY AcceptedLeavesLatch, QuietSample
  <2> QED BY <1>1, <2>1, AcceptedSample, SoundSample DEF ResetInterlock
<1>11. RunningNeedsSoundInput'
  <2> SUFFICES ASSUME state' = "RUNNING" PROVE RunningNeedsSoundInput'
    BY DEF RunningNeedsSoundInput
  <2>1. Detected(in, v) = {}
    BY QuietSample
  <2> QED BY <1>1, <2>1, RunningSample, SoundSample DEF RunningNeedsSoundInput
<1> QED
  BY <1>1, <1>2, <1>4, <1>5, <1>6, <1>7, <1>9, <1>10, <1>11, LookKept, DriveKept, RecoveryKept
  DEF HistoryInv

LEMMA HistoryInitInvariant == ASSUME HistoryInit PROVE HistoryInv
<1>1. IInv
  BY InitInvariant DEF HistoryInit
<1>2. /\ state = "SAFE_STARTUP" /\ sequence = "NONE" /\ calm = 0 /\ dark = 0
      /\ faulted = FALSE /\ driven = FALSE
      /\ startup_healthy = 0 /\ ~liveness /\ record = QuietRecord
  BY DEF HistoryInit, Init
<1>3. ResetInterlock
  BY <1>2 DEF ResetInterlock, QuietRecord
<1>4. DriveCounted /\ UnheardDriveIsBounded
  BY <1>2, ConfigAssumption
  DEF HistoryInit, Init, IInv, TypeOK, DriveCounted, UnheardDriveIsBounded, DriveLimit
<1>5. EncoderLooked /\ RecoveryCounted
  BY <1>2 DEF HistoryInit, EncoderLooked, RecoveryCounted
<1> QED
  BY <1>1, <1>2, <1>3, <1>4, <1>5
  DEF HistoryInv, CalmStages, DarkStages, NoBaseline, DisarmedKnown, RestartTakesItsTime,
      HeldRequestStartsNothing, RunningNeedsSoundInput

LEMMA HistoryStepInvariant == ASSUME HistoryInv, [HistoryNext]_vars PROVE HistoryInv'
<1>1. CASE HistoryNext
  BY <1>1, HistoryStep DEF HistoryNext
<1>2. CASE UNCHANGED vars
  <2>1. IInv'
    BY <1>2
    DEF HistoryInv, vars, IInv, TypeOK, FaultForcesSafeOutput, LatchMatchesState,
        DriveIsConfirmed, ReadyNeedsLiveness, DeadlinesHold, StartupPending
  <2> QED
    BY <1>2, <2>1
    DEF HistoryInv, vars, CalmStages, DarkStages, Hold, NoBaseline, DisarmedKnown,
        RestartTakesItsTime, HeldRequestStartsNothing, ResetInterlock, RunningNeedsSoundInput,
        RestartSamples,
        EncoderLooked, DriveCounted, UnheardDriveIsBounded, DriveLimit, RecoveryCounted
<1> QED BY <1>1, <1>2

-----------------------------------------------------------------------------
(* Theorems.                                                               *)

\* After a fault RUNNING is at least the whole recovery sequence away, and the
\* whole startup after construction, for all lengths of either hold.
THEOREM RestartTime == HistorySpec => []RestartTakesItsTime
<1>1. HistoryInv => RestartTakesItsTime
  BY DEF HistoryInv
<1> QED BY <1>1, HistoryInitInvariant, HistoryStepInvariant, PTL DEF HistorySpec

\* After the relay went off RUNNING is the shutdown hold and a disarmed sample
\* away, however short the startup is.
THEOREM RelayOffTime == HistorySpec => RelayStaysOff
<1>1. ASSUME HistoryInv, HistoryNext, driven, state # "RUNNING", state' = "RUNNING"
      PROVE  dark >= RelayOffSamples
  <2>1. PICK in : Step(in)
    BY <1>1 DEF HistoryNext
  <2>2. state = "READY" /\ disarmed_seen
    BY <1>1, <2>1, EntersRunning
  <2> QED BY <1>1, <2>2 DEF HistoryInv, DarkStages
<1>2. ASSUME HistoryInv, [HistoryNext]_vars
      PROVE  [driven /\ state # "RUNNING" /\ state' = "RUNNING" => dark >= RelayOffSamples]_vars
  BY <1>1, <1>2
<1> QED
  BY <1>2, HistoryInitInvariant, HistoryStepInvariant, PTL DEF HistorySpec, RelayStaysOff

\* A request that is held starts nothing.
THEOREM HeldRequest == HistorySpec => []HeldRequestStartsNothing
<1>1. HistoryInv => HeldRequestStartsNothing
  BY DEF HistoryInv
<1> QED BY <1>1, HistoryInitInvariant, HistoryStepInvariant, PTL DEF HistorySpec

\* An accepted reset had none of the conditions that forbid it.
THEOREM ResetConditions == HistorySpec => []ResetInterlock
<1>1. HistoryInv => ResetInterlock
  BY DEF HistoryInv
<1> QED BY <1>1, HistoryInitInvariant, HistoryStepInvariant, PTL DEF HistorySpec

\* The sample of a state RUNNING is sound, and drives over a confirmed relay.
THEOREM RunningIsSound == HistorySpec => []RunningNeedsSoundInput
<1>1. HistoryInv => RunningNeedsSoundInput
  BY DEF HistoryInv
<1> QED BY <1>1, HistoryInitInvariant, HistoryStepInvariant, PTL DEF HistorySpec

\* An operator who asks for a reset in calm is in READY within the longer of
\* the two holds and one sample, for all thresholds and from wherever the bench
\* was: the bound behind the liveness property RecoveryPossible.
THEOREM RecoveryTime == HistorySpec => []RecoveryTakesBoundedTime
<1>1. ASSUME HistoryInv PROVE RecoveryTakesBoundedTime
  <2> SUFFICES ASSUME recovering >= RecoverySamples PROVE state = "READY"
    BY DEF RecoveryTakesBoundedTime
  <2>1. /\ recovering \in Nat /\ recovering > 1
        /\ startup_healthy \in Nat /\ shutdown_hold \in Nat
        /\ StartupSamples \in Nat /\ ShutdownSamples \in Nat /\ RecoverySamples \in Nat
    BY <1>1, RecoveryType, ConfigAssumption DEF HistoryInv, RecoveryCounted, IInv, TypeOK
  <2>2. state # "SAFE_STARTUP"
    BY <1>1, <2>1, RecoveryType DEF HistoryInv, RecoveryCounted, IInv, StartupPending
  <2>3. state # "SAFE_SHUTDOWN"
    BY <1>1, <2>1, RecoveryType DEF HistoryInv, RecoveryCounted
  <2> QED BY <1>1, <2>1, <2>2, <2>3 DEF HistoryInv, RecoveryCounted
<1> QED BY <1>1, HistoryInitInvariant, HistoryStepInvariant, PTL DEF HistorySpec

\* A source that fell silent is driven on for less than its deadline in all,
\* for every deadline, until it is heard again: the bound behind the liveness
\* property SilenceStopsMotor.
THEOREM UnheardDrive == HistorySpec => []UnheardDriveIsBounded
<1>1. HistoryInv => UnheardDriveIsBounded
  BY DEF HistoryInv
<1> QED BY <1>1, HistoryInitInvariant, HistoryStepInvariant, PTL DEF HistorySpec

=============================================================================
