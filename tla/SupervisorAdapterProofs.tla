---------------------- MODULE SupervisorAdapterProofs ----------------------
(***************************************************************************)
(* Proofs about SupervisorAdapter.  The adapter calls the bench with the   *)
(* sample it builds from its retained frames; what SupervisorBenchProofs   *)
(* shows of one call of step therefore holds of every tick, and what       *)
(* remains is what the frames make of the sample.                          *)
(***************************************************************************)
EXTENDS SupervisorAdapter, SupervisorBenchProofs

\* What the adapter's flags say of its frames, and what a bench that was never
\* given an encoder frame knows of the encoder.
FramesKnown ==
  /\ updated["safety"] => safety # NoFrame
  /\ updated["encoder"] => encoder # NoFrame
  /\ encoder = NoFrame => ~liveness /\ sequence # "ADVANCED"
  /\ state = "RUNNING" => command # NoFrame

\* The heartbeats missed so far, of which the count keeps no more than its
\* threshold.
MissedAtLeast(n) == missed >= n \/ missed >= WatchdogSamples

\* Each step towards RUNNING takes a sample of its own: a bench whose watchdog
\* owner was never heard misses a heartbeat at every one of them.
UnheardOwner ==
  safety = NoFrame =>
    /\ sequence # "NONE" => MissedAtLeast(1)
    /\ liveness => MissedAtLeast(2)
    /\ state = "READY" /\ disarmed_seen => MissedAtLeast(3)
    /\ state = "RUNNING" => MissedAtLeast(4)

\* The inductive invariant of the adapter.
AdapterInv == IInv /\ AdapterTypeOK /\ FramesKnown /\ UnheardOwner

-----------------------------------------------------------------------------
(* The sample of a tick.                                                   *)

LEMMA FrameTypes ==
  ASSUME AdapterTypeOK
  PROVE  /\ command # NoFrame => command \in CommandFrame
         /\ encoder # NoFrame => encoder \in EncoderFrame
         /\ safety # NoFrame => safety \in SafetyFrame
  BY AdapterAssumption DEF AdapterTypeOK

\* A step of the bench takes what _build_inputs makes of the frames.
LEMMA TickSteps == ASSUME NEW reset, Tick(reset) PROVE Step(BuildInputs(reset))
  BY DEF Tick

\* _build_inputs builds a sample, whatever was accepted.
LEMMA BuildsSample ==
  ASSUME AdapterInv, NEW reset \in BOOLEAN
  PROVE  BuildInputs(reset) \in SupervisorInputs
<1>1. /\ command # NoFrame => command \in CommandFrame
      /\ encoder # NoFrame => encoder \in EncoderFrame
      /\ safety # NoFrame => safety \in SafetyFrame
  BY FrameTypes DEF AdapterInv
<1>2. updated \in [Telemetry -> BOOLEAN] /\ protocol_invalid \in [Channels -> BOOLEAN]
  BY DEF AdapterInv, AdapterTypeOK
<1> DEFINE Field == BOOLEAN \cup {Malformed}
<1>3. /\ CommandPart.arm \in Field /\ CommandPart.run \in Field
      /\ CommandPart.shutdown \in Field /\ CommandPart.voltage \in Int \cup {Malformed}
  <2>1. CASE command = NoFrame
    BY <2>1 DEF CommandPart
  <2>2. CASE command # NoFrame /\ CommandStale
    BY <2>2 DEF CommandPart
  <2>3. CASE command # NoFrame /\ ~CommandStale
    BY <1>1, <2>3 DEF CommandPart, CommandFrame
  <2> QED BY <2>1, <2>2, <2>3
<1>4. EncoderStale \in Field
  BY <1>2 DEF EncoderStale, Telemetry
<1>5. EncoderFailed \in Field
  BY <1>1 DEF EncoderFailed, EncoderFrame
<1>6. EncoderInvalid \in Field
  BY DEF EncoderInvalid
<1>7. Heartbeat \in Field
  BY <1>1 DEF AdapterInv, FramesKnown, Heartbeat, SafetyFrame
<1>8. RelayFeedbackFailed \in Field
  BY <1>1 DEF RelayFeedbackFailed, SafetyFrame
<1>9. (IF safety = NoFrame THEN FALSE ELSE safety.software_estop_active) \in Field
  BY <1>1 DEF SafetyFrame
<1>10. (IF protocol_invalid["safety"] THEN Malformed
        ELSE IF safety = NoFrame THEN NominalSupply ELSE safety.supply_voltage_v)
         \in Int \cup {Malformed}
  BY <1>1, ConfigAssumption DEF SafetyFrame
<1>11. (IF protocol_invalid["command"] THEN Malformed ELSE CommandPart.voltage)
         \in Int \cup {Malformed}
  BY <1>3
<1> HIDE DEF Field
<1>12. reset \in Field
  BY DEF Field
<1>13. BuildInputs(reset) \in
         [supply_voltage_v : Int \cup {Malformed},
          requested_motor_voltage_v : Int \cup {Malformed},
          arm_request : Field, run_request : Field, shutdown_request : Field,
          reset_request : Field, watchdog_heartbeat : Field, estop_active : Field,
          encoder_stale : Field, encoder_failed : Field, encoder_invalid : Field,
          relay_feedback_failed : Field]
  BY <1>3, <1>4, <1>5, <1>6, <1>7, <1>8, <1>9, <1>10, <1>11, <1>12, Zenon DEF BuildInputs
<1> QED BY <1>13 DEF SupervisorInputs, Field

-----------------------------------------------------------------------------
(* The inductive invariant.                                                *)

\* The invariant of the bench depends on the bench alone.
LEMMA BenchUnchanged == ASSUME IInv, UNCHANGED bench_vars PROVE IInv'
  BY DEF bench_vars, IInv, TypeOK, FaultForcesSafeOutput, LatchMatchesState,
         DriveIsConfirmed, ReadyNeedsLiveness, DeadlinesHold, StartupPending

\* A frame on any channel leaves the bench alone.
LEMMA IngestKeepsInvariant == ASSUME AdapterInv, Ingest PROVE AdapterInv'
<1>1. UNCHANGED bench_vars
  BY DEF Ingest, IngestCommand, IngestEncoder, IngestSafety
<1>2. IInv'
  BY <1>1, BenchUnchanged DEF AdapterInv
<1>3. TypeOK'
  BY <1>2 DEF IInv
<1>4. /\ updated \in [Telemetry -> BOOLEAN] /\ protocol_invalid \in [Channels -> BOOLEAN]
      /\ CommandStaleSamples \in Nat
  BY AdapterAssumption DEF AdapterInv, AdapterTypeOK
<1>5. ASSUME NEW frame \in CommandFrames, NEW delta, IngestCommand(frame, delta)
      PROVE  AdapterInv'
  <2>1. command' \in CommandFrames \cup {NoFrame} /\ command_age' \in 0..CommandStaleSamples
    BY <1>4, <1>5 DEF IngestCommand, AdapterInv, AdapterTypeOK
  <2>2. protocol_invalid' \in [Channels -> BOOLEAN]
    BY <1>4, <1>5 DEF IngestCommand, MarkInvalid, Violation
  <2>3. FramesKnown'
    BY <1>1, <1>5, AdapterAssumption DEF AdapterInv, FramesKnown, IngestCommand, bench_vars
  <2>4. UnheardOwner'
    BY <1>1, <1>5 DEF AdapterInv, UnheardOwner, MissedAtLeast, IngestCommand, bench_vars
  <2> QED
    BY <1>1, <1>2, <1>3, <1>5, <2>1, <2>2, <2>3, <2>4
    DEF AdapterInv, AdapterTypeOK, IngestCommand
<1>6. ASSUME NEW frame \in EncoderFrames, NEW delta, IngestEncoder(frame, delta)
      PROVE  AdapterInv'
  <2>1. encoder' \in EncoderFrames \cup {NoFrame}
    BY <1>6 DEF IngestEncoder, AdapterInv, AdapterTypeOK
  <2>2. /\ protocol_invalid' \in [Channels -> BOOLEAN]
        /\ updated' \in [Telemetry -> BOOLEAN]
    BY <1>4, <1>6 DEF IngestEncoder, MarkInvalid, MarkUpdated, Violation
  <2>3. frame # NoFrame
    BY AdapterAssumption
  <2>4. FramesKnown'
    BY <1>1, <1>4, <1>6, <2>3
    DEF AdapterInv, FramesKnown, IngestEncoder, MarkUpdated, Telemetry, bench_vars
  <2>5. UnheardOwner'
    BY <1>1, <1>6, <2>3 DEF AdapterInv, UnheardOwner, MissedAtLeast, IngestEncoder, bench_vars
  <2> QED
    BY <1>2, <1>3, <1>6, <2>1, <2>2, <2>4, <2>5 DEF AdapterInv, AdapterTypeOK, IngestEncoder
<1>7. ASSUME NEW frame \in SafetyFrames, NEW delta, IngestSafety(frame, delta)
      PROVE  AdapterInv'
  <2>1. safety' \in SafetyFrames \cup {NoFrame}
    BY <1>7 DEF IngestSafety, AdapterInv, AdapterTypeOK
  <2>2. /\ protocol_invalid' \in [Channels -> BOOLEAN]
        /\ updated' \in [Telemetry -> BOOLEAN]
    BY <1>4, <1>7 DEF IngestSafety, MarkInvalid, MarkUpdated, Violation
  <2>3. frame # NoFrame
    BY AdapterAssumption
  <2>4. FramesKnown'
    BY <1>1, <1>4, <1>7, <2>3
    DEF AdapterInv, FramesKnown, IngestSafety, MarkUpdated, Telemetry, bench_vars
  <2>5. UnheardOwner'
    BY <1>1, <1>7, <2>3 DEF AdapterInv, UnheardOwner, MissedAtLeast, IngestSafety, bench_vars
  <2> QED
    BY <1>2, <1>3, <1>7, <2>1, <2>2, <2>4, <2>5 DEF AdapterInv, AdapterTypeOK, IngestSafety
<1> QED BY <1>5, <1>6, <1>7 DEF Ingest

\* A sample without a new encoder frame advances no sequence.
LEMMA StaleSampleStays ==
  ASSUME NEW reset, ~updated["encoder"]
  PROVE  ~SequenceAdvances(Validated(BuildInputs(reset)))
<1>1. Validated(BuildInputs(reset)).encoder_stale = TRUE
  <2>1. BuildInputs(reset).encoder_stale = TRUE
    BY DEF BuildInputs, EncoderStale
  <2> QED BY <2>1 DEF Validated, BooleanOr
<1> QED BY <1>1 DEF SequenceAdvances

\* A request to arm comes from a command frame that is not stale.
LEMMA ArmedByFrame ==
  ASSUME NEW reset, Validated(BuildInputs(reset)).arm_request
  PROVE  command # NoFrame /\ ~CommandStale
<1>1. BuildInputs(reset).arm_request = TRUE
  BY DEF Validated, BooleanOr
<1> QED BY <1>1 DEF BuildInputs, CommandPart

\* A sample without a new safety frame misses a heartbeat.
LEMMA UnheardSampleMisses ==
  ASSUME TypeOK, NEW reset, ~updated["safety"], Step(BuildInputs(reset)), NEW n \in Nat
  PROVE  MissedAtLeast(n) => MissedAtLeast(n + 1)'
<1> DEFINE v == Validated(BuildInputs(reset))
<1>1. v.watchdog_heartbeat = FALSE
  <2>1. BuildInputs(reset).watchdog_heartbeat = FALSE
    BY DEF BuildInputs, Heartbeat
  <2> QED BY <2>1 DEF Validated, BooleanOr
<1>2. missed' = Bump(missed, WatchdogSamples)
  BY <1>1 DEF Step, Sample, NextMissed
<1> QED BY <1>2, ConfigAssumption DEF TypeOK, Bump, MissedAtLeast

LEMMA TickKeepsUnheardOwner ==
  ASSUME AdapterInv, NEW reset, Tick(reset) PROVE UnheardOwner'
<1> DEFINE v == Validated(BuildInputs(reset))
<1>1. Step(BuildInputs(reset)) /\ IInv'
  BY TickSteps, StepInvariant DEF AdapterInv
<1> SUFFICES ASSUME safety = NoFrame
             PROVE  /\ sequence' # "NONE" => MissedAtLeast(1)'
                    /\ liveness' => MissedAtLeast(2)'
                    /\ state' = "READY" /\ disarmed_seen' => MissedAtLeast(3)'
                    /\ state' = "RUNNING" => MissedAtLeast(4)'
  BY DEF UnheardOwner, Tick, frame_vars
<1>2. TypeOK /\ ~updated["safety"]
  BY DEF AdapterInv, FramesKnown, IInv
<1>3. /\ MissedAtLeast(0) => MissedAtLeast(1)'
      /\ MissedAtLeast(1) => MissedAtLeast(2)'
      /\ MissedAtLeast(2) => MissedAtLeast(3)'
      /\ MissedAtLeast(3) => MissedAtLeast(4)'
      /\ MissedAtLeast(4) => MissedAtLeast(5)'
  <2>1. \A n \in Nat : MissedAtLeast(n) => MissedAtLeast(n + 1)'
    BY <1>1, <1>2, UnheardSampleMisses
  <2> QED BY <2>1
<1>4. MissedAtLeast(0) /\ (MissedAtLeast(5)' => MissedAtLeast(4)')
           /\ (MissedAtLeast(3)' => MissedAtLeast(2)')
  <2>1. missed \in Nat /\ missed' \in Nat
    BY <1>1, ConfigAssumption DEF AdapterInv, IInv, TypeOK
  <2> QED BY <2>1, ConfigAssumption DEF MissedAtLeast
<1>5. /\ sequence # "NONE" => MissedAtLeast(1)
      /\ liveness => MissedAtLeast(2)
      /\ state = "READY" /\ disarmed_seen => MissedAtLeast(3)
      /\ state = "RUNNING" => MissedAtLeast(4)
      /\ state \in {"READY", "RUNNING"} => liveness
  BY DEF AdapterInv, UnheardOwner, IInv, ReadyNeedsLiveness
<1>6. liveness' => liveness \/ sequence # "NONE"
  BY <1>1 DEF Step, Sample, AdvanceSeen
<1>7. state' = "READY" /\ disarmed_seen' => state = "READY"
  BY <1>1, EntersArmed
<1>8. state' = "RUNNING" => state = "RUNNING" \/ (state = "READY" /\ disarmed_seen)
  BY <1>1, EntersRunning
<1> QED BY <1>3, <1>4, <1>5, <1>6, <1>7, <1>8

LEMMA TickKeepsInvariant ==
  ASSUME AdapterInv, NEW reset, Tick(reset) PROVE AdapterInv'
<1> DEFINE v == Validated(BuildInputs(reset))
<1>1. Step(BuildInputs(reset)) /\ IInv'
  BY TickSteps, StepInvariant DEF AdapterInv
<1>2. UNCHANGED frame_vars
  BY DEF Tick
<1>3. command_age' \in 0..CommandStaleSamples
  BY AdapterAssumption, BumpType DEF AdapterInv, AdapterTypeOK, Tick
<1>4. /\ updated' \in [Telemetry -> BOOLEAN] /\ protocol_invalid' \in [Channels -> BOOLEAN]
      /\ updated' = [c \in Telemetry |-> FALSE]
  BY DEF Tick
<1>5. encoder = NoFrame => ~liveness' /\ sequence' # "ADVANCED"
  <2> SUFFICES ASSUME encoder = NoFrame PROVE ~liveness' /\ sequence' # "ADVANCED"
    OBVIOUS
  <2>1. ~updated["encoder"] /\ ~liveness /\ sequence # "ADVANCED"
    BY DEF AdapterInv, FramesKnown
  <2>2. ~SequenceAdvances(v)
    BY <2>1, StaleSampleStays
  <2>3. sequence' = NextSequence(v) /\ liveness' = (liveness \/ AdvanceSeen(v))
    BY <1>1 DEF Step, Sample
  <2> HIDE DEF v
  <2>4. ~AdvanceSeen(v)
    BY <2>1, <2>2 DEF AdvanceSeen
  <2>5. NextSequence(v) # "ADVANCED"
    BY <2>1, <2>2 DEF NextSequence
  <2> QED BY <2>1, <2>3, <2>4, <2>5
<1>6. state' = "RUNNING" => command # NoFrame
  BY <1>1, EntersRunning, ArmedByFrame
<1>7. FramesKnown'
  BY <1>2, <1>4, <1>5, <1>6 DEF FramesKnown, frame_vars, Telemetry
<1>8. UnheardOwner'
  BY TickKeepsUnheardOwner
<1> QED
  BY <1>1, <1>2, <1>3, <1>4, <1>7, <1>8 DEF AdapterInv, AdapterTypeOK, IInv, frame_vars

LEMMA AdapterInitInvariant == ASSUME AdapterInit PROVE AdapterInv
<1>1. IInv /\ TypeOK
  BY InitInvariant DEF AdapterInit, IInv
<1>2. /\ updated = [c \in Telemetry |-> FALSE]
      /\ protocol_invalid = [c \in Channels |-> FALSE]
      /\ ~liveness /\ sequence = "NONE"
  BY DEF AdapterInit, Init
<1>3. command_age \in 0..CommandStaleSamples
  BY AdapterAssumption DEF AdapterInit
<1>4. FramesKnown /\ UnheardOwner
  BY <1>2 DEF FramesKnown, UnheardOwner, Telemetry, AdapterInit, Init
<1> QED BY <1>1, <1>2, <1>3, <1>4 DEF AdapterInv, AdapterTypeOK, AdapterInit

LEMMA AdapterStutter == ASSUME AdapterInv, UNCHANGED all_vars PROVE AdapterInv'
<1>1. UNCHANGED bench_vars /\ UNCHANGED adapter_vars
  BY DEF all_vars
<1>2. IInv' /\ TypeOK'
  BY <1>1, BenchUnchanged DEF AdapterInv, IInv
<1> QED
  BY <1>1, <1>2
  DEF AdapterInv, AdapterTypeOK, FramesKnown, UnheardOwner, MissedAtLeast, adapter_vars,
      bench_vars

LEMMA AdapterStepInvariant == ASSUME AdapterInv, [AdapterNext]_all_vars PROVE AdapterInv'
  BY IngestKeepsInvariant, TickKeepsInvariant, AdapterStutter DEF AdapterNext, ResetTick

\* Frames of any content, in any order and number between the ticks, keep the
\* adapter and its bench within their types.
THEOREM AdapterTypes == AdapterSpec => []AdapterTypeOK
<1>1. AdapterInv => AdapterTypeOK
  BY DEF AdapterInv
<1> QED BY <1>1, AdapterInitInvariant, AdapterStepInvariant, PTL DEF AdapterSpec

-----------------------------------------------------------------------------
(* Broken protocol and malformed fields.                                   *)

\* A sample of the adapter is one, whatever Malformed stands for.
LEMMA SampleIsNoGarbage ==
  ASSUME AdapterInv, NEW reset \in BOOLEAN PROVE BuildInputs(reset) # Malformed
  BY BuildsSample, InputAssumption

\* A channel that broke the protocol faults the next sample.
LEMMA ViolationIsDetected ==
  ASSUME AdapterInv, NEW reset \in BOOLEAN, NEW c \in Channels, protocol_invalid[c]
  PROVE  LET in == BuildInputs(reset)
             detected == Detected(in, Validated(in)) IN
         CASE c = "command" -> "INVALID_COMMAND" \in detected
           [] c = "encoder" -> "ENCODER_INVALID" \in detected
           [] c = "safety"  -> "INVALID_SUPPLY_VOLTAGE" \in detected
<1> DEFINE in == BuildInputs(reset)
<1> DEFINE v == Validated(in)
<1>1. in # Malformed
  BY SampleIsNoGarbage
<1>2. Malformed \notin Int
  BY InputAssumption
<1>3. ASSUME c = "command" PROVE "INVALID_COMMAND" \in Detected(in, v)
  <2>1. in.requested_motor_voltage_v = Malformed
    BY <1>3 DEF BuildInputs
  <2> QED BY <1>1, <1>2, <2>1, RefusedIsDetected
<1>4. ASSUME c = "encoder" PROVE "ENCODER_INVALID" \in Detected(in, v)
  <2>1. in.encoder_invalid = TRUE
    BY <1>4 DEF BuildInputs, EncoderInvalid
  <2>2. v.encoder_invalid = TRUE
    BY <2>1 DEF Validated, BooleanOr
  <2> QED BY <2>2 DEF Detected
<1>5. ASSUME c = "safety" PROVE "INVALID_SUPPLY_VOLTAGE" \in Detected(in, v)
  <2>1. in.supply_voltage_v = Malformed
    BY <1>5 DEF BuildInputs
  <2>2. ~ValidSupply(in)
    BY <1>2, <2>1 DEF ValidSupply
  <2> QED BY <1>1, <2>2, RefusedIsDetected
<1> QED BY <1>3, <1>4, <1>5 DEF Channels

\* A step that takes a channel's mark back.
MarkCleared ==
  \A c \in Channels :
    protocol_invalid[c] /\ ~protocol_invalid'[c] =>
      /\ state' = "FAULT_LATCHED"
      /\ CASE c = "command" -> "INVALID_COMMAND" \in latched'
           [] c = "encoder" -> "ENCODER_INVALID" \in latched'
           [] c = "safety"  -> "INVALID_SUPPLY_VOLTAGE" \in latched'
      /\ SafeOutput(record')

LEMMA IngestKeepsMarks ==
  ASSUME AdapterInv, Ingest, NEW c \in Channels, protocol_invalid[c]
  PROVE  protocol_invalid'[c]
<1>1. protocol_invalid \in [Channels -> BOOLEAN]
  BY DEF AdapterInv, AdapterTypeOK
<1>2. \E channel \in Channels : \E disposition : MarkInvalid(channel, disposition)
  BY DEF Ingest, IngestCommand, IngestEncoder, IngestSafety, Channels
<1> QED BY <1>1, <1>2 DEF MarkInvalid

LEMMA StepClearsMarks == ASSUME AdapterInv, AdapterNext PROVE MarkCleared
<1>1. CASE Ingest
  BY <1>1, IngestKeepsMarks DEF MarkCleared
<1>2. ASSUME NEW reset \in BOOLEAN, Tick(reset) PROVE MarkCleared
  <2> DEFINE in == BuildInputs(reset)
  <2>1. Step(in)
    BY <1>2, TickSteps
  <2> SUFFICES ASSUME NEW c \in Channels, protocol_invalid[c]
               PROVE  /\ state' = "FAULT_LATCHED"
                      /\ CASE c = "command" -> "INVALID_COMMAND" \in latched'
                           [] c = "encoder" -> "ENCODER_INVALID" \in latched'
                           [] c = "safety"  -> "INVALID_SUPPLY_VOLTAGE" \in latched'
                      /\ SafeOutput(record')
    BY DEF MarkCleared
  <2>2. CASE c = "command"
    BY <1>2, <2>1, <2>2, ViolationIsDetected, DetectedLatches
  <2>3. CASE c = "encoder"
    BY <1>2, <2>1, <2>3, ViolationIsDetected, DetectedLatches
  <2>4. CASE c = "safety"
    BY <1>2, <2>1, <2>4, ViolationIsDetected, DetectedLatches
  <2> QED BY <2>2, <2>3, <2>4 DEF Channels
<1> QED BY <1>1, <1>2 DEF AdapterNext, ResetTick

\* A protocol violation is forgotten only by a sample that latches the fault
\* of its channel, whatever frames follow it.
THEOREM ViolationsLatch == AdapterSpec => ViolationLatches
<1>1. ASSUME AdapterInv, [AdapterNext]_all_vars PROVE [MarkCleared]_all_vars
  BY <1>1, StepClearsMarks
<1> QED
  BY <1>1, AdapterInitInvariant, AdapterStepInvariant, PTL
  DEF AdapterSpec, ViolationLatches, MarkCleared

\* Each kind of malformed field reaches the bench as something it faults.
LEMMA MalformedIsDetected ==
  ASSUME AdapterInv, NEW reset \in BOOLEAN, MalformedRead
  PROVE  LET in == BuildInputs(reset) IN
         \E code : code \in Detected(in, Validated(in))
<1> DEFINE in == BuildInputs(reset)
<1> DEFINE v == Validated(in)
<1>1. in # Malformed /\ Malformed \notin Int /\ Malformed \notin BOOLEAN
  BY SampleIsNoGarbage, InputAssumption
<1>2. ASSUME command # NoFrame, ~CommandStale,
             NEW f \in DOMAIN command, command[f] = Malformed
      PROVE  \E code : code \in Detected(in, v)
  <2>1. command \in CommandFrame
    BY <1>2, FrameTypes DEF AdapterInv
  <2>2. f \in {"arm_request", "run_request", "shutdown_request", "requested_motor_voltage_v"}
    BY <2>1 DEF CommandFrame
  <2>3. CASE f = "requested_motor_voltage_v"
    <3>1. CommandPart.voltage = Malformed
      BY <1>2, <2>3 DEF CommandPart
    <3>2. in.requested_motor_voltage_v = Malformed
      BY <3>1 DEF BuildInputs
    <3> QED BY <1>1, <3>2, RefusedIsDetected
  <2>4. CASE f = "arm_request"
    <3>1. CommandPart.arm = Malformed
      BY <1>2, <2>4 DEF CommandPart
    <3>2. in["arm_request"] = Malformed /\ "arm_request" \in BooleanFields
      BY <3>1 DEF BuildInputs, BooleanFields
    <3> QED BY <1>1, <3>2, RefusedIsDetected
  <2>5. CASE f = "run_request"
    <3>1. CommandPart.run = Malformed
      BY <1>2, <2>5 DEF CommandPart
    <3>2. in["run_request"] = Malformed /\ "run_request" \in BooleanFields
      BY <3>1 DEF BuildInputs, BooleanFields
    <3> QED BY <1>1, <3>2, RefusedIsDetected
  <2>6. CASE f = "shutdown_request"
    <3>1. CommandPart.shutdown = Malformed
      BY <1>2, <2>6 DEF CommandPart
    <3>2. in["shutdown_request"] = Malformed /\ "shutdown_request" \in BooleanFields
      BY <3>1 DEF BuildInputs, BooleanFields
    <3> QED BY <1>1, <3>2, RefusedIsDetected
  <2> QED BY <2>2, <2>3, <2>4, <2>5, <2>6
<1>3. ASSUME encoder # NoFrame, encoder.healthy = Malformed
      PROVE  \E code : code \in Detected(in, v)
  <2>1. EncoderFailed = Malformed
    BY <1>1, <1>3 DEF EncoderFailed
  <2>2. in["encoder_failed"] = Malformed /\ "encoder_failed" \in BooleanFields
    BY <2>1 DEF BuildInputs, BooleanFields
  <2> QED BY <1>1, <2>2, RefusedIsDetected
<1>4. ASSUME encoder # NoFrame, encoder.valid = Malformed \/ ~encoder.finite_position
      PROVE  \E code : code \in Detected(in, v)
  <2>1. EncoderInvalid = TRUE
    BY <1>1, <1>4, AdapterAssumption DEF EncoderInvalid, Truth
  <2>2. v.encoder_invalid = TRUE
    BY <2>1 DEF BuildInputs, Validated, BooleanOr
  <2> QED BY <2>2 DEF Detected
<1>5. ASSUME safety # NoFrame, safety.supply_voltage_v = Malformed
      PROVE  \E code : code \in Detected(in, v)
  <2>1. in.supply_voltage_v = Malformed
    BY <1>5 DEF BuildInputs
  <2>2. ~ValidSupply(in)
    BY <1>1, <2>1 DEF ValidSupply
  <2> QED BY <1>1, <2>2, RefusedIsDetected
<1>6. ASSUME safety # NoFrame, safety.software_estop_active = Malformed
      PROVE  \E code : code \in Detected(in, v)
  <2>1. in["estop_active"] = Malformed /\ "estop_active" \in BooleanFields
    BY <1>6 DEF BuildInputs, BooleanFields
  <2> QED BY <1>1, <2>1, RefusedIsDetected
<1>7. ASSUME safety # NoFrame, safety.relay_feedback_healthy = Malformed
      PROVE  \E code : code \in Detected(in, v)
  <2>1. RelayFeedbackFailed = Malformed
    BY <1>1, <1>7 DEF RelayFeedbackFailed
  <2>2. in["relay_feedback_failed"] = Malformed /\ "relay_feedback_failed" \in BooleanFields
    BY <2>1 DEF BuildInputs, BooleanFields
  <2> QED BY <1>1, <2>2, RefusedIsDetected
<1>8. ASSUME safety # NoFrame, updated["safety"], safety.watchdog_heartbeat = Malformed
      PROVE  \E code : code \in Detected(in, v)
  <2>1. Heartbeat = Malformed
    BY <1>8 DEF Heartbeat
  <2>2. in["watchdog_heartbeat"] = Malformed /\ "watchdog_heartbeat" \in BooleanFields
    BY <2>1 DEF BuildInputs, BooleanFields
  <2> QED BY <1>1, <2>2, RefusedIsDetected
<1> QED BY <1>2, <1>3, <1>4, <1>5, <1>6, <1>7, <1>8 DEF MalformedRead

\* A sample that reads a malformed field.
MalformedSample ==
  MalformedRead /\ Sampled => state' = "FAULT_LATCHED" /\ SafeOutput(record')

LEMMA StepFaultsMalformed == ASSUME AdapterInv, AdapterNext PROVE MalformedSample
<1>1. CASE Ingest
  BY <1>1
  DEF Ingest, IngestCommand, IngestEncoder, IngestSafety, Sampled, MalformedSample
<1>2. ASSUME NEW reset \in BOOLEAN, Tick(reset) PROVE MalformedSample
  <2>1. Step(BuildInputs(reset))
    BY <1>2, TickSteps
  <2>2. MalformedRead => \E code : code \in Detected(BuildInputs(reset), Validated(BuildInputs(reset)))
    BY MalformedIsDetected
  <2> QED BY <2>1, <2>2, DetectedLatches DEF MalformedSample
<1> QED BY <1>1, <1>2 DEF AdapterNext, ResetTick

\* A malformed field of any frame that the next sample reads, of any type and
\* with any company, stops the motor in that sample.
THEOREM MalformedFramesFault == AdapterSpec => MalformedFrameFaults
<1>1. ASSUME AdapterInv, [AdapterNext]_all_vars PROVE [MalformedSample]_all_vars
  BY <1>1, StepFaultsMalformed
<1> QED
  BY <1>1, AdapterInitInvariant, AdapterStepInvariant, PTL
  DEF AdapterSpec, MalformedFrameFaults, MalformedSample

\* A safety frame whose relay position is well-formed and whose health is not
\* reported is passed on as a failed relay, after normalisation too.
LEMMA UnhealthyIsPassedOn ==
  ASSUME AdapterInv, NEW reset \in BOOLEAN,
         safety # NoFrame, safety.relay_feedback_enabled \in BOOLEAN,
         safety.relay_feedback_healthy = FALSE
  PROVE  Validated(BuildInputs(reset)).relay_feedback_failed
<1> DEFINE in == BuildInputs(reset)
<1>1. in.relay_feedback_failed = TRUE
  BY DEF BuildInputs, RelayFeedbackFailed
<1>2. in # Malformed
  BY SampleIsNoGarbage
<1> HIDE DEF in
<1>3. Validated(in).relay_feedback_failed = TRUE
  BY <1>1, <1>2 DEF Validated, BooleanOr
<1> QED BY <1>3 DEF in

\* A tick that accepts a reset takes the one branch that looks at the relay.
LEMMA AcceptedByHealthyRelay ==
  ASSUME NEW in, Step(in), record'.reset_accepted
  PROVE  ~Validated(in).relay_feedback_failed
<1> DEFINE v == Validated(in)
<1> DEFINE detected == Detected(in, v)
<1>1. LatchFault(v, detected) \/ HoldFault(v, detected) => ~record'.reset_accepted
  BY DEF LatchFault, KeepSafe, SafeRecord, Record, HoldFault, ResetRecord
<1>2. Advance(v, detected) => ~record'.reset_accepted
  BY AdvanceCases
  DEF Run, DriveMotor, InhibitMotor, LatchRelayFailure, KeepSafe, SafeRecord, Record
<1>3. AcceptReset(v, detected)
  BY <1>1, <1>2 DEF Step
<1> QED BY <1>3 DEF AcceptReset, ResetAllowed

\* A relay that reports itself unhealthy blocks every reset, timer ticks and
\* resets in any order, provided no frame carries a malformed relay position
\* (the ROS message admits none).
THEOREM HealthyRelayFirst ==
  ASSUME \A f \in SafetyFrames : f.relay_feedback_enabled \in BOOLEAN
  PROVE  AdapterSpec => ResetNeedsHealthyRelay
<1> DEFINE Blocked == record'.reset_accepted /\ ~record.reset_accepted =>
                        safety = NoFrame \/ safety.relay_feedback_healthy # FALSE
<1>1. ASSUME AdapterInv, AdapterNext PROVE Blocked
  <2>1. CASE Ingest
    BY <2>1 DEF Ingest, IngestCommand, IngestEncoder, IngestSafety, bench_vars
  <2>2. ASSUME NEW reset \in BOOLEAN, Tick(reset) PROVE Blocked
    <3>1. Step(BuildInputs(reset))
      BY <2>2, TickSteps
    <3>2. safety # NoFrame => safety.relay_feedback_enabled \in BOOLEAN
      BY <1>1 DEF AdapterInv, AdapterTypeOK
    <3> QED BY <1>1, <3>1, <3>2, AcceptedByHealthyRelay, UnhealthyIsPassedOn
  <2> QED BY <1>1, <2>1, <2>2 DEF AdapterNext, ResetTick
<1>2. ASSUME AdapterInv, [AdapterNext]_all_vars PROVE [Blocked]_all_vars
  BY <1>1, <1>2
<1> QED
  BY <1>2, AdapterInitInvariant, AdapterStepInvariant, PTL
  DEF AdapterSpec, ResetNeedsHealthyRelay

-----------------------------------------------------------------------------
(* Refinement.                                                             *)

LEMMA InterlockStutters == ASSUME UNCHANGED bench_vars PROVE InterlockStep
  BY DEF bench_vars, InterlockStep, InterlockMode, MotorOn

LEMMA InterlockMoves ==
  ASSUME InterlockStep PROVE [Interlock!Next]_(Interlock!vars)
  BY DEF InterlockStep, MotorOn, Interlock!Next, Interlock!vars, Interlock!Trip,
         Interlock!Release, Interlock!BecomeReady, Interlock!LetGo, Interlock!Drive,
         Interlock!Stop

LEMMA AdapterMoves == ASSUME AdapterInv, [AdapterNext]_all_vars PROVE InterlockStep
<1>1. CASE Ingest \/ UNCHANGED all_vars
  BY <1>1, InterlockStutters
  DEF Ingest, IngestCommand, IngestEncoder, IngestSafety, all_vars
<1>2. ASSUME NEW reset, Tick(reset) PROVE InterlockStep
  BY <1>2, TickSteps, StepMoves DEF AdapterInv
<1> QED BY <1>1, <1>2 DEF AdapterNext, ResetTick

LEMMA InterlockStarts == ASSUME Init PROVE Interlock!Init
  BY Positions DEF Init, Interlock!Init, QuietRecord

\* The adapter on a transport that may delay, repeat, reorder, garble or lose
\* every frame still behaves as the abstract interlock.
THEOREM AdapterRefinement == AdapterSpec => ImplementsInterlock
<1>1. AdapterInit => Interlock!Init
  BY InterlockStarts DEF AdapterInit
<1>2. ASSUME AdapterInv, [AdapterNext]_all_vars PROVE [Interlock!Next]_(Interlock!vars)
  BY <1>2, AdapterMoves, InterlockMoves
<1> QED
  BY <1>1, <1>2, AdapterInitInvariant, AdapterStepInvariant, PTL
  DEF AdapterSpec, ImplementsInterlock, Interlock!Spec

=============================================================================
