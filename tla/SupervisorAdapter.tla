------------------------- MODULE SupervisorAdapter -------------------------
(***************************************************************************)
(* The transport adapter of ROS2-010, robot_supervisor/core.py, around the *)
(* SIM-010 bench of SupervisorBench.                                       *)
(*                                                                         *)
(* Frames arrive on three channels, at any time and in any number between  *)
(* two ticks.  The adapter keeps the last accepted frame of each channel,  *)
(* remembers whether the channel was refreshed or broke the protocol since *)
(* the preceding tick, and builds one SIM-010 sample from that at a tick.  *)
(*                                                                         *)
(* A frame's sequence number matters only through its comparison with the  *)
(* last accepted one, so Classify takes the difference.  Dispositions and  *)
(* diagnostics are texts that nothing reads back; they are left out.  The  *)
(* age of the retained command stops at its threshold.                     *)
(***************************************************************************)
EXTENDS SupervisorBench

CONSTANTS
  CommandStaleSamples,  \* command_stale_samples
  NoFrame,              \* nothing accepted on the channel yet
  Falsy,                \* a malformed value that is false in a condition
  CommandFrames, EncoderFrames, SafetyFrames,  \* the frames that may arrive
  Deltas                \* per channel, how their sequence may compare

CommandFrame ==
  [arm_request : BOOLEAN \cup {Malformed}, run_request : BOOLEAN \cup {Malformed},
   shutdown_request : BOOLEAN \cup {Malformed},
   requested_motor_voltage_v : Int \cup {Malformed}]

EncoderFrame ==
  [healthy : BOOLEAN \cup {Malformed},
   valid : BOOLEAN \cup {Malformed, Falsy},
   finite_position : BOOLEAN]

SafetyFrame ==
  [supply_voltage_v : Int \cup {Malformed},
   software_estop_active : BOOLEAN \cup {Malformed},
   watchdog_heartbeat : BOOLEAN \cup {Malformed},
   relay_feedback_enabled : BOOLEAN \cup {Malformed},
   relay_feedback_healthy : BOOLEAN \cup {Malformed}]

Channels == {"command", "encoder", "safety"}
Telemetry == {"encoder", "safety"}

ASSUME AdapterAssumption ==
  /\ CommandStaleSamples \in Nat \ {0}
  /\ Falsy \notin BOOLEAN \cup {Malformed}
  /\ CommandFrames \subseteq CommandFrame /\ NoFrame \notin CommandFrames
  /\ EncoderFrames \subseteq EncoderFrame /\ NoFrame \notin EncoderFrames
  /\ SafetyFrames \subseteq SafetyFrame /\ NoFrame \notin SafetyFrames
  /\ Deltas \in [Channels -> SUBSET {-1, 0, 1, Malformed}]

VARIABLES
  command, encoder, safety,  \* _command, _encoder, _safety
  command_age,               \* ticks since the retained command was accepted
  updated,                   \* _updated_since_tick, of the two channels it matters for
  protocol_invalid           \* _protocol_invalid

frame_vars == <<command, encoder, safety>>
adapter_vars == <<command, encoder, safety, command_age, updated, protocol_invalid>>
all_vars == <<bench_vars, adapter_vars>>

AdapterInit ==
  /\ Init
  /\ command = NoFrame
  /\ encoder = NoFrame
  /\ safety = NoFrame
  /\ command_age = 0
  /\ updated = [c \in Telemetry |-> FALSE]
  /\ protocol_invalid = [c \in Channels |-> FALSE]

\* A new adapter in the place of an old one.
ReconstructAdapter ==
  /\ Reconstruct
  /\ command' = NoFrame
  /\ encoder' = NoFrame
  /\ safety' = NoFrame
  /\ command_age' = 0
  /\ updated' = [c \in Telemetry |-> FALSE]
  /\ protocol_invalid' = [c \in Channels |-> FALSE]

-----------------------------------------------------------------------------
(* Ingestion.                                                              *)

\* _classify_sequence: delta is the frame's sequence minus the last accepted.
Classify(retained, delta) ==
  IF delta = Malformed THEN "MALFORMED"
  ELSE IF retained = NoFrame \/ delta > 0 THEN "ACCEPTED"
  ELSE IF delta = 0 THEN "DUPLICATE" ELSE "OUT_OF_ORDER"

\* The part of _ingest that every channel shares.
Violation(disposition) == disposition \in {"MALFORMED", "OUT_OF_ORDER"}

\* Wrong: a later good frame takes the mark back.
MarkInvalidUntilGood(channel, disposition) ==
  protocol_invalid' = [protocol_invalid EXCEPT ![channel] = Violation(disposition)]

MarkInvalid(channel, disposition) ==
  protocol_invalid' =
    [protocol_invalid EXCEPT ![channel] = @ \/ Violation(disposition)]

\* Wrong: a repeated frame refreshes its channel.
MarkUpdatedByRepeats(channel, disposition) ==
  updated' = [updated EXCEPT ![channel] = @ \/ disposition \in {"ACCEPTED", "DUPLICATE"}]

MarkUpdated(channel, disposition) ==
  updated' = [updated EXCEPT ![channel] = @ \/ disposition = "ACCEPTED"]

\* Wrong: a repeated command counts as a fresh one.
IngestCommandRepeats(frame, delta) ==
  LET disposition == Classify(command, delta) IN
  /\ command' = IF disposition = "ACCEPTED" THEN frame ELSE command
  /\ command_age' = IF disposition \in {"ACCEPTED", "DUPLICATE"} THEN 0 ELSE command_age
  /\ MarkInvalid("command", disposition)
  /\ UNCHANGED <<bench_vars, encoder, safety, updated>>

\* Wrong: the frame is retained before its sequence is judged.
IngestCommandFirst(frame, delta) ==
  LET disposition == Classify(command, delta) IN
  /\ command' = frame
  /\ command_age' = IF disposition = "ACCEPTED" THEN 0 ELSE command_age
  /\ MarkInvalid("command", disposition)
  /\ UNCHANGED <<bench_vars, encoder, safety, updated>>

IngestCommand(frame, delta) ==
  LET disposition == Classify(command, delta) IN
  /\ command' = IF disposition = "ACCEPTED" THEN frame ELSE command
  /\ command_age' = IF disposition = "ACCEPTED" THEN 0 ELSE command_age
  /\ MarkInvalid("command", disposition)
  /\ UNCHANGED <<bench_vars, encoder, safety, updated>>

IngestEncoder(frame, delta) ==
  LET disposition == Classify(encoder, delta) IN
  /\ encoder' = IF disposition = "ACCEPTED" THEN frame ELSE encoder
  /\ MarkUpdated("encoder", disposition)
  /\ MarkInvalid("encoder", disposition)
  /\ UNCHANGED <<bench_vars, command, command_age, safety>>

\* Wrong: a frame that no sample has read is not replaced.
IngestSafetyUnread(frame, delta) ==
  LET disposition == Classify(safety, delta) IN
  /\ safety' = IF disposition = "ACCEPTED" /\ ~updated["safety"] THEN frame ELSE safety
  /\ MarkUpdated("safety", disposition)
  /\ MarkInvalid("safety", disposition)
  /\ UNCHANGED <<bench_vars, command, command_age, encoder>>

IngestSafety(frame, delta) ==
  LET disposition == Classify(safety, delta) IN
  /\ safety' = IF disposition = "ACCEPTED" THEN frame ELSE safety
  /\ MarkUpdated("safety", disposition)
  /\ MarkInvalid("safety", disposition)
  /\ UNCHANGED <<bench_vars, command, command_age, encoder>>

Ingest ==
  \/ \E frame \in CommandFrames, delta \in Deltas["command"] : IngestCommand(frame, delta)
  \/ \E frame \in EncoderFrames, delta \in Deltas["encoder"] : IngestEncoder(frame, delta)
  \/ \E frame \in SafetyFrames, delta \in Deltas["safety"] : IngestSafety(frame, delta)

-----------------------------------------------------------------------------
(* _build_inputs.                                                          *)

InitialTelemetryReceived == encoder # NoFrame /\ safety # NoFrame

\* The relay command of the preceding tick, _last_relay_enable.
LastRelayEnable == record.relay_enable_command

CommandStale == command # NoFrame /\ command_age >= CommandStaleSamples

\* A malformed value where the code only asks whether it is true.
Truth(value) == IF value \in BOOLEAN THEN value ELSE value # Falsy

\* Wrong: a command never goes stale.
CommandPartForever ==
  IF command = NoFrame
  THEN [arm |-> FALSE, run |-> FALSE, shutdown |-> FALSE, voltage |-> 0]
  ELSE [arm |-> command.arm_request, run |-> command.run_request,
        shutdown |-> command.shutdown_request,
        voltage |-> command.requested_motor_voltage_v]

CommandPart ==
  IF command = NoFrame
  THEN [arm |-> FALSE, run |-> FALSE, shutdown |-> FALSE, voltage |-> 0]
  ELSE IF CommandStale
  THEN [arm |-> FALSE, run |-> FALSE, shutdown |-> TRUE, voltage |-> 0]
  ELSE [arm |-> command.arm_request, run |-> command.run_request,
        shutdown |-> command.shutdown_request,
        voltage |-> command.requested_motor_voltage_v]

\* Wrong: an encoder that is missing altogether is not stale.
EncoderStaleOnceKnown == encoder # NoFrame /\ ~updated["encoder"]

EncoderStale == ~updated["encoder"]

\* Wrong: only an explicit FALSE is a failure.
EncoderFailedIfFalse == encoder # NoFrame /\ encoder.healthy = FALSE

EncoderFailed ==
  IF encoder = NoFrame THEN FALSE
  ELSE IF encoder.healthy \in BOOLEAN THEN ~encoder.healthy ELSE Malformed

EncoderInvalid ==
  \/ protocol_invalid["encoder"]
  \/ /\ encoder # NoFrame
     /\ \/ ~encoder.finite_position
        \/ IF encoder.valid \in BOOLEAN THEN ~encoder.valid ELSE Truth(encoder.valid)

\* Wrong: a retained frame goes on beating.
HeartbeatRetained == IF safety = NoFrame THEN FALSE ELSE safety.watchdog_heartbeat

\* Wrong: a watchdog owner that was never heard is not missed.
HeartbeatUntilHeard ==
  IF safety = NoFrame THEN TRUE ELSE updated["safety"] /\ safety.watchdog_heartbeat

Heartbeat == IF updated["safety"] THEN safety.watchdog_heartbeat ELSE FALSE

\* Wrong: only the position of the relay counts, not its health.
RelayFeedbackFailedPosition ==
  IF safety = NoFrame THEN FALSE
  ELSE IF safety.relay_feedback_enabled \in BOOLEAN
  THEN safety.relay_feedback_enabled # LastRelayEnable
  ELSE safety.relay_feedback_healthy

\* Both fields Boolean: unhealthy, or not what was commanded.  Otherwise the
\* health field goes through as it is.
RelayFeedbackFailed ==
  IF safety = NoFrame THEN FALSE
  ELSE IF safety.relay_feedback_healthy \in BOOLEAN
          /\ safety.relay_feedback_enabled \in BOOLEAN
  THEN ~safety.relay_feedback_healthy
       \/ safety.relay_feedback_enabled # LastRelayEnable
  ELSE safety.relay_feedback_healthy

BuildInputs(reset) ==
  [supply_voltage_v |->
     IF protocol_invalid["safety"] THEN Malformed
     ELSE IF safety = NoFrame THEN NominalSupply ELSE safety.supply_voltage_v,
   requested_motor_voltage_v |->
     IF protocol_invalid["command"] THEN Malformed ELSE CommandPart.voltage,
   arm_request           |-> CommandPart.arm,
   run_request           |-> CommandPart.run,
   shutdown_request      |-> CommandPart.shutdown,
   reset_request         |-> reset,
   watchdog_heartbeat    |-> Heartbeat,
   estop_active          |->
     IF safety = NoFrame THEN FALSE ELSE safety.software_estop_active,
   encoder_stale         |-> EncoderStale,
   encoder_failed        |-> EncoderFailed,
   encoder_invalid       |-> EncoderInvalid,
   relay_feedback_failed |-> RelayFeedbackFailed]

-----------------------------------------------------------------------------
\* Wrong: a violation of the protocol is never forgotten.
TickInvalidForever(reset) ==
  /\ \E in \in {BuildInputs(reset)} : Step(in)
  /\ command_age' = IF command = NoFrame THEN 0 ELSE Bump(command_age, CommandStaleSamples)
  /\ updated' = [c \in Telemetry |-> FALSE]
  /\ UNCHANGED <<frame_vars, protocol_invalid>>

\* tick, and reset_tick, which is a tick with the reset requested.
Tick(reset) ==
  /\ \E in \in {BuildInputs(reset)} : Step(in)
  /\ command_age' = IF command = NoFrame THEN 0 ELSE Bump(command_age, CommandStaleSamples)
  /\ updated' = [c \in Telemetry |-> FALSE]
  /\ protocol_invalid' = [c \in Channels |-> FALSE]
  /\ UNCHANGED frame_vars

ResetTick == Tick(TRUE)

AdapterNext == Ingest \/ Tick(FALSE) \/ ResetTick

AdapterSpec == AdapterInit /\ [][AdapterNext]_all_vars

-----------------------------------------------------------------------------
(* Properties.                                                             *)

AdapterTypeOK ==
  /\ TypeOK
  /\ command \in CommandFrames \cup {NoFrame}
  /\ encoder \in EncoderFrames \cup {NoFrame}
  /\ safety \in SafetyFrames \cup {NoFrame}
  /\ command_age \in 0..CommandStaleSamples
  /\ updated \in [Telemetry -> BOOLEAN]
  /\ protocol_invalid \in [Channels -> BOOLEAN]

\* A protocol violation cannot be talked away by a later good frame: the
\* mark is cleared only by a sample that latches the channel's fault.
ViolationLatches ==
  [][\A c \in Channels :
       protocol_invalid[c] /\ ~protocol_invalid'[c] =>
         /\ state' = "FAULT_LATCHED"
         /\ CASE c = "command" -> "INVALID_COMMAND" \in latched'
              [] c = "encoder" -> "ENCODER_INVALID" \in latched'
              [] c = "safety"  -> "INVALID_SUPPLY_VOLTAGE" \in latched'
         /\ SafeOutput(record')]_all_vars

\* A step in which the bench took a sample and something came of it.
Sampled == bench_vars' # bench_vars

\* A field the next sample reads holds a value of the wrong type, or a number
\* that is none.
MalformedRead ==
  \/ command # NoFrame /\ ~CommandStale /\ \E f \in DOMAIN command : command[f] = Malformed
  \/ /\ encoder # NoFrame
     /\ encoder.healthy = Malformed \/ encoder.valid = Malformed \/ ~encoder.finite_position
  \/ /\ safety # NoFrame
     /\ \/ safety.supply_voltage_v = Malformed
        \/ safety.software_estop_active = Malformed
        \/ safety.relay_feedback_healthy = Malformed
        \/ updated["safety"] /\ safety.watchdog_heartbeat = Malformed

\* A malformed field stops the motor in the very sample that reads it and
\* goes on doing so for as long as its frame is retained ("passed through the
\* adapter to SIM-010's existing strict validation", and two fields below).
MalformedFrameFaults ==
  [][MalformedRead /\ Sampled => state' = "FAULT_LATCHED" /\ SafeOutput(record')]_all_vars

\* A relay that reports itself unhealthy blocks every reset ("Feedback failure
\* remains a raw reset blocker", docs/ros2_010_middleware_integration.md).
\* It does among well-formed frames; a malformed relay_feedback_enabled turns
\* the meaning of relay_feedback_healthy around.
ResetNeedsHealthyRelay ==
  [][record'.reset_accepted /\ ~record.reset_accepted =>
       safety = NoFrame \/ safety.relay_feedback_healthy # FALSE]_all_vars

=============================================================================
