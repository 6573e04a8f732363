-------------------------- MODULE SupervisorBench --------------------------
(***************************************************************************)
(* The SIM-010 synchronous supervisor, models/sil.py.                      *)
(*                                                                         *)
(* One call of SupervisorTestBench.step is one step of this module: it     *)
(* normalises its inputs, samples the encoder, the watchdog and the supply *)
(* monitor, detects faults, advances the state machine or the latch,       *)
(* compares the relay with its feedback and gates the motor command.       *)
(*                                                                         *)
(* Voltages are integers: only their sign and their order with the limits  *)
(* matter.  The motor (position, speed, current) influences no decision    *)
(* and is left out.  A counter that the code only compares with its        *)
(* threshold stops at that threshold (Bump), so the state is finite and    *)
(* the comparison is exact.  The encoder's own sequence number and the     *)
(* last one the bench looked at appear as the relation between the two.    *)
(*                                                                         *)
(* An operator whose comment starts with "Wrong:" is no part of the model. *)
(* It is the definition that follows it with a plausible mistake, and some *)
(* property of this project fails when it takes that definition's place.   *)
(***************************************************************************)
EXTENDS Integers

CONSTANTS
  Inputs,                \* the input samples the environment may present
  Malformed,             \* a field value of the wrong type, or NaN or infinite
  NominalSupply,         \* synthetic_nominal_supply_voltage_v
  UndervoltageThreshold, \* synthetic_undervoltage_threshold_v
  CommandLimit,          \* synthetic_command_voltage_abs_max_v
  StartupSamples,        \* synthetic_safe_startup_healthy_samples
  ShutdownSamples,       \* synthetic_safe_shutdown_hold_samples
  WatchdogSamples,       \* synthetic_watchdog_missed_heartbeat_samples
  EncoderStaleSamples,   \* synthetic_encoder_stale_samples
  RelayMismatchSamples   \* synthetic_relay_feedback_mismatch_samples

\* What SyntheticSilConfig.validate accepts.
ASSUME ConfigAssumption ==
  /\ UndervoltageThreshold \in Nat \ {0}
  /\ NominalSupply \in Nat
  /\ UndervoltageThreshold < NominalSupply
  /\ CommandLimit \in Nat \ {0}
  /\ StartupSamples \in Nat \ {0}
  /\ ShutdownSamples \in Nat \ {0}
  /\ WatchdogSamples \in Nat \ {0}
  /\ EncoderStaleSamples \in Nat \ {0}
  /\ RelayMismatchSamples \in Nat \ {0}

-----------------------------------------------------------------------------
States == {"SAFE_STARTUP", "READY", "RUNNING", "FAULT_LATCHED", "SAFE_SHUTDOWN"}

FaultCode ==
  {"EMERGENCY_STOP", "WATCHDOG_TIMEOUT", "ENCODER_STALE", "ENCODER_FAILURE",
   "ENCODER_INVALID", "RELAY_FEEDBACK_FAILURE", "UNDERVOLTAGE",
   "INVALID_RUNTIME_INPUT", "INVALID_SUPPLY_VOLTAGE", "INVALID_COMMAND"}

\* A sample as the caller builds it: any field may be malformed.
SupervisorInputs ==
  [supply_voltage_v          : Int \cup {Malformed},
   requested_motor_voltage_v : Int \cup {Malformed},
   arm_request               : BOOLEAN \cup {Malformed},
   run_request               : BOOLEAN \cup {Malformed},
   shutdown_request          : BOOLEAN \cup {Malformed},
   reset_request             : BOOLEAN \cup {Malformed},
   watchdog_heartbeat        : BOOLEAN \cup {Malformed},
   estop_active              : BOOLEAN \cup {Malformed},
   encoder_stale             : BOOLEAN \cup {Malformed},
   encoder_failed            : BOOLEAN \cup {Malformed},
   encoder_invalid           : BOOLEAN \cup {Malformed},
   relay_feedback_failed     : BOOLEAN \cup {Malformed}]

BooleanFields ==
  {"arm_request", "run_request", "shutdown_request", "reset_request",
   "watchdog_heartbeat", "estop_active", "encoder_stale", "encoder_failed",
   "encoder_invalid", "relay_feedback_failed"}

ASSUME InputAssumption ==
  /\ Malformed \notin Int
  /\ Malformed \notin BOOLEAN
  /\ Malformed \notin SupervisorInputs
  /\ Inputs \subseteq SupervisorInputs \cup {Malformed}

-----------------------------------------------------------------------------
(* Input normalisation: _validate_runtime_inputs.                          *)

ValidSupply(in) == in.supply_voltage_v \in Int /\ in.supply_voltage_v >= 0

BooleanOr(value, safe) == IF value \in BOOLEAN THEN value ELSE safe

\* The sample the step works on.  An object that is no SupervisorInputs at
\* all gets every safe default.
Validated(in) ==
  IF in = Malformed
  THEN [supply_voltage_v |-> 0, requested_motor_voltage_v |-> 0,
        arm_request |-> FALSE, run_request |-> FALSE,
        shutdown_request |-> FALSE, reset_request |-> FALSE,
        watchdog_heartbeat |-> FALSE, estop_active |-> TRUE,
        encoder_stale |-> TRUE, encoder_failed |-> TRUE,
        encoder_invalid |-> TRUE, relay_feedback_failed |-> TRUE]
  ELSE [supply_voltage_v |-> IF ValidSupply(in) THEN in.supply_voltage_v ELSE 0,
        requested_motor_voltage_v |->
          IF in.requested_motor_voltage_v \in Int
          THEN in.requested_motor_voltage_v ELSE 0,
        arm_request           |-> BooleanOr(in.arm_request, FALSE),
        run_request           |-> BooleanOr(in.run_request, FALSE),
        shutdown_request      |-> BooleanOr(in.shutdown_request, FALSE),
        reset_request         |-> BooleanOr(in.reset_request, FALSE),
        watchdog_heartbeat    |-> BooleanOr(in.watchdog_heartbeat, FALSE),
        estop_active          |-> BooleanOr(in.estop_active, TRUE),
        encoder_stale         |-> BooleanOr(in.encoder_stale, TRUE),
        encoder_failed        |-> BooleanOr(in.encoder_failed, TRUE),
        encoder_invalid       |-> BooleanOr(in.encoder_invalid, TRUE),
        relay_feedback_failed |-> BooleanOr(in.relay_feedback_failed, TRUE)]

\* The faults that normalisation itself reports.
InvalidFaults(in) ==
  IF in = Malformed THEN {"INVALID_RUNTIME_INPUT"}
  ELSE {c \in {"INVALID_SUPPLY_VOLTAGE"} : ~ValidSupply(in)}
       \cup {c \in {"INVALID_COMMAND"} : in.requested_motor_voltage_v \notin Int}
       \cup {c \in {"INVALID_RUNTIME_INPUT"} :
               \E f \in BooleanFields : in[f] \notin BOOLEAN}

-----------------------------------------------------------------------------
VARIABLES
  state,            \* SupervisorTestBench.state
  latched,          \* latched_faults
  startup_healthy,  \* _startup_healthy_samples
  shutdown_hold,    \* _shutdown_hold_samples
  missed,           \* watchdog.missed_samples
  sequence,         \* encoder._sequence against _last_encoder_sequence
  stale_age,        \* _encoder_stale_age_samples
  liveness,         \* _encoder_liveness_established
  mismatch,         \* _relay_feedback_mismatch_samples
  disarmed_seen,    \* _ready_disarmed_sample_seen
  record            \* what the last step published

bench_vars == <<state, latched, startup_healthy, shutdown_hold, missed, sequence,
                stale_age, liveness, mismatch, disarmed_seen, record>>

\* _last_encoder_sequence is None, equal to, or behind encoder._sequence.
SequenceRelation == {"NONE", "SEEN", "ADVANCED"}

\* The fields of a TelemetryRecord that describe outputs and faults, with the
\* codes for which the sample published a LATCHED event.
TelemetryRecord ==
  [detected_faults       : SUBSET FaultCode,
   published_faults      : SUBSET FaultCode,
   relay_enable_command  : BOOLEAN,
   relay_enable_feedback : BOOLEAN,
   motor_command_v       : Int,
   command_saturated     : BOOLEAN,
   reset_accepted        : BOOLEAN,
   reset_rejected        : BOOLEAN]

\* TelemetryRecord.safe_output
SafeOutput(r) == ~r.relay_enable_command /\ r.motor_command_v = 0

QuietRecord ==
  [detected_faults |-> {}, published_faults |-> {},
   relay_enable_command |-> FALSE, relay_enable_feedback |-> FALSE,
   motor_command_v |-> 0, command_saturated |-> FALSE,
   reset_accepted |-> FALSE, reset_rejected |-> FALSE]

Init ==
  /\ state = "SAFE_STARTUP"
  /\ latched = {}
  /\ startup_healthy = 0
  /\ shutdown_hold = 0
  /\ missed = 0
  /\ sequence = "NONE"
  /\ stale_age = 0
  /\ liveness = FALSE
  /\ mismatch = 0
  /\ disarmed_seen = FALSE
  /\ record = QuietRecord

\* A new bench in the place of an old one: the initial state, as a step.
Reconstruct ==
  /\ state' = "SAFE_STARTUP"
  /\ latched' = {}
  /\ startup_healthy' = 0
  /\ shutdown_hold' = 0
  /\ missed' = 0
  /\ sequence' = "NONE"
  /\ stale_age' = 0
  /\ liveness' = FALSE
  /\ mismatch' = 0
  /\ disarmed_seen' = FALSE
  /\ record' = QuietRecord

-----------------------------------------------------------------------------
(* Sampling: encoder, watchdog, supply monitor, fault detection.           *)

\* A counter nobody reads above its threshold.
Bump(count, threshold) == IF count < threshold THEN count + 1 ELSE count

\* SimulatedEncoder.sample advances its sequence, failed or not.
SequenceAdvances(v) == ~v.encoder_stale /\ ~v.encoder_invalid

\* The samples _update_encoder_age looks at.
EncoderUsable(v) == ~v.encoder_failed /\ ~v.encoder_invalid

\* The bench sees a sequence that differs from the last one it looked at.
AdvanceSeen(v) ==
  /\ EncoderUsable(v)
  /\ \/ sequence = "ADVANCED"
     \/ sequence = "SEEN" /\ SequenceAdvances(v)

NextSequence(v) ==
  IF EncoderUsable(v) THEN "SEEN"
  ELSE IF SequenceAdvances(v) /\ sequence = "SEEN" THEN "ADVANCED" ELSE sequence

NextStaleAge(v) ==
  IF ~EncoderUsable(v) THEN stale_age
  ELSE IF sequence = "NONE" \/ AdvanceSeen(v) THEN 0
  ELSE Bump(stale_age, EncoderStaleSamples)

\* Wrong: a heartbeat does not clear the count.
NextMissedSticky(v) == IF v.watchdog_heartbeat THEN missed ELSE Bump(missed, WatchdogSamples)

NextMissed(v) ==
  IF v.watchdog_heartbeat THEN 0 ELSE Bump(missed, WatchdogSamples)

\* Wrong: the threshold is exclusive.
WatchdogExpiredLate(v) == NextMissed(v) > WatchdogSamples

WatchdogExpired(v) == NextMissed(v) >= WatchdogSamples

\* Wrong: the comparison is off by one.
UndervoltageLow(in, v) ==
  /\ "INVALID_SUPPLY_VOLTAGE" \notin InvalidFaults(in)
  /\ v.supply_voltage_v + 1 < UndervoltageThreshold

Undervoltage(in, v) ==
  /\ "INVALID_SUPPLY_VOLTAGE" \notin InvalidFaults(in)
  /\ v.supply_voltage_v < UndervoltageThreshold

Detected(in, v) ==
  InvalidFaults(in)
  \cup {c \in {"EMERGENCY_STOP"} : v.estop_active}
  \cup {c \in {"WATCHDOG_TIMEOUT"} : WatchdogExpired(v)}
  \cup {c \in {"ENCODER_FAILURE"} : v.encoder_failed}
  \cup {c \in {"ENCODER_INVALID"} : v.encoder_invalid}
  \cup {c \in {"ENCODER_STALE"} : NextStaleAge(v) >= EncoderStaleSamples}
  \cup {c \in {"UNDERVOLTAGE"} : Undervoltage(in, v)}

Sample(v) ==
  /\ sequence' = NextSequence(v)
  /\ stale_age' = NextStaleAge(v)
  /\ liveness' = (liveness \/ AdvanceSeen(v))
  /\ missed' = NextMissed(v)

-----------------------------------------------------------------------------
(* Outputs: relay, H-bridge and the final gate.                            *)

Saturated(v) ==
  v.requested_motor_voltage_v > CommandLimit \/ v.requested_motor_voltage_v < -CommandLimit

Clipped(v) ==
  IF v.requested_motor_voltage_v > CommandLimit THEN CommandLimit
  ELSE IF v.requested_motor_voltage_v < -CommandLimit THEN -CommandLimit
  ELSE v.requested_motor_voltage_v

\* The record of a sample without a reset.
Record(v, detected, published, relay, feedback, motor) ==
  [detected_faults |-> detected, published_faults |-> published,
   relay_enable_command |-> relay, relay_enable_feedback |-> feedback,
   motor_command_v |-> motor, command_saturated |-> Saturated(v),
   reset_accepted |-> FALSE, reset_rejected |-> FALSE]

SafeRecord(v, detected, published) == Record(v, detected, published, FALSE, FALSE, 0)

\* The safe record of a sample in FAULT_LATCHED, with what became of its reset.
ResetRecord(v, detected, published, accepted, rejected) ==
  [detected_faults |-> detected, published_faults |-> published,
   relay_enable_command |-> FALSE, relay_enable_feedback |-> FALSE,
   motor_command_v |-> 0, command_saturated |-> Saturated(v),
   reset_accepted |-> accepted, reset_rejected |-> rejected]

\* A sample whose state after the state machine is not RUNNING.
KeepSafe(v, detected, published) ==
  /\ mismatch' = 0
  /\ record' = SafeRecord(v, detected, published)

\* A sample in RUNNING whose relay feedback agrees: the motor is driven.
DriveMotor(v) ==
  /\ ~v.relay_feedback_failed
  /\ state' = "RUNNING"
  /\ mismatch' = 0
  /\ record' = Record(v, {}, {}, TRUE, TRUE, Clipped(v))
  /\ UNCHANGED latched

\* Wrong: the motor is driven over an unconfirmed relay.
InhibitMotorNot(v) ==
  /\ v.relay_feedback_failed
  /\ mismatch + 1 < RelayMismatchSamples
  /\ state' = "RUNNING"
  /\ mismatch' = mismatch + 1
  /\ record' = Record(v, {}, {}, TRUE, FALSE, Clipped(v))
  /\ UNCHANGED latched

\* Feedback is missing but below the threshold: the H-bridge is inhibited.
InhibitMotor(v) ==
  /\ v.relay_feedback_failed
  /\ mismatch + 1 < RelayMismatchSamples
  /\ state' = "RUNNING"
  /\ mismatch' = mismatch + 1
  /\ record' = Record(v, {}, {}, TRUE, FALSE, 0)
  /\ UNCHANGED latched

\* Wrong: the relay commanded before the late fault is still published.
LatchRelayFailureUngated(v) ==
  /\ v.relay_feedback_failed
  /\ mismatch + 1 >= RelayMismatchSamples
  /\ state' = "FAULT_LATCHED"
  /\ mismatch' = mismatch + 1
  /\ latched' = latched \cup {"RELAY_FEEDBACK_FAILURE"}
  /\ record' = Record(v, {"RELAY_FEEDBACK_FAILURE"},
                      {"RELAY_FEEDBACK_FAILURE"} \ latched, TRUE, FALSE, 0)

\* The mismatch reaches its threshold: latched late in the same sample.
LatchRelayFailure(v) ==
  /\ v.relay_feedback_failed
  /\ mismatch + 1 >= RelayMismatchSamples
  /\ state' = "FAULT_LATCHED"
  /\ mismatch' = mismatch + 1
  /\ latched' = latched \cup {"RELAY_FEEDBACK_FAILURE"}
  /\ record' = SafeRecord(v, {"RELAY_FEEDBACK_FAILURE"},
                          {"RELAY_FEEDBACK_FAILURE"} \ latched)

Run(v) == DriveMotor(v) \/ InhibitMotor(v) \/ LatchRelayFailure(v)

-----------------------------------------------------------------------------
(* Fault states.                                                           *)

\* Wrong: the faults detected in the sample do not block the reset.
ResetAllowedWhileFaulty(v, detected) ==
  ~v.relay_feedback_failed /\ ~v.arm_request /\ ~v.run_request

ResetAllowed(v, detected) ==
  /\ detected = {}
  /\ ~v.relay_feedback_failed
  /\ ~v.arm_request
  /\ ~v.run_request

\* step, the branch of a fault-free state with a fault detected.
LatchFault(v, detected) ==
  /\ state # "FAULT_LATCHED"
  /\ detected # {}
  /\ state' = "FAULT_LATCHED"
  /\ latched' = latched \cup detected
  /\ KeepSafe(v, detected, detected \ latched)
  /\ UNCHANGED <<startup_healthy, shutdown_hold, disarmed_seen>>

\* Wrong: a fault that persists is published again in every sample.
HoldFaultRepeating(v, detected) ==
  /\ state = "FAULT_LATCHED"
  /\ ~(v.reset_request /\ ResetAllowed(v, detected))
  /\ latched' = latched \cup detected
  /\ mismatch' = 0
  /\ record' = ResetRecord(v, detected, detected, FALSE, v.reset_request)
  /\ UNCHANGED <<state, startup_healthy, shutdown_hold, disarmed_seen>>

\* _process_fault_state without a reset, or with one that is rejected.
HoldFault(v, detected) ==
  /\ state = "FAULT_LATCHED"
  /\ ~(v.reset_request /\ ResetAllowed(v, detected))
  /\ latched' = latched \cup detected
  /\ mismatch' = 0
  /\ record' = ResetRecord(v, detected, detected \ latched, FALSE, v.reset_request)
  /\ UNCHANGED <<state, startup_healthy, shutdown_hold, disarmed_seen>>

\* Wrong: the state leaves the latch and the latched set stays.
AcceptResetKeepingFaults(v, detected) ==
  /\ state = "FAULT_LATCHED"
  /\ v.reset_request
  /\ ResetAllowed(v, detected)
  /\ state' = "SAFE_SHUTDOWN"
  /\ shutdown_hold' = 0
  /\ disarmed_seen' = FALSE
  /\ mismatch' = 0
  /\ record' = ResetRecord(v, {}, {}, TRUE, FALSE)
  /\ UNCHANGED <<latched, startup_healthy>>

\* Wrong: the hold of an earlier shutdown counts for this one.
AcceptResetKeepingHold(v, detected) ==
  /\ state = "FAULT_LATCHED"
  /\ v.reset_request
  /\ ResetAllowed(v, detected)
  /\ state' = "SAFE_SHUTDOWN"
  /\ latched' = {}
  /\ disarmed_seen' = FALSE
  /\ mismatch' = 0
  /\ record' = ResetRecord(v, {}, {}, TRUE, FALSE)
  /\ UNCHANGED <<shutdown_hold, startup_healthy>>

\* _process_fault_state with an accepted reset.
AcceptReset(v, detected) ==
  /\ state = "FAULT_LATCHED"
  /\ v.reset_request
  /\ ResetAllowed(v, detected)
  /\ state' = "SAFE_SHUTDOWN"
  /\ latched' = {}
  /\ shutdown_hold' = 0
  /\ disarmed_seen' = FALSE
  /\ mismatch' = 0
  /\ record' = ResetRecord(v, {}, {}, TRUE, FALSE)
  /\ UNCHANGED startup_healthy

-----------------------------------------------------------------------------
(* _advance_nonfault_state, one action per state.                          *)

\* Wrong: the threshold is exclusive.
AdvanceStartupLate(v) ==
  /\ state = "SAFE_STARTUP"
  /\ startup_healthy' = IF liveness \/ AdvanceSeen(v)
                        THEN startup_healthy + 1 ELSE startup_healthy
  /\ \/ /\ startup_healthy' > StartupSamples
        /\ state' = "READY"
        /\ disarmed_seen' = FALSE
     \/ /\ startup_healthy' <= StartupSamples
        /\ UNCHANGED <<state, disarmed_seen>>
  /\ KeepSafe(v, {}, {})
  /\ UNCHANGED <<latched, shutdown_hold>>

\* Counts only samples with the encoder's liveness established, this one's
\* advance included.
AdvanceStartup(v) ==
  /\ state = "SAFE_STARTUP"
  /\ startup_healthy' = IF liveness \/ AdvanceSeen(v)
                        THEN startup_healthy + 1 ELSE startup_healthy
  /\ \/ /\ startup_healthy' >= StartupSamples
        /\ state' = "READY"
        /\ disarmed_seen' = FALSE
     \/ /\ startup_healthy' < StartupSamples
        /\ UNCHANGED <<state, disarmed_seen>>
  /\ KeepSafe(v, {}, {})
  /\ UNCHANGED <<latched, shutdown_hold>>

\* Wrong: the hold of an earlier shutdown counts for this one.
EnterShutdownKeepingHold(v) ==
  /\ state' = "SAFE_SHUTDOWN"
  /\ disarmed_seen' = FALSE
  /\ KeepSafe(v, {}, {})
  /\ UNCHANGED <<latched, startup_healthy, shutdown_hold>>

EnterShutdown(v) ==
  /\ state' = "SAFE_SHUTDOWN"
  /\ shutdown_hold' = 0
  /\ disarmed_seen' = FALSE
  /\ KeepSafe(v, {}, {})
  /\ UNCHANGED <<latched, startup_healthy>>

\* Wrong: a request held into READY runs.
AdvanceReadyHeld(v) ==
  /\ state = "READY"
  /\ \/ /\ v.shutdown_request
        /\ EnterShutdown(v)
     \/ /\ ~v.shutdown_request
        /\ v.arm_request /\ v.run_request
        /\ Run(v)
        /\ UNCHANGED <<startup_healthy, shutdown_hold, disarmed_seen>>
     \/ /\ ~v.shutdown_request
        /\ ~(v.arm_request /\ v.run_request)
        /\ disarmed_seen' = (disarmed_seen \/ (~v.arm_request /\ ~v.run_request))
        /\ KeepSafe(v, {}, {})
        /\ UNCHANGED <<state, latched, startup_healthy, shutdown_hold>>

AdvanceReady(v) ==
  /\ state = "READY"
  /\ \/ /\ v.shutdown_request
        /\ EnterShutdown(v)
     \/ /\ ~v.shutdown_request
        /\ v.arm_request /\ v.run_request /\ disarmed_seen
        /\ Run(v)
        /\ UNCHANGED <<startup_healthy, shutdown_hold, disarmed_seen>>
     \/ /\ ~v.shutdown_request
        /\ ~(v.arm_request /\ v.run_request /\ disarmed_seen)
        /\ disarmed_seen' = (disarmed_seen \/ (~v.arm_request /\ ~v.run_request))
        /\ KeepSafe(v, {}, {})
        /\ UNCHANGED <<state, latched, startup_healthy, shutdown_hold>>

AdvanceRunning(v) ==
  /\ state = "RUNNING"
  /\ \/ /\ v.shutdown_request \/ ~v.arm_request \/ ~v.run_request
        /\ EnterShutdown(v)
     \/ /\ ~v.shutdown_request /\ v.arm_request /\ v.run_request
        /\ Run(v)
        /\ UNCHANGED <<startup_healthy, shutdown_hold, disarmed_seen>>

\* Wrong: recovery does not ask for the encoder's liveness.
AdvanceShutdownBlind(v) ==
  /\ state = "SAFE_SHUTDOWN"
  /\ shutdown_hold' = Bump(shutdown_hold, ShutdownSamples)
  /\ \/ /\ shutdown_hold' >= ShutdownSamples
        /\ state' = "READY"
        /\ disarmed_seen' = FALSE
     \/ /\ shutdown_hold' < ShutdownSamples
        /\ UNCHANGED <<state, disarmed_seen>>
  /\ KeepSafe(v, {}, {})
  /\ UNCHANGED <<latched, startup_healthy>>

AdvanceShutdown(v) ==
  /\ state = "SAFE_SHUTDOWN"
  /\ shutdown_hold' = Bump(shutdown_hold, ShutdownSamples)
  /\ \/ /\ shutdown_hold' >= ShutdownSamples
        /\ liveness \/ AdvanceSeen(v)
        /\ state' = "READY"
        /\ disarmed_seen' = FALSE
     \/ /\ ~(shutdown_hold' >= ShutdownSamples /\ (liveness \/ AdvanceSeen(v)))
        /\ UNCHANGED <<state, disarmed_seen>>
  /\ KeepSafe(v, {}, {})
  /\ UNCHANGED <<latched, startup_healthy>>

Advance(v, detected) ==
  /\ detected = {}
  /\ AdvanceStartup(v) \/ AdvanceReady(v) \/ AdvanceRunning(v) \/ AdvanceShutdown(v)

-----------------------------------------------------------------------------
\* SupervisorTestBench.step
Step(in) ==
  \E v \in {Validated(in)} : \E detected \in {Detected(in, v)} :
    /\ Sample(v)
    /\ \/ LatchFault(v, detected) \/ HoldFault(v, detected)
       \/ AcceptReset(v, detected) \/ Advance(v, detected)

Next == \E in \in Inputs : Step(in)

Spec == Init /\ [][Next]_bench_vars

-----------------------------------------------------------------------------
(* What the bench promises: the abstract interlock of SafetyInterlock.     *)

InterlockMode ==
  CASE state = "FAULT_LATCHED"                -> "latched"
    [] state = "RUNNING"                      -> "driving"
    [] state = "READY" /\ disarmed_seen       -> "armed"
    [] state = "READY" /\ ~disarmed_seen      -> "waiting"
    [] state \in {"SAFE_STARTUP", "SAFE_SHUTDOWN"} -> "off"

Interlock == INSTANCE SafetyInterlock
               WITH mode <- InterlockMode, motor_on <- (record.motor_command_v # 0)

\* Every step of the supervisor is a step of the interlock or changes nothing
\* the interlock can see.
ImplementsInterlock == Interlock!Spec

-----------------------------------------------------------------------------
(* Properties.                                                             *)

TypeOK ==
  /\ state \in States
  /\ latched \subseteq FaultCode
  /\ startup_healthy \in 0..StartupSamples
  /\ shutdown_hold \in 0..ShutdownSamples
  /\ missed \in 0..WatchdogSamples
  /\ sequence \in SequenceRelation
  /\ stale_age \in 0..EncoderStaleSamples
  /\ liveness \in BOOLEAN
  /\ mismatch \in 0..RelayMismatchSamples
  /\ disarmed_seen \in BOOLEAN
  /\ record \in TelemetryRecord

\* The two run-time assertions at the end of step: a sample that detects a
\* fault, the late relay mismatch included, and a sample that ends latched
\* publish relay off and a motor command of exactly zero.
FaultForcesSafeOutput ==
  record.detected_faults # {} \/ state = "FAULT_LATCHED" => SafeOutput(record)

\* The supervisor is in FAULT_LATCHED exactly while some fault is latched:
\* no path clears the state without the set or the set without the state.
LatchMatchesState == state = "FAULT_LATCHED" <=> latched # {}

\* The relay is commanded only in RUNNING, and the motor is driven only over
\* a confirmed relay, within the H-bridge limit.
DriveIsConfirmed ==
  /\ record.relay_enable_command => state = "RUNNING"
  /\ record.motor_command_v # 0 => record.relay_enable_command /\ record.relay_enable_feedback
  /\ record.motor_command_v \in -CommandLimit..CommandLimit

\* READY and RUNNING are out of reach until the encoder has advanced, also
\* for a supervisor that faulted during startup and recovered.
ReadyNeedsLiveness == state \in {"READY", "RUNNING"} => liveness

\* The inclusive deadlines: outside FAULT_LATCHED every supervision counter
\* is strictly below its threshold, and relay mismatches are counted only in
\* RUNNING.
DeadlinesHold ==
  state # "FAULT_LATCHED" =>
    /\ missed < WatchdogSamples
    /\ stale_age < EncoderStaleSamples
    /\ mismatch < RelayMismatchSamples
    /\ mismatch > 0 => state = "RUNNING"

\* Replaying the fault channel yields the latched set: each code is published
\* once per episode, none is dropped, and only an accepted reset clears.
FaultLogReplays ==
  [][/\ record'.published_faults \cap latched = {}
     /\ latched' = IF record'.reset_accepted THEN {}
                   ELSE latched \cup record'.published_faults]_bench_vars

\* FAULT_LATCHED is left only into SAFE_SHUTDOWN, in a sample that detected
\* nothing, with both deadlines kept and the outputs safe.
LatchEndsInSafeShutdown ==
  [][state = "FAULT_LATCHED" /\ state' # "FAULT_LATCHED" =>
       /\ state' = "SAFE_SHUTDOWN"
       /\ record'.reset_accepted
       /\ record'.detected_faults = {}
       /\ missed' < WatchdogSamples
       /\ stale_age' < EncoderStaleSamples
       /\ SafeOutput(record')]_bench_vars

=============================================================================
