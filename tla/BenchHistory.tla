---------------------------- MODULE BenchHistory ----------------------------
(***************************************************************************)
(* SupervisorBench with history variables: what happened in the samples    *)
(* before the present one, recorded from the inputs and the published      *)
(* record and never from the bench's own counters.  The history takes no   *)
(* part in any guard.                                                      *)
(*                                                                         *)
(* The liveness properties assume that the timer that calls step keeps     *)
(* running: weak fairness of the step, nothing about the inputs.           *)
(***************************************************************************)
EXTENDS SupervisorBench

VARIABLES
  input,           \* the validated sample of the last step
  faulted,         \* a sample detected a fault
  calm,            \* consecutive samples that detected nothing
  driven,          \* a sample commanded the relay on
  dark,            \* consecutive samples with the relay off
  disarmed_since,  \* a disarmed sample began in READY since the last sample
                   \* that began in another state than READY or RUNNING
  recovering,      \* consecutive calm samples from one with a reset request on
  unheard_drive    \* per watched source, samples with the relay on since it was heard

vars == <<state, latched, startup_healthy, shutdown_hold, missed, sequence,
          stale_age, liveness, mismatch, disarmed_seen, record,
          input, faulted, calm, driven, dark, disarmed_since, recovering, unheard_drive>>

\* The way to READY leads through the hold of SAFE_SHUTDOWN after a fault and
\* through that of SAFE_STARTUP as long as there was none.
Hold == IF faulted THEN ShutdownSamples ELSE StartupSamples

LongerHold == IF StartupSamples < ShutdownSamples THEN ShutdownSamples ELSE StartupSamples

\* The fewest fault-free samples up to one that runs: the reset's own sample,
\* or the one that gives the encoder its baseline, the hold, the disarmed
\* sample and the armed one.
RestartSamples == Hold + 3

\* The fewest samples with the relay off between two with the relay on: the
\* one that enters SAFE_SHUTDOWN, its hold and the disarmed sample.
RelayOffSamples == ShutdownSamples + 2

\* Samples nobody tells apart are counted no further.
CountLimit == LongerHold + 3

\* The most samples from a reset request in calm to READY: the sample of the
\* reset or of the encoder's baseline, and the longer of the two holds.
RecoverySamples == LongerHold + 1

\* The sources that SIM-010 supervises by counting, and their deadlines.
DriveLimit == [encoder |-> EncoderStaleSamples, heartbeat |-> WatchdogSamples]

\* What the bench starts from; no sample has been taken.
QuietInput ==
  [supply_voltage_v |-> NominalSupply, requested_motor_voltage_v |-> 0,
   arm_request |-> FALSE, run_request |-> FALSE,
   shutdown_request |-> FALSE, reset_request |-> FALSE,
   watchdog_heartbeat |-> TRUE, estop_active |-> FALSE,
   encoder_stale |-> TRUE, encoder_failed |-> FALSE,
   encoder_invalid |-> FALSE, relay_feedback_failed |-> FALSE]

HistoryInit ==
  /\ Init
  /\ input = QuietInput
  /\ faulted = FALSE
  /\ calm = 0
  /\ driven = FALSE
  /\ dark = 0
  /\ disarmed_since = FALSE
  /\ recovering = 0
  /\ unheard_drive = [encoder |-> 0, heartbeat |-> 0]

\* A sample with nothing wrong, a fresh encoder and no request for motion.
CalmInput ==
  /\ ~input.arm_request /\ ~input.run_request /\ ~input.shutdown_request
  /\ input.watchdog_heartbeat /\ ~input.estop_active
  /\ ~input.encoder_stale /\ ~input.encoder_failed /\ ~input.encoder_invalid
  /\ ~input.relay_feedback_failed
  /\ input.supply_voltage_v >= UndervoltageThreshold
  /\ record.detected_faults \cap
       {"INVALID_RUNTIME_INPUT", "INVALID_SUPPLY_VOLTAGE", "INVALID_COMMAND"} = {}

\* One more sample with the relay on, or the source is heard.
Drive(source, heard) ==
  IF heard THEN 0
  ELSE IF record'.relay_enable_command
  THEN Bump(unheard_drive[source], DriveLimit[source]) ELSE unheard_drive[source]

Remember(in) ==
  /\ input' = Validated(in)
  /\ faulted' = (faulted \/ record'.detected_faults # {})
  /\ calm' = IF record'.detected_faults = {} THEN Bump(calm, CountLimit) ELSE 0
  /\ driven' = (driven \/ record'.relay_enable_command)
  /\ dark' = IF record'.relay_enable_command THEN 0 ELSE Bump(dark, CountLimit)
  /\ disarmed_since' =
       /\ state \in {"READY", "RUNNING"}
       /\ state' \in {"READY", "RUNNING"}
       /\ disarmed_since \/ (~input'.arm_request /\ ~input'.run_request)
  /\ recovering' = IF CalmInput' /\ (recovering > 0 \/ input'.reset_request)
                   THEN Bump(recovering, RecoverySamples) ELSE 0
  /\ unheard_drive' = [encoder   |-> Drive("encoder", ~input'.encoder_stale),
                       heartbeat |-> Drive("heartbeat", input'.watchdog_heartbeat)]

HistoryNext == \E in \in Inputs : Step(in) /\ Remember(in)

HistorySpec == HistoryInit /\ [][HistoryNext]_vars

\* The timer never stops calling step.
FairSpec == HistorySpec /\ WF_vars(HistoryNext)

-----------------------------------------------------------------------------
(* Safety over several samples.                                            *)

\* A fault keeps the motor off for at least the whole recovery sequence, and
\* construction for the whole startup: no order of resets and requests reaches
\* RUNNING in fewer fault-free samples.
RestartTakesItsTime == state = "RUNNING" => calm >= RestartSamples

\* The relay is not switched on again within the shutdown hold after it went
\* off, whatever made it go off.
RelayStaysOff ==
  [][driven /\ state # "RUNNING" /\ state' = "RUNNING" => dark >= RelayOffSamples]_vars

\* A request held through safe shutdown, through a reset or into READY starts
\* nothing: between the last sample outside READY and RUNNING and the motion
\* there is a sample taken in READY with arm and run both low.
HeldRequestStartsNothing == state = "RUNNING" => disarmed_since

\* A reset is never accepted with arm or run active, with the raw relay
\* feedback source still failing, under an E-stop, on an encoder that reports
\* itself failed or invalid, or below the supply threshold.
ResetInterlock ==
  record.reset_accepted =>
    /\ input.reset_request /\ ~input.arm_request /\ ~input.run_request
    /\ ~input.relay_feedback_failed /\ ~input.estop_active
    /\ ~input.encoder_failed /\ ~input.encoder_invalid
    /\ input.supply_voltage_v >= UndervoltageThreshold
    /\ ~record.reset_rejected

\* The sample that starts or continues motion is itself sound, as it arrives
\* and after every malformed field has become its safe default; the motor is
\* driven only over a relay that this very sample confirms.
RunningNeedsSoundInput ==
  state = "RUNNING" =>
    /\ input.arm_request /\ input.run_request /\ ~input.shutdown_request
    /\ ~input.estop_active /\ ~input.encoder_failed /\ ~input.encoder_invalid
    /\ input.supply_voltage_v >= UndervoltageThreshold
    /\ record.motor_command_v # 0 => ~input.relay_feedback_failed

\* Recovery takes bounded time: an operator who asks for a reset in a sample
\* with nothing wrong gets a supervisor in READY within RecoverySamples calm
\* samples, whatever state, latch, hold or half-finished startup it was in.
RecoveryTakesBoundedTime == recovering >= RecoverySamples => state = "READY"

\* A source that is silent is driven on for less than its deadline in all: not
\* only does each run end in time, but no sequence of latches, resets, failed
\* samples and new runs adds up to more before the source is heard again.
UnheardDriveIsBounded ==
  \A source \in DOMAIN DriveLimit : unheard_drive[source] < DriveLimit[source]

\* Startup liveness comes from a genuine advance: a valid, healthy sample
\* with a new sequence (docs/sim_010_software_in_loop.md, "A valid sequence
\* change resets age to zero and is the only event that establishes startup
\* liveness").
LivenessFromHealthyAdvance ==
  [][~liveness /\ liveness' =>
       /\ ~input'.encoder_stale
       /\ ~input'.encoder_failed
       /\ ~input'.encoder_invalid]_vars

-----------------------------------------------------------------------------
(* Liveness.                                                               *)

\* No latch is for ever: once the environment stays calm and the operator
\* keeps asking for a reset, the supervisor gets back to READY and stays.
RecoveryPossible ==
  <>[]CalmInput /\ []<>(input.reset_request) => <>[](state = "READY")

\* When the encoder or the heartbeat falls silent for good, so does the motor.
SilenceStopsMotor ==
  <>[](input.encoder_stale) \/ <>[](~input.watchdog_heartbeat) => <>[]SafeOutput(record)

=============================================================================
