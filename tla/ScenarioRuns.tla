----------------------------- MODULE ScenarioRuns -----------------------------
(***************************************************************************)
(* What the two generators of evidence have in common: a configuration is  *)
(* loaded, every scenario gets a supervisor of its own, and the records it *)
(* publishes are judged when the scenario is over.  The supervisor is that *)
(* of SupervisorAdapter, once more for every configuration c.              *)
(*                                                                         *)
(* The second pass over the same scenarios, made to compare the two, is    *)
(* left out: a repetition of a deterministic computation.                  *)
(***************************************************************************)
EXTENDS SilConfiguration, Sequences

CONSTANTS
  Payloads, Motors,  \* the configuration files there may be
  NoConfig,          \* nothing loaded yet
  Falsy, NoFrame     \* of SupervisorAdapter

VARIABLES
  program,   \* which generator runs
  stage,     \* how far it is
  config,    \* the SyntheticSilConfig it loaded
  scenario,  \* the number of the scenario that runs
  position,  \* what was done of the current part of that scenario
  trace,     \* what the supervisor published in it
  failed,    \* the scenarios and overall checks that failed so far
  state, latched, startup_healthy, shutdown_hold, missed, sequence, stale_age,
  liveness, mismatch, disarmed_seen, record,
  command, encoder, safety, command_age, updated, protocol_invalid

supervisor_vars ==
  <<state, latched, startup_healthy, shutdown_hold, missed, sequence, stale_age,
    liveness, mismatch, disarmed_seen, record,
    command, encoder, safety, command_age, updated, protocol_invalid>>
frame_side == <<command, encoder, safety, command_age, updated, protocol_invalid>>
run_vars == <<program, stage, config, scenario, position, trace, failed, supervisor_vars>>

\* SupervisorTestBench and SupervisorAdapter, constructed for configuration c.
Supervisor(c) ==
  INSTANCE SupervisorAdapter WITH
    NominalSupply <- c.nominal_supply_voltage_v,
    UndervoltageThreshold <- c.undervoltage_threshold_v,
    CommandLimit <- c.command_voltage_abs_max_v,
    StartupSamples <- c.safe_startup_healthy_samples,
    ShutdownSamples <- c.safe_shutdown_hold_samples,
    WatchdogSamples <- c.watchdog_missed_heartbeat_samples,
    EncoderStaleSamples <- c.encoder_stale_samples,
    RelayMismatchSamples <- c.relay_feedback_mismatch_samples,
    CommandStaleSamples <- c.watchdog_missed_heartbeat_samples,
    Inputs <- {}, CommandFrames <- {}, EncoderFrames <- {}, SafetyFrames <- {},
    Deltas <- <<>>

Programs == {"SIM-010", "ROS2-010"}

RunInit(initial) ==
  /\ program \in Programs
  /\ stage = "load"
  /\ config = NoConfig
  /\ scenario = 1
  /\ position = 0
  /\ trace = <<>>
  /\ failed = {}
  /\ Supervisor(initial)!AdapterInit

\* The files are read before the first scenario; a file that is rejected ends
\* the program with an exception.
Load ==
  /\ stage = "load"
  /\ \E payload \in Payloads, motor \in Motors :
       \/ /\ Loadable(payload, motor)
          /\ stage' = "setup"
          /\ config' = Configuration(payload)
       \/ /\ ~Loadable(payload, motor)
          /\ stage' = "rejected"
          /\ UNCHANGED config
  /\ UNCHANGED <<program, scenario, position, trace, failed, supervisor_vars>>

\* One result of the supervisor, with the disposition of its encoder frame.
Entry(disposition) ==
  [state |-> state', latched |-> latched', liveness |-> liveness', record |-> record',
   encoder_disposition |-> disposition]

Publish(disposition) == trace' = Append(trace, Entry(disposition))

Repeat(n, item) == [i \in 1..n |-> item]

Last(t) == t[Len(t)]

SafeEntry(e) == ~e.record.relay_enable_command /\ e.record.motor_command_v = 0

FaultEntry(e) == e.record.detected_faults # {} \/ e.state = "FAULT_LATCHED"

\* The next scenario with a new supervisor, or the report.
Conclude(names, failures) ==
  /\ failed' = failed \cup failures
  /\ trace' = <<>>
  /\ position' = 0
  /\ scenario' = IF scenario < Len(names) THEN scenario + 1 ELSE scenario
  /\ stage' = IF scenario < Len(names) THEN "setup" ELSE "reported"
  /\ \E c \in {config} : Supervisor(c)!ReconstructAdapter
  /\ UNCHANGED <<program, config>>

=============================================================================
