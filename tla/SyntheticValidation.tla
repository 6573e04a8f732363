------------------------- MODULE SyntheticValidation -------------------------
(***************************************************************************)
(* Both generators of evidence, from the configuration files to the        *)
(* verdict: for which configurations that SyntheticSilConfig accepts do    *)
(* they report PASS?                                                       *)
(***************************************************************************)
EXTENDS BenchScenarios, AdapterScenarios

ValidationNext == Load \/ BenchRun \/ AdapterRun

ValidationVars ==
  <<program, stage, config, scenario, position, trace, failed, state, latched,
    startup_healthy, shutdown_hold, missed, sequence, stale_age, liveness, mismatch,
    disarmed_seen, record, command, encoder, safety, command_age, updated, protocol_invalid>>

\* A configuration for the supervisor that stands before any is loaded.
AnyConfig == [f \in Fields |-> 1]

ValidationSpec == RunInit(AnyConfig) /\ [][ValidationNext]_ValidationVars

-----------------------------------------------------------------------------
(* Properties.                                                             *)

\* What SupervisorBench assumes of its constants holds of every configuration
\* that passes both layers of validation, and the motion it runs by default
\* is within its own limit.
AcceptedConfigurationIsSound ==
  config # NoConfig =>
    /\ \A f \in ThresholdFields : config[f] \in Nat \ {0}
    /\ config.undervoltage_threshold_v \in Nat \ {0}
    /\ config.undervoltage_threshold_v < config.nominal_supply_voltage_v
    /\ config.normal_run_command_voltage_v \in 1..config.command_voltage_abs_max_v

\* Every accepted configuration brings SIM-010's scenarios to RUNNING and
\* passes them, but for one whose undervoltage threshold lies below the tenth
\* of a volt its scenarios subtract: the sample is then no low supply but an
\* invalid one.
BenchValidationVerdict ==
  program = "SIM-010" /\ stage \in {"error", "reported"} =>
    /\ stage = "reported"
    /\ failed = IF config.undervoltage_threshold_v < TenthOfVolt
                THEN {"undervoltage", "fault_latching"} ELSE {}

\* The configurations for which the harness, with its own fixed voltages and
\* its fixed number of startup samples, reaches RUNNING at all.
HarnessStarts(c) ==
  /\ c.safe_startup_healthy_samples <= 2
  /\ c.undervoltage_threshold_v <= 6 * Volt

\* The scenarios of ROS2-010 that fail, per accepted configuration: a boundary
\* at N = 1 has no sample N - 1, and voltages are those of the shipped file.
HarnessFailures(c) ==
  {n \in {"watchdog_n_minus_one_and_n"} : c.watchdog_missed_heartbeat_samples = 1}
  \cup {n \in {"missing_encoder_n_minus_one_and_n"} : c.encoder_stale_samples = 1}
  \cup {n \in {"relay_feedback_n_minus_one_and_n"} : c.relay_feedback_mismatch_samples = 1}
  \cup {n \in {"fault_latch_reset_and_controlled_recovery"} :
          c.watchdog_missed_heartbeat_samples = 1 \/ c.encoder_stale_samples = 1}
  \cup {n \in {"supervisor_restart"} : c.watchdog_missed_heartbeat_samples = 1}
  \cup {n \in {"normal_startup_running_and_saturation"} :
          c.command_voltage_abs_max_v # 6 * Volt}
  \cup {n \in {"undervoltage"} : c.undervoltage_threshold_v < TenthOfVolt}

\* The evidence of ROS2-010 is PASS for the shipped configuration and for
\* exactly those others the harness is written for.
AdapterEvidenceVerdict ==
  program = "ROS2-010" /\ stage \in {"error", "reported"} =>
    IF HarnessStarts(config) THEN stage = "reported" /\ failed = HarnessFailures(config)
    ELSE stage = "error"

=============================================================================
