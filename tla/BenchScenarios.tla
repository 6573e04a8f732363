---------------------------- MODULE BenchScenarios ----------------------------
(***************************************************************************)
(* The validation of SIM-010, models/validate_sim.py: eleven scenarios     *)
(* that feed samples to a bench of their own and judge its records.        *)
(***************************************************************************)
EXTENDS ScenarioRuns

BenchScenarioNames ==
  <<"normal_startup_and_operation", "estop_activation", "watchdog_timeout",
    "stale_encoder_telemetry", "encoder_failure", "relay_feedback_failure",
    "undervoltage", "command_voltage_saturation", "fault_latching",
    "rejected_unsafe_restart", "successful_controlled_recovery">>

BenchScenario == BenchScenarioNames[scenario]

-----------------------------------------------------------------------------
(* The samples.                                                            *)

\* nominal_inputs
Nominal(c) ==
  [supply_voltage_v |-> c.nominal_supply_voltage_v, requested_motor_voltage_v |-> 0,
   arm_request |-> FALSE, run_request |-> FALSE, shutdown_request |-> FALSE,
   reset_request |-> FALSE, watchdog_heartbeat |-> TRUE, estop_active |-> FALSE,
   encoder_stale |-> FALSE, encoder_failed |-> FALSE, encoder_invalid |-> FALSE,
   relay_feedback_failed |-> FALSE]

Driving(c) ==
  [Nominal(c) EXCEPT !.arm_request = TRUE, !.run_request = TRUE,
                     !.requested_motor_voltage_v = c.normal_run_command_voltage_v]

Estop(c) == [Driving(c) EXCEPT !.estop_active = TRUE]

LowSupply(c) ==
  [Driving(c) EXCEPT !.supply_voltage_v = c.undervoltage_threshold_v - TenthOfVolt]

\* The injection_samples of _run_fault_injection, per scenario that uses it.
Injection(name, c) ==
  CASE name \in {"estop_activation", "rejected_unsafe_restart", "successful_controlled_recovery"} ->
         <<Estop(c)>>
    [] name = "watchdog_timeout" ->
         Repeat(c.watchdog_missed_heartbeat_samples,
                [Driving(c) EXCEPT !.watchdog_heartbeat = FALSE])
    [] name = "stale_encoder_telemetry" ->
         Repeat(c.encoder_stale_samples, [Driving(c) EXCEPT !.encoder_stale = TRUE])
    [] name = "encoder_failure" -> <<[Driving(c) EXCEPT !.encoder_failed = TRUE]>>
    [] name = "relay_feedback_failure" ->
         Repeat(c.relay_feedback_mismatch_samples,
                [Driving(c) EXCEPT !.relay_feedback_failed = TRUE])
    [] name \in {"undervoltage", "fault_latching"} -> <<LowSupply(c)>>
    [] OTHER -> <<>>

\* What a scenario does after its injection, or instead of one.
Aftermath(name, c) ==
  CASE name = "normal_startup_and_operation" ->
         Repeat(3, Driving(c))
         \o <<[Nominal(c) EXCEPT !.shutdown_request = TRUE]>>
         \o Repeat(c.safe_shutdown_hold_samples, Nominal(c))
    [] name = "command_voltage_saturation" ->
         <<[Driving(c) EXCEPT !.requested_motor_voltage_v =
              c.command_voltage_abs_max_v + TenthOfVolt]>>
    [] name = "fault_latching" -> Repeat(3, Driving(c))
    [] name = "rejected_unsafe_restart" -> <<[Driving(c) EXCEPT !.reset_request = TRUE]>>
    [] name = "successful_controlled_recovery" ->
         <<[Nominal(c) EXCEPT !.reset_request = TRUE]>>
         \o Repeat(c.safe_shutdown_hold_samples, Nominal(c))
         \o <<Nominal(c), Driving(c)>>
    [] OTHER -> <<>>

BenchScript(name, c) == Injection(name, c) \o Aftermath(name, c)

-----------------------------------------------------------------------------
(* The checks.                                                             *)

InjectedFault(name) ==
  CASE name \in {"estop_activation", "rejected_unsafe_restart", "successful_controlled_recovery"} ->
         "EMERGENCY_STOP"
    [] name = "watchdog_timeout"          -> "WATCHDOG_TIMEOUT"
    [] name = "stale_encoder_telemetry"   -> "ENCODER_STALE"
    [] name = "encoder_failure"           -> "ENCODER_FAILURE"
    [] name = "relay_feedback_failure"    -> "RELAY_FEEDBACK_FAILURE"
    [] name \in {"undervoltage", "fault_latching"} -> "UNDERVOLTAGE"

\* _fault_safe
FaultSafe(t) ==
  /\ \E i \in DOMAIN t : FaultEntry(t[i])
  /\ \A i \in DOMAIN t : FaultEntry(t[i]) => SafeEntry(t[i])

\* _run_fault_injection, over the trace up to the end of the injection.
FaultChecks(name, t) ==
  /\ \E i \in DOMAIN t : InjectedFault(name) \in t[i].record.published_faults
  /\ Last(t).state = "FAULT_LATCHED"
  /\ FaultSafe(t)
  /\ ~Last(t).record.relay_enable_command
  /\ Last(t).record.motor_command_v = 0

NormalChecks(t) ==
  /\ {"SAFE_STARTUP", "READY", "RUNNING", "SAFE_SHUTDOWN"} \subseteq {t[i].state : i \in DOMAIN t}
  /\ \E i \in DOMAIN t : /\ t[i].state = "RUNNING"
                         /\ t[i].record.motor_command_v # 0
                         /\ t[i].record.relay_enable_command
  /\ \A i \in DOMAIN t : t[i].state \in {"SAFE_STARTUP", "SAFE_SHUTDOWN"} => SafeEntry(t[i])
  /\ \A i \in DOMAIN t : t[i].record.published_faults = {} /\ ~t[i].record.reset_accepted
  /\ Last(t).state = "READY"

SaturationChecks(c, t) ==
  /\ Last(t).record.motor_command_v = c.command_voltage_abs_max_v
  /\ Last(t).record.command_saturated
  /\ Last(t).record.detected_faults = {} /\ Last(t).latched = {}
  /\ \A i \in DOMAIN t : t[i].record.published_faults = {}
  /\ Last(t).state = "RUNNING"
  /\ Last(t).record.relay_enable_command /\ Last(t).record.relay_enable_feedback

LatchingChecks(t) ==
  /\ Last(t).state = "FAULT_LATCHED" /\ "UNDERVOLTAGE" \in Last(t).latched
  /\ \A i \in DOMAIN t : t[i].state = "FAULT_LATCHED" => SafeEntry(t[i])

RejectedRestartChecks(t) ==
  /\ Last(t).record.reset_rejected /\ ~Last(t).record.reset_accepted
  /\ Last(t).state = "FAULT_LATCHED"
  /\ SafeEntry(Last(t))

\* after: the records since the injection.
RecoveryChecks(c, after) ==
  LET hold == c.safe_shutdown_hold_samples IN
  /\ after[1].record.reset_accepted
  /\ after[1].state = "SAFE_SHUTDOWN" /\ SafeEntry(after[1])
  /\ after[1 + hold].state = "READY"
  /\ after[2 + hold].state = "READY" /\ SafeEntry(after[2 + hold])
  /\ after[3 + hold].latched = {}
  /\ after[3 + hold].state = "RUNNING"
  /\ after[3 + hold].record.motor_command_v # 0
  /\ after[3 + hold].record.relay_enable_command

BenchChecks(name, c) ==
  LET injected == Len(trace) - Len(Aftermath(name, c))
      upto     == SubSeq(trace, 1, injected)
      after    == SubSeq(trace, injected + 1, Len(trace)) IN
  CASE name = "normal_startup_and_operation" -> NormalChecks(trace)
    [] name = "command_voltage_saturation" -> SaturationChecks(c, trace)
    [] name = "fault_latching" -> FaultChecks(name, upto) /\ LatchingChecks(trace)
    [] name = "rejected_unsafe_restart" -> FaultChecks(name, upto) /\ RejectedRestartChecks(trace)
    [] name = "successful_controlled_recovery" ->
         FaultChecks(name, upto) /\ RecoveryChecks(c, after)
    [] OTHER -> FaultChecks(name, trace)

-----------------------------------------------------------------------------
(* The run.                                                                *)

\* SupervisorTestBench.step with one sample.
BenchSample(c, in) ==
  /\ Supervisor(c)!Step(in)
  /\ Publish("")
  /\ UNCHANGED <<program, config, scenario, failed, frame_side>>

\* bring_to_running, up to READY: a bounded number of nominal samples.
BringUp ==
  /\ program = "SIM-010" /\ stage = "setup"
  /\ \E c \in {config} :
       /\ BenchSample(c, Nominal(c))
       /\ position' = position + 1
       /\ stage' = IF state' = "READY" THEN "disarmed"
                   ELSE IF position + 1 < c.safe_startup_healthy_samples + 2 THEN "setup"
                   ELSE "error"

\* bring_to_running, the complete disarmed sample.
StayDisarmed ==
  /\ program = "SIM-010" /\ stage = "disarmed"
  /\ \E c \in {config} : BenchSample(c, Nominal(c))
  /\ stage' = "arm"
  /\ UNCHANGED position

\* bring_to_running, the run transition.
ArmAndRun ==
  /\ program = "SIM-010" /\ stage = "arm"
  /\ \E c \in {config} : BenchSample(c, Driving(c))
  /\ stage' = IF state' = "RUNNING" THEN "script" ELSE "error"
  /\ position' = 0

FeedSample ==
  /\ program = "SIM-010" /\ stage = "script"
  /\ \E c \in {config} :
       /\ position < Len(BenchScript(BenchScenario, c))
       /\ BenchSample(c, BenchScript(BenchScenario, c)[position + 1])
  /\ position' = position + 1
  /\ UNCHANGED stage

JudgeBench ==
  /\ program = "SIM-010" /\ stage = "script"
  /\ position = Len(BenchScript(BenchScenario, config))
  /\ Conclude(BenchScenarioNames,
       {n \in {BenchScenario} : ~BenchChecks(BenchScenario, config)}
       \cup {n \in {"all_detected_or_latched_fault_records_safe"} :
               \E i \in DOMAIN trace : FaultEntry(trace[i]) /\ ~SafeEntry(trace[i])})

BenchRun == BringUp \/ StayDisarmed \/ ArmAndRun \/ FeedSample \/ JudgeBench

=============================================================================
