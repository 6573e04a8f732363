--------------------------- MODULE AdapterScenarios ---------------------------
(***************************************************************************)
(* The evidence of ROS2-010, robot_supervisor/generate_evidence.py: a      *)
(* harness publishes the frames of a scenario to an adapter of its own and *)
(* judges the results of its ticks.                                        *)
(*                                                                         *)
(* One call of Harness.step takes up to four steps here, one for each      *)
(* frame it publishes and one for the tick.                                *)
(***************************************************************************)
EXTENDS ScenarioRuns

AdapterScenarioNames ==
  <<"normal_startup_running_and_saturation", "software_estop", "watchdog_n_minus_one_and_n",
    "missing_encoder_n_minus_one_and_n", "duplicate_encoder", "out_of_order_encoder",
    "encoder_failure", "relay_feedback_n_minus_one_and_n", "undervoltage",
    "malformed_nonfinite_command", "fault_latch_reset_and_controlled_recovery",
    "supervisor_restart", "simulator_telemetry_disappearance">>

AdapterScenario == AdapterScenarioNames[scenario]

-----------------------------------------------------------------------------
(* The calls.                                                              *)

\* Harness.step with its defaults.
Call ==
  [operation |-> "step", arm |-> FALSE, run |-> FALSE, command_v |-> 0,
   encoder |-> TRUE, encoder_delta |-> 1, encoder_healthy |-> TRUE,
   safety |-> TRUE, heartbeat |-> TRUE, estop |-> FALSE, supply_v |-> 6 * Volt,
   relay_follows |-> TRUE, relay_healthy |-> TRUE]

Drive == [Call EXCEPT !.arm = TRUE, !.run = TRUE, !.command_v = 2 * Volt]

ResetCall == [Call EXCEPT !.operation = "reset"]
RestartCall == [Call EXCEPT !.operation = "restart"]

\* Harness.running, before the script of every scenario.
RunningCalls == Repeat(4, Call) \o <<Drive>>

Larger(m, n) == IF m > n THEN m ELSE n

AdapterScript(name, c) ==
  CASE name = "normal_startup_running_and_saturation" ->
         <<Drive, [Drive EXCEPT !.command_v = 7 * Volt]>>
    [] name = "software_estop" -> <<[Drive EXCEPT !.estop = TRUE]>>
    [] name = "watchdog_n_minus_one_and_n" ->
         Repeat(c.watchdog_missed_heartbeat_samples, [Drive EXCEPT !.heartbeat = FALSE])
    [] name = "missing_encoder_n_minus_one_and_n" ->
         Repeat(c.encoder_stale_samples, [Drive EXCEPT !.encoder = FALSE])
    [] name = "duplicate_encoder" ->
         Repeat(c.encoder_stale_samples, [Drive EXCEPT !.encoder_delta = 0])
    [] name = "out_of_order_encoder" -> <<[Drive EXCEPT !.encoder_delta = -1]>>
    [] name = "encoder_failure" -> <<[Drive EXCEPT !.encoder_healthy = FALSE]>>
    [] name = "relay_feedback_n_minus_one_and_n" ->
         Repeat(c.relay_feedback_mismatch_samples,
                [Drive EXCEPT !.relay_follows = FALSE, !.relay_healthy = FALSE])
    [] name = "undervoltage" ->
         <<[Drive EXCEPT !.supply_v = c.undervoltage_threshold_v],
           [Drive EXCEPT !.supply_v = c.undervoltage_threshold_v - TenthOfVolt]>>
    [] name = "malformed_nonfinite_command" -> <<[Drive EXCEPT !.command_v = Malformed]>>
    [] name = "fault_latch_reset_and_controlled_recovery" ->
         <<[Drive EXCEPT !.estop = TRUE], Drive, ResetCall, Call, ResetCall>>
         \o Repeat(c.safe_shutdown_hold_samples, Drive)
         \o <<Drive, Call, Drive>>
    [] name = "supervisor_restart" -> <<RestartCall>>
    [] name = "simulator_telemetry_disappearance" ->
         Repeat(Larger(c.encoder_stale_samples, c.watchdog_missed_heartbeat_samples),
                [Drive EXCEPT !.encoder = FALSE, !.safety = FALSE])

Calls == RunningCalls \o AdapterScript(AdapterScenario, config)
ThisCall == Calls[position + 1]

-----------------------------------------------------------------------------
(* The checks, over the results t of the script.                           *)

\* _safe_fault
SafeFault(e, code) == e.state = "FAULT_LATCHED" /\ code \in e.latched /\ SafeEntry(e)

\* The result before the last one exists, and code is not detected in it.
HealthyBefore(t, code) == Len(t) > 1 /\ code \notin t[Len(t) - 1].record.detected_faults

NormalAndSaturation(t) ==
  /\ t[1].state = "RUNNING" /\ t[1].record.motor_command_v = 2 * Volt
  /\ t[2].record.motor_command_v = 6 * Volt
  /\ t[2].record.command_saturated
  /\ t[2].latched = {}

EncoderDuplicate(t) ==
  /\ \A i \in DOMAIN t : t[i].encoder_disposition = "DUPLICATE"
  /\ SafeFault(Last(t), "ENCODER_STALE")

RelayBoundary(t) ==
  /\ HealthyBefore(t, "RELAY_FEEDBACK_FAILURE")
  /\ t[Len(t) - 1].record.motor_command_v = 0
  /\ SafeFault(Last(t), "RELAY_FEEDBACK_FAILURE")

LatchResetRecovery(c, t) ==
  LET hold == c.safe_shutdown_hold_samples IN
  /\ t[2].state = "FAULT_LATCHED"
  /\ ~t[3].record.reset_accepted /\ t[3].record.reset_rejected
  /\ t[5].record.reset_accepted
  /\ t[5 + hold].state = "READY" /\ t[6 + hold].state = "READY"
  /\ t[8 + hold].state = "RUNNING"

RestartedSafely(t) ==
  /\ t[1].state = "SAFE_STARTUP" /\ SafeEntry(t[1])
  /\ ~t[1].liveness

AdapterChecks(name, c, t) ==
  CASE name = "normal_startup_running_and_saturation" -> NormalAndSaturation(t)
    [] name = "software_estop" -> SafeFault(t[1], "EMERGENCY_STOP")
    [] name = "watchdog_n_minus_one_and_n" ->
         HealthyBefore(t, "WATCHDOG_TIMEOUT") /\ SafeFault(Last(t), "WATCHDOG_TIMEOUT")
    [] name = "missing_encoder_n_minus_one_and_n" ->
         HealthyBefore(t, "ENCODER_STALE") /\ SafeFault(Last(t), "ENCODER_STALE")
    [] name = "duplicate_encoder" -> EncoderDuplicate(t)
    [] name = "out_of_order_encoder" ->
         t[1].encoder_disposition = "OUT_OF_ORDER" /\ SafeFault(t[1], "ENCODER_INVALID")
    [] name = "encoder_failure" -> SafeFault(t[1], "ENCODER_FAILURE")
    [] name = "relay_feedback_n_minus_one_and_n" -> RelayBoundary(t)
    [] name = "undervoltage" ->
         "UNDERVOLTAGE" \notin t[1].record.detected_faults /\ SafeFault(t[2], "UNDERVOLTAGE")
    [] name = "malformed_nonfinite_command" -> SafeFault(t[1], "INVALID_COMMAND")
    [] name = "fault_latch_reset_and_controlled_recovery" -> LatchResetRecovery(c, t)
    [] name = "supervisor_restart" -> RestartedSafely(t)
    [] name = "simulator_telemetry_disappearance" ->
         Last(t).state = "FAULT_LATCHED" /\ SafeEntry(Last(t))

-----------------------------------------------------------------------------
(* The run: each call from the command frame to the tick.                  *)

Calling == program = "ROS2-010" /\ position < Len(Calls)

\* A construction of the adapter is followed by the calls of the scenario.
BeginScenario ==
  /\ program = "ROS2-010" /\ stage = "setup"
  /\ stage' = "command"
  /\ UNCHANGED <<program, config, scenario, position, trace, failed, supervisor_vars>>

PublishCommand ==
  /\ Calling /\ stage = "command" /\ ThisCall.operation = "step"
  /\ \E c \in {config} :
       Supervisor(c)!IngestCommand(
         [arm_request |-> ThisCall.arm, run_request |-> ThisCall.run,
          shutdown_request |-> FALSE, requested_motor_voltage_v |-> ThisCall.command_v], 1)
  /\ stage' = "encoder"
  /\ UNCHANGED <<program, config, scenario, position, trace, failed>>

PublishEncoder ==
  /\ Calling /\ stage = "encoder"
  /\ IF ThisCall.encoder
     THEN \E c \in {config} :
            Supervisor(c)!IngestEncoder(
              [healthy |-> ThisCall.encoder_healthy, valid |-> TRUE, finite_position |-> TRUE],
              ThisCall.encoder_delta)
     ELSE UNCHANGED supervisor_vars
  /\ stage' = "safety"
  /\ UNCHANGED <<program, config, scenario, position, trace, failed>>

\* The feedback follows the relay of the preceding result unless the call
\* says otherwise.
PublishSafety ==
  /\ Calling /\ stage = "safety"
  /\ IF ThisCall.safety
     THEN \E c \in {config} :
            Supervisor(c)!IngestSafety(
              [supply_voltage_v |-> ThisCall.supply_v, software_estop_active |-> ThisCall.estop,
               watchdog_heartbeat |-> ThisCall.heartbeat,
               relay_feedback_enabled |-> ThisCall.relay_follows /\ record.relay_enable_command,
               relay_feedback_healthy |-> ThisCall.relay_healthy], 1)
     ELSE UNCHANGED supervisor_vars
  /\ stage' = "tick"
  /\ UNCHANGED <<program, config, scenario, position, trace, failed>>

\* Harness.restart: the adapter is constructed anew and ticks without frames.
RestartAdapter ==
  /\ Calling /\ stage = "command" /\ ThisCall.operation = "restart"
  /\ \E c \in {config} : Supervisor(c)!ReconstructAdapter
  /\ stage' = "tick"
  /\ UNCHANGED <<program, config, scenario, position, trace, failed>>

Disposition(c) ==
  IF ThisCall.operation = "step" /\ ThisCall.encoder
  THEN Supervisor(c)!Classify(encoder, ThisCall.encoder_delta) ELSE ""

\* The result of a call; running() insists that its last one is RUNNING.
TickOrReset ==
  /\ Calling
  /\ \/ stage = "tick"
     \/ stage = "command" /\ ThisCall.operation = "reset"
  /\ \E c \in {config} :
       /\ Supervisor(c)!Tick(ThisCall.operation = "reset")
       /\ Publish(Disposition(c))
  /\ position' = position + 1
  /\ stage' = IF position + 1 = Len(RunningCalls) /\ state' # "RUNNING"
              THEN "error" ELSE "command"
  /\ UNCHANGED <<program, config, scenario, failed>>

JudgeAdapter ==
  /\ program = "ROS2-010" /\ stage = "command" /\ position = Len(Calls)
  /\ LET results == SubSeq(trace, Len(RunningCalls) + 1, Len(trace)) IN
     Conclude(AdapterScenarioNames,
       {n \in {AdapterScenario} : ~AdapterChecks(AdapterScenario, config, results)}
       \cup {n \in {"all_detected_or_latched_fault_outputs_safe"} :
               \E i \in DOMAIN trace : FaultEntry(trace[i]) /\ ~SafeEntry(trace[i])}
       \cup {n \in {"startup_output_safe"} :
               \/ ~SafeEntry(trace[1])
               \/ AdapterScenario = "supervisor_restart" /\ ~SafeEntry(Last(trace))})

AdapterRun ==
  BeginScenario \/ PublishCommand \/ PublishEncoder \/ PublishSafety
  \/ RestartAdapter \/ TickOrReset \/ JudgeAdapter

=============================================================================
