------------------------- MODULE MCSupervisorBench -------------------------
(***************************************************************************)
(* Instance of SupervisorBench for TLC.                                    *)
(*                                                                         *)
(* TelemetryInputs combines every request an operator can make with every  *)
(* deviation of the supervised telemetry, and with the pairs of deviations *)
(* in which two counters or the encoder's two flags interact.  Malformed   *)
(* values are MCBenchHistory's.                                            *)
(***************************************************************************)
EXTENDS SupervisorBench

Nominal ==
  [supply_voltage_v |-> NominalSupply, requested_motor_voltage_v |-> 0,
   arm_request |-> FALSE, run_request |-> FALSE,
   shutdown_request |-> FALSE, reset_request |-> FALSE,
   watchdog_heartbeat |-> TRUE, estop_active |-> FALSE,
   encoder_stale |-> FALSE, encoder_failed |-> FALSE,
   encoder_invalid |-> FALSE, relay_feedback_failed |-> FALSE]

ResetRequest == [Nominal EXCEPT !.reset_request = TRUE]

MotionRequest(v) ==
  [Nominal EXCEPT !.arm_request = TRUE, !.run_request = TRUE,
                  !.requested_motor_voltage_v = v]

Requests ==
  {Nominal, ResetRequest,
   [Nominal EXCEPT !.shutdown_request = TRUE],
   [ResetRequest EXCEPT !.arm_request = TRUE]}
  \cup {MotionRequest(v) : v \in {CommandLimit, -CommandLimit - 1}}

\* The requests that meet a deviation; the others come with nominal samples.
Supervised ==
  {Nominal, ResetRequest, [ResetRequest EXCEPT !.arm_request = TRUE],
   MotionRequest(CommandLimit)}

Deviations(r) ==
  {[r EXCEPT !.watchdog_heartbeat = FALSE],
   [r EXCEPT !.encoder_stale = TRUE],
   [r EXCEPT !.encoder_failed = TRUE],
   [r EXCEPT !.encoder_invalid = TRUE],
   [r EXCEPT !.relay_feedback_failed = TRUE],
   [r EXCEPT !.estop_active = TRUE],
   [r EXCEPT !.watchdog_heartbeat = FALSE, !.encoder_stale = TRUE],
   [r EXCEPT !.encoder_failed = TRUE, !.encoder_stale = TRUE]}

TelemetryInputs == Requests \cup UNION {Deviations(r) : r \in Supervised}

=============================================================================
