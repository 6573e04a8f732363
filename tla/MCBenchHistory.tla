---------------------------- MODULE MCBenchHistory --------------------------
(***************************************************************************)
(* Instance of BenchHistory for TLC: fewer inputs than MCSupervisorBench,  *)
(* because the history multiplies the states.                              *)
(***************************************************************************)
EXTENDS BenchHistory

\* The supply is exactly at its threshold, which is healthy.
Nominal ==
  [QuietInput EXCEPT !.encoder_stale = FALSE, !.supply_voltage_v = UndervoltageThreshold]

MotionRequest ==
  [Nominal EXCEPT !.arm_request = TRUE, !.run_request = TRUE,
                  !.requested_motor_voltage_v = CommandLimit]

ResetRequest == [Nominal EXCEPT !.reset_request = TRUE]

Requests ==
  {Nominal, MotionRequest, ResetRequest,
   [MotionRequest EXCEPT !.shutdown_request = TRUE, !.reset_request = TRUE]}

\* Of the telemetry that faults, one field of each kind: an interval missed,
\* an encoder that reports itself bad, a relay, a supply just below its threshold.
Deviations ==
  {[r EXCEPT !.watchdog_heartbeat = FALSE] : r \in {MotionRequest, ResetRequest}}
  \cup {[r EXCEPT !.encoder_stale = TRUE] : r \in {MotionRequest, ResetRequest}}
  \cup {[r EXCEPT !.relay_feedback_failed = TRUE] : r \in {MotionRequest, ResetRequest}}
  \cup {[r EXCEPT !.encoder_failed = TRUE] : r \in {MotionRequest, ResetRequest}}
  \cup {[MotionRequest EXCEPT !.supply_voltage_v = UndervoltageThreshold - 1]}

\* Fields of the wrong type, and an argument that is no sample at all.
Malformations ==
  {[MotionRequest EXCEPT !.supply_voltage_v = Malformed],
   [MotionRequest EXCEPT !.relay_feedback_failed = Malformed],
   Malformed}

HistoryInputs == Requests \cup Deviations \cup Malformations

=============================================================================
