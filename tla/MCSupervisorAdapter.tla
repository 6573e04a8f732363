------------------------ MODULE MCSupervisorAdapter ------------------------
(***************************************************************************)
(* Instances of SupervisorAdapter for TLC, and the frames that the modules *)
(* built on it are instantiated with.                                      *)
(***************************************************************************)
EXTENDS SupervisorAdapter

Disarm == [arm_request |-> FALSE, run_request |-> FALSE,
           shutdown_request |-> FALSE, requested_motor_voltage_v |-> 0]

Motion == [arm_request |-> TRUE, run_request |-> TRUE,
           shutdown_request |-> FALSE, requested_motor_voltage_v |-> CommandLimit]

Position == [healthy |-> TRUE, valid |-> TRUE, finite_position |-> TRUE]

Feedback(enabled) ==
  [supply_voltage_v |-> NominalSupply, software_estop_active |-> FALSE,
   watchdog_heartbeat |-> TRUE, relay_feedback_enabled |-> enabled,
   relay_feedback_healthy |-> TRUE]

Unhealthy == [Feedback(FALSE) EXCEPT !.relay_feedback_healthy = FALSE]

\* Nothing calls the bench but the adapter.
NoInputs == {}

\* A well-behaved system: the simulator mirrors the relay, late or not.
WellFormedCommands == {Disarm, Motion}
HealthyEncoders == {Position}
MirroringSafety == {Feedback(TRUE), Feedback(FALSE)}
Advances == [c \in Channels |-> {1}]

\* One malformed field at a time on each channel, and a relay that may report
\* itself unhealthy.  Malformed supplies are MCBenchHistory's.
MalformedCommands == {Motion, [Motion EXCEPT !.arm_request = Malformed]}
MalformedEncoders == {Position, [Position EXCEPT !.healthy = Malformed]}
MalformedSafety ==
  {Feedback(FALSE), Unhealthy, [Feedback(FALSE) EXCEPT !.watchdog_heartbeat = Malformed],
   [Feedback(FALSE) EXCEPT !.relay_feedback_healthy = Malformed]}

=============================================================================
