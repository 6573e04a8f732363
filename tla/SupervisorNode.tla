--------------------------- MODULE SupervisorNode ---------------------------
(***************************************************************************)
(* The ROS 2 process around the adapter, robot_supervisor/node.py: its     *)
(* construction, the timer, the subscriptions, the reset service, the test *)
(* exit after a number of ticks, the signal handler, and its death.        *)
(*                                                                         *)
(* The executor has one thread, so callbacks are atomic with respect to    *)
(* each other.  The signal handler runs inside the same thread and ends    *)
(* with the ROS context shut down: a callback it interrupts cannot publish *)
(* any more, so handling a signal is one step that ends the process.       *)
(* What a process that ended remembered is gone: its supervisor stands as  *)
(* a new one would.                                                        *)
(*                                                                         *)
(* Of the four outputs only the actuator command is kept, as the sample    *)
(* the depth-one transient-local topic holds for every consumer; status,   *)
(* telemetry and fault messages repeat the record of SupervisorBench.      *)
(***************************************************************************)
EXTENDS SupervisorAdapter

CONSTANT ExitChoices   \* the launch parameter synthetic_exit_after_ticks, 0 for never

ASSUME NodeAssumption == ExitChoices \subseteq Nat

VARIABLES
  process,                  \* the life of the process
  exit_after_ticks,         \* _synthetic_exit_after_ticks, read when the process starts
  tick_count,               \* _tick_count, counted only towards exit_after_ticks
  safe_shutdown_published,  \* _safe_shutdown_published
  actuator                  \* the last sample on the actuator topic

node_vars == <<process, exit_after_ticks, tick_count, safe_shutdown_published, actuator>>
system_vars == <<state, latched, startup_healthy, shutdown_hold, missed, sequence,
                 stale_age, liveness, mismatch, disarmed_seen, record,
                 command, encoder, safety, command_age, updated, protocol_invalid,
                 process, exit_after_ticks, tick_count, safe_shutdown_published, actuator>>

\* exiting: up, with _synthetic_exit_requested set.
\* exited: ended by itself or by a handled signal.  crashed: ended by anything else.
Process == {"absent", "up", "exiting", "exited", "crashed"}

Alive == process \in {"up", "exiting"}

ActuatorCommand == [relay_enable : BOOLEAN, motor_voltage_v : Int]

SafeActuator == [relay_enable |-> FALSE, motor_voltage_v |-> 0]

\* actuator_mapping
ActuatorMapping(r) ==
  [relay_enable |-> r.relay_enable_command, motor_voltage_v |-> r.motor_command_v]

NodeInit ==
  /\ AdapterInit
  /\ process = "absent"
  /\ exit_after_ticks = 0
  /\ tick_count = 0
  /\ safe_shutdown_published = FALSE
  /\ actuator = SafeActuator

\* Wrong: nothing is published before the first timer callback.
StartSilent ==
  /\ ~Alive
  /\ process' = "up"
  /\ exit_after_ticks' \in ExitChoices
  /\ tick_count' = 0
  /\ safe_shutdown_published' = FALSE
  /\ actuator' = actuator
  /\ ReconstructAdapter

\* The constructor: a fresh adapter and bench, and a safe output before the
\* timer exists.  After a crash or an exit this is a restart.
Start ==
  /\ ~Alive
  /\ process' = "up"
  /\ exit_after_ticks' \in ExitChoices
  /\ tick_count' = 0
  /\ safe_shutdown_published' = FALSE
  /\ actuator' = SafeActuator
  /\ ReconstructAdapter

\* _publish_safe_output for the two terminal reasons: only the first one of a
\* process is published.
PublishTerminalSafeOutput ==
  /\ safe_shutdown_published' = TRUE
  /\ actuator' = IF safe_shutdown_published THEN actuator ELSE SafeActuator

-----------------------------------------------------------------------------
(* The timer callback, _on_tick.                                           *)

\* Wrong: the exit waits for one more tick, which an exiting process never takes.
FinishExitBeyondLimit ==
  /\ process = "exiting"
  /\ tick_count > exit_after_ticks
  /\ process' = "exited"
  /\ ReconstructAdapter
  /\ UNCHANGED <<exit_after_ticks, tick_count, safe_shutdown_published, actuator>>

\* rclpy.shutdown: spin returns and main publishes nothing more.
FinishExit ==
  /\ process = "exiting"
  /\ process' = "exited"
  /\ ReconstructAdapter
  /\ UNCHANGED <<exit_after_ticks, tick_count, safe_shutdown_published, actuator>>

AwaitTelemetry ==
  /\ process = "up"
  /\ ~InitialTelemetryReceived
  /\ actuator' = SafeActuator
  /\ UNCHANGED <<bench_vars, adapter_vars, process, exit_after_ticks, tick_count, safe_shutdown_published>>

LastTick == exit_after_ticks > 0 /\ tick_count + 1 >= exit_after_ticks

OrdinaryTick ==
  /\ process = "up"
  /\ InitialTelemetryReceived
  /\ ~LastTick
  /\ Tick(FALSE)
  /\ actuator' = ActuatorMapping(record')
  /\ tick_count' = IF exit_after_ticks = 0 THEN 0 ELSE tick_count + 1
  /\ UNCHANGED <<process, exit_after_ticks, safe_shutdown_published>>

\* The tick that reaches the limit: its result, then the terminal safe
\* output, and the exit is left to the next timer callback.
ExitTick ==
  /\ process = "up"
  /\ InitialTelemetryReceived
  /\ LastTick
  /\ Tick(FALSE)
  /\ safe_shutdown_published' = TRUE
  /\ actuator' = IF safe_shutdown_published THEN ActuatorMapping(record') ELSE SafeActuator
  /\ tick_count' = tick_count + 1
  /\ process' = "exiting"
  /\ UNCHANGED exit_after_ticks

OnTick == FinishExit \/ AwaitTelemetry \/ OrdinaryTick \/ ExitTick

-----------------------------------------------------------------------------
(* Subscriptions, service, signals and death.                              *)

OnMessage ==
  /\ Alive
  /\ Ingest
  /\ UNCHANGED node_vars

\* Wrong: the reset's tick is not published.
OnResetSilent ==
  /\ Alive
  /\ ResetTick
  /\ UNCHANGED node_vars

\* _on_reset looks neither at first contact nor at the requested exit.
OnReset ==
  /\ Alive
  /\ ResetTick
  /\ actuator' = ActuatorMapping(record')
  /\ UNCHANGED <<process, exit_after_ticks, tick_count, safe_shutdown_published>>

\* Wrong: the context goes down before anything is published.
OnSignalSilent ==
  /\ Alive
  /\ process' = "exited"
  /\ ReconstructAdapter
  /\ UNCHANGED <<exit_after_ticks, tick_count, safe_shutdown_published, actuator>>

\* safe_signal_handler for SIGINT and SIGTERM.  An exception that leaves spin is
\* another end, not modelled: main's finally clause publishes as well, but spins
\* once more, and the callback it may serve publishes after it.
OnSignal ==
  /\ Alive
  /\ PublishTerminalSafeOutput
  /\ process' = "exited"
  /\ ReconstructAdapter
  /\ UNCHANGED <<exit_after_ticks, tick_count>>

\* SIGKILL, power loss or an interpreter that dies: nothing is published.
Crash ==
  /\ Alive
  /\ process' = "crashed"
  /\ ReconstructAdapter
  /\ UNCHANGED <<exit_after_ticks, tick_count, safe_shutdown_published, actuator>>

NodeNext == Start \/ OnTick \/ OnMessage \/ OnReset \/ OnSignal \/ Crash

NodeSpec == NodeInit /\ [][NodeNext]_system_vars

\* The timer of a process that stays up keeps firing.
FairNodeSpec == NodeSpec /\ WF_system_vars(OnTick)

-----------------------------------------------------------------------------
(* Properties.                                                             *)

NodeTypeOK ==
  /\ AdapterTypeOK
  /\ process \in Process
  /\ exit_after_ticks \in ExitChoices \cup {0}
  /\ tick_count \in 0..exit_after_ticks
  /\ safe_shutdown_published \in BOOLEAN
  /\ actuator \in ActuatorCommand

ActuatorSafe == actuator = SafeActuator

\* A live process never leaves a command on the topic that its supervisor no
\* longer stands behind, nor one its crashed predecessor left: an enabled
\* actuator means RUNNING, no latched fault and a command frame of this
\* process's own life.
TopicFollowsSupervisor ==
  Alive /\ ~ActuatorSafe =>
    /\ state = "RUNNING"
    /\ latched = {}
    /\ command # NoFrame
    /\ actuator = ActuatorMapping(record)

\* No motion before both telemetry owners were heard.  The timer waits for
\* them, but _on_reset does not: what keeps a series of resets from driving
\* the motor without a watchdog owner is that its deadline passes first, which
\* depends on the configured threshold.
MotionNeedsContact == Alive /\ ~ActuatorSafe => InitialTelemetryReceived

\* A process that ended by a handled signal or by its own test exit leaves a
\* safe command as its last word ("normal and test-triggered shutdown publish
\* safe output before process exit", docs/ros2_010_middleware_integration.md).
LastWordIsSafe == process = "exited" => ActuatorSafe

\* A process that is ended by a handled signal, with no test exit under way,
\* leaves a safe command as its last word, whatever it was doing.
SignalledEndIsSafe == process = "exited" /\ exit_after_ticks = 0 => ActuatorSafe

\* "Before first contact from both required telemetry owners, the node
\* publishes safe actuator output on every timer callback but does not
\* advance SIM-010" (docs/ros2_010_middleware_integration.md).
NoSampleBeforeContact ==
  [][Alive /\ ~InitialTelemetryReceived => UNCHANGED bench_vars]_system_vars

\* The requested exit happens: no stream of messages or resets postpones it.
ExitCompletes == process = "exiting" ~> process # "exiting"

\* A retained command is no indefinite motion request: while the process
\* stays up and its command stays stale, the topic ends up holding a safe
\* command, whatever telemetry, resets and test exits do meanwhile.
StaleCommandDisarms ==
  <>[](process = "up" /\ command_age = CommandStaleSamples) => <>[]ActuatorSafe

=============================================================================
