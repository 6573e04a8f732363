------------------------------- MODULE Topology -------------------------------
(***************************************************************************)
(* The two processes of simulated_topology.launch.py and the topics that   *)
(* join them: SupervisorNode and SimulatorNode.                            *)
(*                                                                         *)
(* Both timers are periodic, so between two callbacks of the supervisor's  *)
(* there are MinBurst to MaxBurst callbacks of the simulator's, and every  *)
(* message is delivered before the simulator publishes its next one.  The  *)
(* topics are reliable and keep order, hence a topic holds at most one     *)
(* message under way; when a reader or its process goes, so does the       *)
(* message.  SupervisorNode by itself covers arbitrary rates and losses.   *)
(***************************************************************************)
EXTENDS SupervisorNode, SimulatorNode

CONSTANTS
  MinBurst, MaxBurst,  \* simulator ticks between two supervisor ticks
  MaxBehind,           \* how far a restarted publisher's number may be behind
  RestartLags,         \* the publishers' distances behind that a restart may meet
  MaxDisturbances      \* how many faults are injected and simulators lost

\* The frames and numbers of the simulator are among those the supervisor may
\* get.
ASSUME TopologyAssumption ==
  /\ MinBurst \in Nat \ {0} /\ MaxBurst \in Nat /\ MinBurst <= MaxBurst
  /\ MaxBehind \in Nat /\ MaxDisturbances \in Nat
  /\ NoNumbers \in RestartLags /\ RestartLags \subseteq [Publishers -> 0..MaxBehind]
  /\ AutoCommands \subseteq CommandFrames \cup {NoMessage}
  /\ SimEncoders \subseteq EncoderFrames /\ SimSafety \subseteq SafetyFrames
  /\ \A c \in Channels : {-1, 0, 1} \subseteq Deltas[c]
  /\ NoMessage \notin [sequence : Int, frame : CommandFrame \cup EncoderFrame \cup SafetyFrame]

VARIABLES
  in_flight,     \* per input topic, the message that is under way
  actuator_due,  \* the simulator has not taken the last actuator command yet
  burst,         \* simulator ticks since the supervisor's timer last fired
  disturbances,  \* faults injected and ends of the simulator so far
  reset_served,  \* the reset service was called since the supervisor started
  estop_owed,    \* an E-stop was injected for long enough and is not latched yet
  estop_ticks    \* simulator ticks since then

link_vars == <<in_flight, actuator_due, burst>>
estop_vars == <<estop_owed, estop_ticks>>
topology_vars ==
  <<state, latched, startup_healthy, shutdown_hold, missed, sequence, stale_age,
    liveness, mismatch, disarmed_seen, record, command, encoder, safety, command_age,
    updated, protocol_invalid, process, exit_after_ticks, tick_count,
    safe_shutdown_published, actuator, sim_up, number, pristine, active_faults,
    consumer, in_flight, actuator_due, burst, disturbances, reset_served,
    estop_owed, estop_ticks>>

NothingInFlight == [p \in Publishers |-> NoMessage]

TopologyInit ==
  /\ NodeInit
  /\ SimulatorInit
  /\ in_flight = NothingInFlight
  /\ actuator_due = FALSE
  /\ burst = 0
  /\ disturbances = 0
  /\ reset_served = FALSE
  /\ estop_owed = FALSE
  /\ estop_ticks = 0

-----------------------------------------------------------------------------
(* History.                                                                *)

\* An injection that outlasts every gap between two samples of a supervisor
\* that listens, counting the frame under way when the gap begins.
EstopLongEnough(duration) ==
  /\ duration = 0 \/ duration > MaxBurst
  /\ Alive /\ InitialTelemetryReceived
  /\ number["safety"] >= 0 /\ Counts("safety")

\* The injections that keep safety frames from being published or accepted.
SafetyChannelFaults == {"safety_suppressed", "safety_duplicate", "safety_out_of_order"}

\* The ticks of a debt that is owed already go on counting.
KeepTicks == estop_ticks' = IF estop_owed /\ estop_owed' THEN estop_ticks ELSE 0

\* A tick of the simulator's; one more than any debt may take is enough to see.
CountTick ==
  estop_ticks' = IF estop_owed /\ estop_ticks <= MaxBurst + 1 THEN estop_ticks + 1
                 ELSE estop_ticks

\* What an injection makes of the debt.
OweEstop(fault, duration) ==
  /\ estop_owed' = IF fault = "software_estop" THEN EstopLongEnough(duration)
                   ELSE estop_owed /\ fault \notin SafetyChannelFaults
  /\ KeepTicks

\* What the supervisor's own steps leave of the debt.
SettleEstop ==
  /\ estop_owed' = (estop_owed /\ Alive /\ Alive' /\ "EMERGENCY_STOP" \notin latched')
  /\ KeepTicks

-----------------------------------------------------------------------------
(* The supervisor's side.                                                  *)

\* A new supervisor subscribes to volatile topics and publishes to a
\* simulator that is there.
SupervisorStart ==
  /\ Start
  /\ number' = NoNumbers
  /\ in_flight' = NothingInFlight
  /\ actuator_due' = sim_up
  /\ burst' = 0
  /\ reset_served' = FALSE
  /\ SettleEstop
  /\ UNCHANGED <<sim_up, pristine, active_faults, consumer, disturbances>>

\* The timer callback.  Every path through it publishes but the exit, which
\* ends the subscriptions.
SupervisorTick ==
  /\ sim_up => burst >= MinBurst
  /\ OnTick
  /\ burst' = 0
  /\ actuator_due' = IF Alive' THEN sim_up ELSE actuator_due
  /\ in_flight' = IF Alive' THEN in_flight ELSE NothingInFlight
  /\ SettleEstop
  /\ UNCHANGED <<sim_vars, disturbances, reset_served>>

\* The reset service.  It serves whoever calls it, as often as it is called:
\* every call is a sample of its own.
SupervisorReset ==
  /\ OnReset
  /\ actuator_due' = sim_up
  /\ reset_served' = TRUE
  /\ SettleEstop
  /\ UNCHANGED <<sim_vars, in_flight, burst, disturbances>>

\* The end of the process.  Its last publication may be lost with it.
SupervisorEnd ==
  /\ OnSignal \/ Crash
  /\ actuator_due' \in {FALSE, sim_up /\ (process' = "exited" \/ actuator_due)}
  /\ in_flight' = NothingInFlight
  /\ SettleEstop
  /\ UNCHANGED <<sim_vars, burst, disturbances, reset_served>>

\* _on_tick of the simulator publishes the encoder, the safety and the command
\* message, and that is the order in which they arrive.
PublishedBefore(p) ==
  CASE p = "encoder" -> {} [] p = "safety" -> {"encoder"} [] p = "command" -> Telemetry

\* A subscription callback, around the ingestion of its channel.
Take(p) ==
  /\ Alive
  /\ \A q \in PublishedBefore(p) : in_flight[q] = NoMessage
  /\ in_flight[p] # NoMessage
  /\ in_flight' = [in_flight EXCEPT ![p] = NoMessage]
  /\ UNCHANGED <<node_vars, actuator_due, burst, disturbances, reset_served, estop_vars>>

Accepted(p, retained) ==
  IF Classify(retained, in_flight[p].sequence) = "ACCEPTED" THEN in_flight[p].sequence ELSE 0

DeliverCommand ==
  /\ Take("command")
  /\ IngestCommand(in_flight["command"].frame, in_flight["command"].sequence)
  /\ MoveOrigin("command", Accepted("command", command))

DeliverEncoder ==
  /\ Take("encoder")
  /\ IngestEncoder(in_flight["encoder"].frame, in_flight["encoder"].sequence)
  /\ MoveOrigin("encoder", Accepted("encoder", encoder))

DeliverSafety ==
  /\ Take("safety")
  /\ IngestSafety(in_flight["safety"].frame, in_flight["safety"].sequence)
  /\ MoveOrigin("safety", Accepted("safety", safety))

-----------------------------------------------------------------------------
(* The simulator's side.                                                   *)

DeliverActuator ==
  /\ sim_up /\ actuator_due
  /\ OnActuator(actuator)
  /\ actuator_due' = FALSE
  /\ UNCHANGED <<bench_vars, adapter_vars, node_vars, in_flight, burst, disturbances,
                 reset_served, estop_vars>>

SimTick ==
  \E auto \in AutoCommands :
    /\ ~actuator_due
    /\ in_flight = NothingInFlight
    /\ Alive => burst < MaxBurst
    /\ SimulatorTick(auto, Alive)
    /\ in_flight' = IF Alive THEN Published(auto) ELSE NothingInFlight
    /\ burst' = IF Alive THEN burst + 1 ELSE 0
    /\ CountTick
    /\ UNCHANGED <<bench_vars, adapter_vars, node_vars, actuator_due, disturbances,
                   reset_served, estop_owed>>

Inject ==
  \E i \in Injections :
    /\ disturbances < MaxDisturbances
    /\ SetFault(i.fault, i.duration)
    /\ disturbances' = disturbances + 1
    /\ OweEstop(i.fault, i.duration)
    /\ UNCHANGED <<bench_vars, adapter_vars, node_vars, link_vars, reset_served>>

Clear ==
  \E fault \in DOMAIN active_faults :
    /\ ClearFault(fault)
    /\ estop_owed' = (estop_owed /\ fault # "software_estop")
    /\ KeepTicks
    /\ UNCHANGED <<bench_vars, adapter_vars, node_vars, link_vars, disturbances, reset_served>>

\* The launch starts the processes in no order, and either may be restarted.
\* A simulator that joins late gets the last command of a living supervisor.
\* Where nobody listens there is nothing to be behind of.
SimStart ==
  \E behind \in RestartLags :
    /\ ~Alive => behind = NoNumbers
    /\ SimulatorStart(behind)
    /\ actuator_due' = Alive
    /\ burst' = 0
    /\ UNCHANGED <<bench_vars, adapter_vars, node_vars, in_flight, disturbances, reset_served,
                   estop_vars>>

SimEnd ==
  /\ disturbances < MaxDisturbances
  /\ SimulatorEnd
  /\ in_flight' = NothingInFlight
  /\ actuator_due' = FALSE
  /\ disturbances' = disturbances + 1
  /\ estop_owed' = FALSE
  /\ KeepTicks
  /\ UNCHANGED <<bench_vars, adapter_vars, node_vars, burst, reset_served>>

-----------------------------------------------------------------------------
Delivery == DeliverCommand \/ DeliverEncoder \/ DeliverSafety

TopologyNext ==
  \/ SupervisorStart \/ SupervisorTick \/ SupervisorReset \/ SupervisorEnd
  \/ Delivery \/ DeliverActuator
  \/ SimTick \/ Inject \/ Clear \/ SimStart \/ SimEnd

TopologySpec == TopologyInit /\ [][TopologyNext]_topology_vars

\* The timers of a process that stays up keep firing and what was sent arrives.
LoopRuns == SupervisorTick \/ SimTick \/ Delivery \/ DeliverActuator

FairTopologySpec == TopologySpec /\ WF_topology_vars(LoopRuns)

\* simulated_topology.launch.py starts the supervisor once.
StartedOnce == ~Alive /\ Alive' => process = "absent"

LaunchSpec ==
  TopologyInit /\ [][TopologyNext /\ StartedOnce]_topology_vars /\ WF_topology_vars(LoopRuns)

-----------------------------------------------------------------------------
(* Properties.                                                             *)

Message(p) ==
  [sequence : Int,
   frame : CASE p = "command" -> CommandFrame
             [] p = "encoder" -> EncoderFrame
             [] p = "safety"  -> SafetyFrame]

TopologyTypeOK ==
  /\ NodeTypeOK
  /\ sim_up \in BOOLEAN
  /\ number \in [Publishers -> -(MaxBehind + 1)..2]
  /\ pristine \subseteq Telemetry
  /\ DOMAIN active_faults \subseteq SupportedFaults
  /\ \A f \in DOMAIN active_faults : active_faults[f] \in Nat
  /\ consumer \in ActuatorCommand
  /\ \A p \in Publishers : in_flight[p] = NoMessage \/ in_flight[p] \in Message(p)
  /\ actuator_due \in BOOLEAN
  /\ burst \in 0..MaxBurst
  /\ disturbances \in 0..MaxDisturbances
  /\ reset_served \in BOOLEAN
  /\ estop_owed \in BOOLEAN
  /\ estop_ticks \in 0..MaxBurst + 2

\* A loop in which nothing is injected never latches a fault of its own accord,
\* whenever its supervisor is started, stopped, killed and started again: the
\* thresholds exceed what the timers' rates and the delivery of feedback can
\* add up to.  Only a reset served in this life of the supervisor may latch
\* one: it is a sample more in its gap, so WatchdogSamples of them between two
\* heartbeats are a heartbeat lost, and one that enters RUNNING just before the
\* timer's sample counts a relay mismatch too many.
QuietLoopStaysClear == disturbances = 0 /\ ~reset_served => latched = {}

\* The E-stop reaches the supervisor's next sample.
EstopUnderway ==
  \/ safety # NoFrame /\ safety.software_estop_active = TRUE
  \/ in_flight["safety"] # NoMessage /\ in_flight["safety"].frame.software_estop_active = TRUE

\* While a supervisor lives, the simulator's relay is on only if that supervisor
\* is in RUNNING, holds no fault and was commanded by a frame of its own life,
\* unless a newer command is on its way: no predecessor's crash, no restart of
\* either process and no reset leaves the two ends in disagreement for longer.
MotorFollowsSupervisor ==
  Alive /\ ~actuator_due /\ consumer.relay_enable =>
    state = "RUNNING" /\ latched = {} /\ command # NoFrame

\* An injected E-stop that outlasts the longest gap between two samples by one
\* frame is not overwritten by later safety frames before a sample sees it,
\* whatever else is injected, as long as nothing is injected into the safety
\* channel itself.
EstopIsNotLost == estop_owed => Active("software_estop") \/ EstopUnderway

\* Such an E-stop is latched before the simulator's tick number MaxBurst + 2
\* after its injection, whatever else is injected, reset or commanded
\* meanwhile: once published it misses at most the one timer sample during
\* which its first frame is under way.
EstopLatchesInTime == estop_owed => estop_ticks <= MaxBurst + 1

\* The faults whose injection must end all motion.  An unhealthy relay is not
\* among them: it is noticed only where the relay is commanded for
\* RelayMismatchSamples in a row, and shorter runs can go on for ever.
StoppingFaults == SupportedFaults \ {"relay_feedback_failed"}

HeldFault == \E f \in DOMAIN active_faults \cap StoppingFaults : active_faults[f] = 0

\* A fault that stays injected stops the motor for good at the simulator's
\* end of the loop, whatever is commanded and reset meanwhile.
HeldFaultStopsMotor ==
  <>[](process = "up" /\ sim_up /\ HeldFault) => <>[]~consumer.relay_enable

\* A restarted publisher is heard again: in a loop that is left alone from
\* some time on its numbers pass those of its predecessor, and no channel
\* breaks the protocol any more.
RestartedPublisherIsHeard ==
  <>[](process = "up" /\ sim_up /\ active_faults = <<>>) =>
    <>[](\A c \in Channels : ~protocol_invalid[c])

\* A supervisor that is started again takes back what its predecessor left:
\* where one stays up at last, a relay that is never switched off again is one
\* that this supervisor, in RUNNING, keeps on.
RespawnDisarms ==
  <>[](process = "up") /\ <>[]consumer.relay_enable => <>[](state = "RUNNING")

\* "Loss or failure of a Raspberry Pi process shall not leave the actuator
\* enabled indefinitely" (SW-005, requirements/system_requirements.md).
CrashDisarms ==
  process = "crashed" /\ consumer.relay_enable ~> ~consumer.relay_enable

=============================================================================
