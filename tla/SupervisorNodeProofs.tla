------------------------ MODULE SupervisorNodeProofs ------------------------
(***************************************************************************)
(* Proofs about SupervisorNode: its process may be ended and started again *)
(* at any moment, its callbacks come in any order, and the actuator topic  *)
(* outlives it.                                                            *)
(***************************************************************************)
EXTENDS SupervisorNode, SupervisorAdapterProofs

\* The count towards the test exit has not been reached while the process is
\* up, and nothing of the terminal output has been published by a process that
\* has no test exit.
ExitPending ==
  /\ process = "up" /\ exit_after_ticks > 0 => tick_count < exit_after_ticks
  /\ process = "exiting" => exit_after_ticks > 0
  /\ Alive /\ exit_after_ticks = 0 => ~safe_shutdown_published

\* The inductive invariant of the node.
NodeInv ==
  /\ AdapterInv
  /\ NodeTypeOK
  /\ ExitPending
  /\ TopicFollowsSupervisor
  /\ SignalledEndIsSafe

-----------------------------------------------------------------------------
(* Operators.                                                              *)

\* The next state satisfies the invariant if it looks like an initial one.
LEMMA NextInit == AdapterInit' => AdapterInv'
<1>1. AdapterInit => AdapterInv
  BY AdapterInitInvariant
<1> QED BY <1>1, PTL

LEMMA SafeActuatorType == SafeActuator \in ActuatorCommand
<1>1. 0 \in Int
  OBVIOUS
<1> QED BY <1>1, Zenon DEF SafeActuator, ActuatorCommand

\* A new adapter, in the place of one that ended.
LEMMA ReconstructInvariant == ASSUME ReconstructAdapter PROVE AdapterInv'
<1>1. AdapterInit'
  BY DEF ReconstructAdapter, Reconstruct, AdapterInit, Init
<1> QED BY <1>1, NextInit

\* For the interlock the loss of the supervisor is a stop, a release or
\* nothing at all.
LEMMA ReconstructMoves == ASSUME AdapterInv, ReconstructAdapter PROVE InterlockStep
<1>1. state' = "SAFE_STARTUP" /\ record' = QuietRecord
  BY DEF ReconstructAdapter, Reconstruct
<1>2. InterlockMode' = "off" /\ MotorOn' = FALSE
  BY <1>1, NextPositions DEF MotorOn, QuietRecord
<1>3. state \in States /\ disarmed_seen \in BOOLEAN
  BY DEF AdapterInv, IInv, TypeOK
<1>4. InterlockMode \in {"latched", "driving", "armed", "waiting", "off"}
  BY <1>3, Positions DEF States
<1>5. state \in {"SAFE_STARTUP", "SAFE_SHUTDOWN"} => MotorOn = FALSE
  BY MotorOffOutsideRunning DEF AdapterInv
<1>6. InterlockMode = "off" => state \in {"SAFE_STARTUP", "SAFE_SHUTDOWN"}
  BY <1>3, Positions DEF States
<1> QED BY <1>2, <1>4, <1>5, <1>6 DEF InterlockStep

\* The command that describes a record is safe, or the supervisor is RUNNING
\* on a command frame with nothing latched.
MappingFollows ==
  ActuatorMapping(record) # SafeActuator =>
    state = "RUNNING" /\ latched = {} /\ command # NoFrame

LEMMA MappingIsSound == AdapterInv => MappingFollows
<1> SUFFICES ASSUME AdapterInv, ActuatorMapping(record) # SafeActuator
             PROVE  state = "RUNNING" /\ latched = {} /\ command # NoFrame
  BY DEF MappingFollows
<1>1. record.relay_enable_command \/ record.motor_command_v # 0
  BY DEF ActuatorMapping, SafeActuator, AdapterInv, IInv, TypeOK, TelemetryRecord
<1>2. state = "RUNNING"
  BY <1>1 DEF AdapterInv, IInv, DriveIsConfirmed
<1> QED BY <1>2 DEF AdapterInv, IInv, LatchMatchesState, FramesKnown

MappingTyped == ActuatorMapping(record) \in ActuatorCommand

LEMMA MappingIsTyped == AdapterInv => MappingTyped
  BY DEF AdapterInv, IInv, TypeOK, TelemetryRecord, ActuatorMapping, ActuatorCommand,
         MappingTyped

\* Both of the next state.
LEMMA NextMapping == AdapterInv' => MappingFollows' /\ MappingTyped'
  BY MappingIsSound, MappingIsTyped, PTL

-----------------------------------------------------------------------------
(* Steps.                                                                  *)

\* A step that ends the process.
LEMMA EndKeepsInvariant ==
  ASSUME NodeInv, ReconstructAdapter, process' \in {"exited", "crashed"},
         UNCHANGED <<exit_after_ticks, tick_count>>,
         safe_shutdown_published' \in BOOLEAN,
         actuator' \in {actuator, SafeActuator},
         process' = "exited" /\ exit_after_ticks = 0 => actuator' = SafeActuator
  PROVE  NodeInv'
<1>1. AdapterInv'
  BY ReconstructInvariant
<1>2. NodeTypeOK'
  BY <1>1, SafeActuatorType DEF NodeInv, NodeTypeOK, AdapterInv, Process
<1>3. ExitPending' /\ TopicFollowsSupervisor' /\ SignalledEndIsSafe'
  BY DEF ExitPending, TopicFollowsSupervisor, SignalledEndIsSafe, Alive, ActuatorSafe
<1> QED BY <1>1, <1>2, <1>3 DEF NodeInv

LEMMA StartKeepsInvariant == ASSUME NodeInv, Start PROVE NodeInv'
<1>1. AdapterInv'
  BY ReconstructInvariant DEF Start
<1>2. exit_after_ticks' \in Nat
  BY NodeAssumption DEF Start
<1>3. NodeTypeOK'
  <2>1. tick_count' \in 0..exit_after_ticks'
    BY <1>2 DEF Start
  <2>2. process' \in Process /\ exit_after_ticks' \in ExitChoices \cup {0}
    BY DEF Start, Process
  <2>3. safe_shutdown_published' \in BOOLEAN /\ actuator' \in ActuatorCommand
    BY SafeActuatorType DEF Start, ActuatorCommand
  <2> QED BY <1>1, <2>1, <2>2, <2>3 DEF NodeTypeOK, AdapterInv
<1>4. ExitPending' /\ TopicFollowsSupervisor' /\ SignalledEndIsSafe'
  BY <1>2
  DEF Start, ExitPending, TopicFollowsSupervisor, SignalledEndIsSafe, Alive, ActuatorSafe,
      SafeActuator
<1> QED BY <1>1, <1>3, <1>4 DEF NodeInv

\* A process without a test exit that is signalled has published nothing
\* terminal yet.
LEMMA SignalKeepsInvariant == ASSUME NodeInv, OnSignal PROVE NodeInv'
<1>1. exit_after_ticks = 0 => ~safe_shutdown_published
  BY DEF NodeInv, ExitPending, OnSignal
<1> QED
  BY <1>1, EndKeepsInvariant DEF OnSignal, PublishTerminalSafeOutput

LEMMA MessageKeepsInvariant == ASSUME NodeInv, OnMessage PROVE NodeInv'
<1>1. AdapterInv' /\ UNCHANGED bench_vars /\ UNCHANGED node_vars
  BY IngestKeepsInvariant
  DEF NodeInv, OnMessage, Ingest, IngestCommand, IngestEncoder, IngestSafety
<1>2. command # NoFrame => command' # NoFrame
  BY AdapterAssumption
  DEF OnMessage, Ingest, IngestCommand, IngestEncoder, IngestSafety
<1> QED
  BY <1>1, <1>2
  DEF NodeInv, NodeTypeOK, AdapterInv, ExitPending, TopicFollowsSupervisor,
      SignalledEndIsSafe, Alive, ActuatorSafe, ActuatorMapping, bench_vars, node_vars

\* A step that publishes its own tick, or nothing but a safe command.
LEMMA TickedTopic ==
  ASSUME NodeInv, NEW reset, Tick(reset),
         actuator' = ActuatorMapping(record') \/ actuator' = SafeActuator
  PROVE  AdapterInv' /\ TopicFollowsSupervisor' /\ actuator' \in ActuatorCommand
<1>1. AdapterInv'
  BY TickKeepsInvariant DEF NodeInv
<1>2. MappingFollows' /\ MappingTyped'
  BY <1>1, NextMapping
<1>3. actuator' \in ActuatorCommand
  BY <1>2, SafeActuatorType DEF MappingTyped, ActuatorMapping
<1>4. TopicFollowsSupervisor'
  BY <1>2
  DEF TopicFollowsSupervisor, ActuatorSafe, MappingFollows, ActuatorMapping, SafeActuator
<1> QED BY <1>1, <1>3, <1>4

LEMMA OrdinaryTickKeepsInvariant == ASSUME NodeInv, OrdinaryTick PROVE NodeInv'
<1>1. AdapterInv' /\ TopicFollowsSupervisor' /\ actuator' \in ActuatorCommand
  BY TickedTopic DEF OrdinaryTick
<1>2. exit_after_ticks \in Nat /\ tick_count \in 0..exit_after_ticks
  BY NodeAssumption DEF NodeInv, NodeTypeOK
<1>3. tick_count' \in 0..exit_after_ticks /\ ExitPending'
  BY <1>2
  DEF OrdinaryTick, LastTick, NodeInv, ExitPending, Alive
<1> QED
  BY <1>1, <1>3
  DEF OrdinaryTick, NodeInv, NodeTypeOK, AdapterInv, SignalledEndIsSafe

LEMMA ExitTickKeepsInvariant == ASSUME NodeInv, ExitTick PROVE NodeInv'
<1>1. AdapterInv' /\ TopicFollowsSupervisor' /\ actuator' \in ActuatorCommand
  BY TickedTopic DEF ExitTick
<1>2. exit_after_ticks \in Nat /\ tick_count \in 0..exit_after_ticks
  BY NodeAssumption DEF NodeInv, NodeTypeOK
<1>3. exit_after_ticks > 0 /\ tick_count' \in 0..exit_after_ticks
  BY <1>2 DEF ExitTick, LastTick, NodeInv, ExitPending
<1>4. ExitPending' /\ SignalledEndIsSafe'
  BY <1>3 DEF ExitTick, ExitPending, Alive, SignalledEndIsSafe
<1> QED
  BY <1>1, <1>3, <1>4 DEF ExitTick, NodeInv, NodeTypeOK, AdapterInv, Process

LEMMA ResetKeepsInvariant == ASSUME NodeInv, OnReset PROVE NodeInv'
<1>1. AdapterInv' /\ TopicFollowsSupervisor' /\ actuator' \in ActuatorCommand
  BY TickedTopic DEF OnReset, ResetTick
<1>2. ExitPending' /\ SignalledEndIsSafe'
  BY DEF OnReset, NodeInv, ExitPending, SignalledEndIsSafe, Alive
<1> QED
  BY <1>1, <1>2 DEF OnReset, NodeInv, NodeTypeOK, AdapterInv

LEMMA NodeStutter ==
  ASSUME NodeInv, UNCHANGED <<bench_vars, adapter_vars, process, exit_after_ticks,
                              tick_count, safe_shutdown_published>>,
         actuator' = actuator \/ (process # "exited" /\ actuator' = SafeActuator)
  PROVE  NodeInv'
<1>1. AdapterInv'
  BY AdapterStutter DEF NodeInv, all_vars
<1>2. actuator' \in ActuatorCommand
  BY SafeActuatorType DEF NodeInv, NodeTypeOK
<1>3. TopicFollowsSupervisor'
  BY DEF NodeInv, TopicFollowsSupervisor, Alive, ActuatorSafe, ActuatorMapping, SafeActuator,
         bench_vars, adapter_vars
<1> QED
  BY <1>1, <1>2, <1>3
  DEF NodeInv, NodeTypeOK, AdapterInv, ExitPending, SignalledEndIsSafe, Alive, ActuatorSafe

LEMMA NodeStepInvariant == ASSUME NodeInv, [NodeNext]_system_vars PROVE NodeInv'
<1>1. CASE Start
  BY <1>1, StartKeepsInvariant
<1>2. CASE FinishExit
  <2>1. exit_after_ticks # 0
    BY <1>2 DEF FinishExit, NodeInv, ExitPending
  <2> QED BY <1>2, <2>1, EndKeepsInvariant DEF FinishExit, NodeInv, NodeTypeOK
<1>3. CASE AwaitTelemetry
  BY <1>3, NodeStutter DEF AwaitTelemetry
<1>4. CASE OrdinaryTick \/ ExitTick
  BY <1>4, OrdinaryTickKeepsInvariant, ExitTickKeepsInvariant
<1>5. CASE OnMessage \/ OnReset \/ OnSignal
  BY <1>5, MessageKeepsInvariant, ResetKeepsInvariant, SignalKeepsInvariant
<1>6. CASE Crash
  BY <1>6, EndKeepsInvariant DEF Crash, NodeInv, NodeTypeOK
<1>7. CASE UNCHANGED system_vars
  BY <1>7, NodeStutter DEF system_vars, bench_vars, adapter_vars
<1> QED BY <1>1, <1>2, <1>3, <1>4, <1>5, <1>6, <1>7 DEF NodeNext, OnTick

LEMMA NodeInitInvariant == ASSUME NodeInit PROVE NodeInv
<1>1. AdapterInv
  BY AdapterInitInvariant DEF NodeInit
<1>2. actuator \in ActuatorCommand /\ ActuatorSafe
  BY SafeActuatorType DEF NodeInit, ActuatorSafe
<1>3. /\ process = "absent" /\ exit_after_ticks = 0 /\ tick_count = 0
      /\ safe_shutdown_published = FALSE
  BY DEF NodeInit
<1>4. NodeTypeOK
  <2>1. process \in Process /\ safe_shutdown_published \in BOOLEAN
    BY <1>3 DEF Process
  <2>2. exit_after_ticks \in ExitChoices \cup {0} /\ tick_count \in 0..exit_after_ticks
    BY <1>3
  <2> QED BY <1>1, <1>2, <2>1, <2>2 DEF NodeTypeOK, AdapterInv
<1>5. ExitPending /\ TopicFollowsSupervisor /\ SignalledEndIsSafe
  BY <1>3 DEF ExitPending, TopicFollowsSupervisor, SignalledEndIsSafe, Alive
<1> QED BY <1>1, <1>4, <1>5 DEF NodeInv

-----------------------------------------------------------------------------
(* Theorems.                                                               *)

\* The invariant of the node holds in every reachable state.
THEOREM NodeInvariant == NodeSpec => []NodeInv
  BY NodeInitInvariant, NodeStepInvariant, PTL DEF NodeSpec

\* The node keeps its types through any number of crashes, restarts, messages,
\* resets and test exits.
THEOREM NodeTypes == NodeSpec => []NodeTypeOK
<1>1. NodeInv => NodeTypeOK
  BY DEF NodeInv
<1> QED BY <1>1, NodeInvariant, PTL

\* An enabled command on the topic of a live process is one its supervisor
\* still stands behind: in RUNNING, with nothing latched, on a command frame.
\* Neither a reset between two timer callbacks nor a restart over what a killed
\* process left there can break this.
THEOREM TopicFollows == NodeSpec => []TopicFollowsSupervisor
<1>1. NodeInv => TopicFollowsSupervisor
  BY DEF NodeInv
<1> QED BY <1>1, NodeInvariant, PTL

\* A process without a test exit that was ended by a signal has left a safe
\* command behind.
THEOREM SignalledEnd == NodeSpec => []SignalledEndIsSafe
<1>1. NodeInv => SignalledEndIsSafe
  BY DEF NodeInv
<1> QED BY <1>1, NodeInvariant, PTL

\* No series of resets drives the motor before both telemetry owners were
\* heard, provided the watchdog's threshold is at most four; the configured one
\* is three.
THEOREM ContactFirst ==
  ASSUME WatchdogSamples <= 4 PROVE NodeSpec => []MotionNeedsContact
<1>1. ASSUME NodeInv PROVE MotionNeedsContact
  <2> SUFFICES ASSUME Alive, ~ActuatorSafe PROVE InitialTelemetryReceived
    BY DEF MotionNeedsContact
  <2>1. state = "RUNNING"
    BY <1>1 DEF NodeInv, TopicFollowsSupervisor
  <2>2. encoder # NoFrame
    BY <1>1, <2>1 DEF NodeInv, AdapterInv, FramesKnown, IInv, ReadyNeedsLiveness
  <2>3. missed < WatchdogSamples /\ missed \in Nat /\ WatchdogSamples \in Nat
    BY <1>1, <2>1, ConfigAssumption DEF NodeInv, AdapterInv, IInv, DeadlinesHold, TypeOK
  <2>4. safety # NoFrame
    BY <1>1, <2>1, <2>3 DEF NodeInv, AdapterInv, UnheardOwner, MissedAtLeast
  <2> QED BY <2>2, <2>4 DEF InitialTelemetryReceived
<1> QED BY <1>1, NodeInvariant, PTL

LEMMA NodeMoves == ASSUME NodeInv, [NodeNext]_system_vars PROVE InterlockStep
<1>1. AdapterInv
  BY DEF NodeInv
<1>2. ReconstructAdapter => InterlockStep
  BY <1>1, ReconstructMoves
<1>3. ASSUME NEW reset, Tick(reset) PROVE InterlockStep
  BY <1>1, <1>3, TickSteps, StepMoves DEF AdapterInv
<1>4. UNCHANGED bench_vars => InterlockStep
  BY InterlockStutters
<1>5. CASE Start \/ FinishExit \/ OnSignal \/ Crash
  BY <1>2, <1>5 DEF Start, FinishExit, OnSignal, Crash
<1>6. CASE OrdinaryTick \/ ExitTick \/ OnReset
  BY <1>3, <1>6 DEF OrdinaryTick, ExitTick, OnReset, ResetTick
<1>7. CASE AwaitTelemetry \/ OnMessage \/ UNCHANGED system_vars
  BY <1>4, <1>7
  DEF AwaitTelemetry, OnMessage, Ingest, IngestCommand, IngestEncoder, IngestSafety,
      system_vars, bench_vars
<1> QED BY <1>5, <1>6, <1>7 DEF NodeNext, OnTick

\* The supervisor of a process that dies and comes back any number of times is
\* still the abstract interlock: losing it is a stop or a release, and no
\* restart comes back anywhere but in the off position.
THEOREM NodeRefinement == NodeSpec => ImplementsInterlock
<1>1. NodeInit => Interlock!Init
  BY InterlockStarts DEF NodeInit, AdapterInit
<1>2. ASSUME NodeInv, [NodeNext]_system_vars PROVE [Interlock!Next]_(Interlock!vars)
  BY <1>2, NodeMoves, InterlockMoves
<1> QED
  BY <1>1, <1>2, NodeInvariant, PTL
  DEF NodeSpec, ImplementsInterlock, Interlock!Spec

=============================================================================
