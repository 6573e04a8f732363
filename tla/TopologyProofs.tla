---------------------------- MODULE TopologyProofs ----------------------------
(***************************************************************************)
(* Proofs about Topology: two processes that come and go, three channels   *)
(* between them with a number each, and the command that comes back.       *)
(*                                                                         *)
(* The topology is a SupervisorNode whose messages are those of the        *)
(* simulator, so what SupervisorNodeProofs shows of every node holds of    *)
(* this one.  What remains is what the links add: the typing of messages   *)
(* and numbers, that the simulator's relay follows the supervisor, that an *)
(* injected E-stop arrives, and that a loop left alone latches nothing.    *)
(***************************************************************************)
EXTENDS Topology, SupervisorNodeProofs

-----------------------------------------------------------------------------
(* The links.                                                              *)

FramesOf(p) ==
  CASE p = "command" -> AutoCommands \ {NoMessage}
    [] p = "encoder" -> SimEncoders
    [] p = "safety"  -> SimSafety

\* A message carries its publisher's number or, out of order, the one before
\* it.  A number is at most one ahead of the last accepted one once its message
\* was taken.
LinkOK(p) ==
  /\ number[p] \in -MaxBehind..2
  /\ Alive /\ in_flight[p] = NoMessage => number[p] <= 1
  /\ in_flight[p] # NoMessage =>
       /\ in_flight[p] \in [sequence : Int, frame : FramesOf(p)]
       /\ in_flight[p].sequence \in {number[p] - 1, number[p]}

\* A link needs both its ends.
LinksInv ==
  /\ number \in [Publishers -> Int]
  /\ DOMAIN in_flight = Publishers
  /\ ~Alive \/ ~sim_up => in_flight = NothingInFlight
  /\ \A p \in Publishers : LinkOK(p)

\* The frames a simulator publishes are frames of the adapter.
LEMMA FramesArrive ==
  /\ FramesOf("command") \subseteq CommandFrames
  /\ FramesOf("encoder") \subseteq EncoderFrames
  /\ FramesOf("safety") \subseteq SafetyFrames
  BY TopologyAssumption DEF FramesOf

\* A message is no NoMessage.
LEMMA MessagesAreSome ==
  ASSUME NEW p \in Publishers, NEW m \in [sequence : Int, frame : FramesOf(p)]
  PROVE  m # NoMessage
<1>1. FramesOf(p) \subseteq CommandFrame \cup EncoderFrame \cup SafetyFrame
  BY FramesArrive, AdapterAssumption DEF Publishers
<1> QED BY <1>1, TopologyAssumption

\* What the simulator publishes in a tick, on each channel: a publisher that
\* counts on publishes its next number.
PublishedOK(auto, p) ==
  LET m == Published(auto)[p] IN
  /\ m # NoMessage =>
       /\ m \in [sequence : Int, frame : FramesOf(p)]
       /\ m.sequence \in {(number[p] + Increment(auto)[p]) - 1, number[p] + Increment(auto)[p]}
  /\ Increment(auto)[p] = 1 => m # NoMessage /\ m.sequence = number[p] + 1

LEMMA PublishesTyped ==
  ASSUME number \in [Publishers -> Int], NEW auto \in AutoCommands, NEW p \in Publishers
  PROVE  PublishedOK(auto, p) /\ Increment(auto)[p] \in {0, 1}
<1>1. Increment(auto)[p] \in {0, 1}
  BY DEF Increment
<1>2. CASE p = "command"
  <2>1. Published(auto)[p] = CommandMessage(auto)
    BY <1>2 DEF Published
  <2>2. auto # NoMessage => Increment(auto)[p] = 1
    BY <1>2 DEF Increment, Counts
  <2>3. auto # NoMessage => auto \in FramesOf(p)
    BY <1>2 DEF FramesOf
  <2>4. number[p] \in Int
    OBVIOUS
  <2>5. auto # NoMessage =>
          /\ Published(auto)[p] = [sequence |-> number[p] + 1, frame |-> auto]
    BY <1>2, <2>1 DEF CommandMessage
  <2>6. auto = NoMessage => Published(auto)[p] = NoMessage
    BY <2>1 DEF CommandMessage
  <2>7. auto # NoMessage => [sequence |-> number[p] + 1, frame |-> auto] # NoMessage
    BY <2>3, <2>4, MessagesAreSome
  <2>8. auto = NoMessage => Increment(auto)[p] = 0
    BY <1>2 DEF Increment
  <2> QED BY <1>1, <2>2, <2>3, <2>4, <2>5, <2>6, <2>7, <2>8 DEF PublishedOK
<1>3. CASE p = "encoder"
  <2> DEFINE f == [healthy |-> ~Active("encoder_failed"),
                   valid |-> ~Active("encoder_invalid"),
                   finite_position |-> ~Active("encoder_nonfinite")]
  <2>1. Published(auto)[p] = EncoderMessage
    BY <1>3 DEF Published
  <2>2. f \in FramesOf(p)
    BY <1>3 DEF FramesOf, SimEncoders, Active
  <2>3. /\ Increment(auto)[p] = 1 => ~Active("encoder_suppressed") /\ ~Active("encoder_duplicate")
                                      /\ ~Active("encoder_out_of_order")
        /\ Increment(auto)[p] = 0 => \/ Active("encoder_suppressed") \/ Active("encoder_duplicate")
                                     \/ Active("encoder_out_of_order")
    BY <1>3 DEF Increment, Counts
  <2>4. Older(p) \in {number[p] - 1, number[p]}
    BY DEF Older
  <2>5. EncoderMessage # NoMessage =>
          /\ EncoderMessage.frame = f
          /\ EncoderMessage = [sequence |-> EncoderMessage.sequence, frame |-> f]
          /\ EncoderMessage.sequence \in {(number[p] + Increment(auto)[p]) - 1,
                                          number[p] + Increment(auto)[p]}
    BY <1>1, <1>3, <2>3, <2>4 DEF EncoderMessage
  <2>6. Increment(auto)[p] = 1 => EncoderMessage = [sequence |-> number[p] + 1, frame |-> f]
    BY <1>3, <2>3 DEF EncoderMessage
  <2>7. [sequence |-> number[p] + 1, frame |-> f] # NoMessage
    BY <2>2, MessagesAreSome
  <2> QED BY <1>1, <1>3, <2>1, <2>2, <2>5, <2>6, <2>7 DEF PublishedOK
<1>4. CASE p = "safety"
  <2> DEFINE f == [supply_voltage_v |-> IF Active("undervoltage") THEN SimUndervoltage ELSE SimSupply,
                   software_estop_active |-> Active("software_estop"),
                   watchdog_heartbeat |-> ~Active("heartbeat_loss"),
                   relay_feedback_enabled |->
                     consumer.relay_enable /\ ~Active("relay_feedback_failed"),
                   relay_feedback_healthy |-> ~Active("relay_feedback_failed")]
  <2>1. Published(auto)[p] = SafetyMessage
    BY <1>4 DEF Published
  <2>2. f \in FramesOf(p)
    BY <1>4 DEF FramesOf, SimSafety, Active
  <2>3. /\ Increment(auto)[p] = 1 => ~Active("safety_suppressed") /\ ~Active("safety_duplicate")
                                      /\ ~Active("safety_out_of_order")
        /\ Increment(auto)[p] = 0 => \/ Active("safety_suppressed") \/ Active("safety_duplicate")
                                     \/ Active("safety_out_of_order")
    BY <1>4 DEF Increment, Counts
  <2>4. Older(p) \in {number[p] - 1, number[p]}
    BY DEF Older
  <2>5. SafetyMessage # NoMessage =>
          /\ SafetyMessage.frame = f
          /\ SafetyMessage = [sequence |-> SafetyMessage.sequence, frame |-> f]
          /\ SafetyMessage.sequence \in {(number[p] + Increment(auto)[p]) - 1,
                                         number[p] + Increment(auto)[p]}
    BY <1>1, <1>4, <2>3, <2>4 DEF SafetyMessage
  <2>6. Increment(auto)[p] = 1 => SafetyMessage = [sequence |-> number[p] + 1, frame |-> f]
    BY <1>4, <2>3 DEF SafetyMessage
  <2>7. [sequence |-> number[p] + 1, frame |-> f] # NoMessage
    BY <2>2, MessagesAreSome
  <2> QED BY <1>1, <1>4, <2>1, <2>2, <2>5, <2>6, <2>7 DEF PublishedOK
<1> QED BY <1>1, <1>2, <1>3, <1>4 DEF Publishers

\* Links without a message on them, with numbers that are not ahead.
LEMMA EmptyLinks ==
  ASSUME number' \in [Publishers -> Int], in_flight' = NothingInFlight,
         \A p \in Publishers : number'[p] \in -MaxBehind..2 /\ (Alive' => number'[p] <= 1)
  PROVE  LinksInv'
  BY DEF LinksInv, LinkOK, NothingInFlight

\* Links nobody touches.
LEMMA LinksStay ==
  ASSUME LinksInv, UNCHANGED <<number, in_flight, sim_up>>, Alive' = Alive
  PROVE  LinksInv'
  BY DEF LinksInv, LinkOK

\* New numbers.
LEMMA NoNumbersOK ==
  ASSUME NEW p \in Publishers PROVE NoNumbers[p] \in -MaxBehind..2 /\ NoNumbers[p] <= 1
  BY TopologyAssumption DEF NoNumbers

LEMMA SupervisorStartLinks == ASSUME LinksInv, SupervisorStart PROVE LinksInv'
<1>1. number' = NoNumbers /\ in_flight' = NothingInFlight
  BY DEF SupervisorStart
<1>2. NoNumbers \in [Publishers -> Int]
  BY DEF NoNumbers
<1> QED BY <1>1, <1>2, NoNumbersOK, EmptyLinks

LEMMA SupervisorTickLives ==
  ASSUME SupervisorTick PROVE Alive /\ (Alive' \/ process' = "exited")
  BY DEF SupervisorTick, OnTick, FinishExit, AwaitTelemetry, OrdinaryTick, ExitTick, Alive

LEMMA SupervisorTickLinks == ASSUME LinksInv, SupervisorTick PROVE LinksInv'
<1>1. UNCHANGED <<sim_up, number>>
  BY DEF SupervisorTick, sim_vars
<1>2. CASE Alive'
  <2>1. in_flight' = in_flight
    BY <1>2 DEF SupervisorTick
  <2> QED BY <1>1, <1>2, <2>1, SupervisorTickLives, LinksStay
<1>3. CASE ~Alive'
  <2>1. in_flight' = NothingInFlight
    BY <1>3 DEF SupervisorTick
  <2> QED BY <1>1, <1>3, <2>1, EmptyLinks DEF LinksInv, LinkOK
<1> QED BY <1>2, <1>3

LEMMA SupervisorEndLinks == ASSUME LinksInv, SupervisorEnd PROVE LinksInv'
<1>1. UNCHANGED number /\ in_flight' = NothingInFlight /\ ~Alive'
  BY DEF SupervisorEnd, OnSignal, Crash, sim_vars, Alive
<1> QED BY <1>1, EmptyLinks DEF LinksInv, LinkOK

\* A message that is taken moves the origin to its own number or leaves the
\* numbers where they are, not ahead.
LEMMA TakeLinks ==
  ASSUME LinksInv, NEW p \in Publishers, NEW retained,
         Take(p), MoveOrigin(p, Accepted(p, retained))
  PROVE  LinksInv'
<1> DEFINE n == in_flight[p].sequence
<1>1. LinkOK(p) /\ in_flight[p] # NoMessage /\ Alive
  BY DEF LinksInv, Take
<1>2. n \in Int /\ n \in {number[p] - 1, number[p]} /\ number[p] \in -MaxBehind..2
  BY <1>1 DEF LinkOK
<1>3. UNCHANGED <<process, sim_up>> /\ sim_up
  BY <1>1 DEF Take, MoveOrigin, node_vars, LinksInv, NothingInFlight
<1>4. /\ number' = [number EXCEPT ![p] = @ - Accepted(p, retained)]
      /\ in_flight' = [in_flight EXCEPT ![p] = NoMessage]
  BY DEF Take, MoveOrigin
<1>5. /\ number' \in [Publishers -> Int] /\ DOMAIN in_flight' = Publishers
      /\ number'[p] = number[p] - Accepted(p, retained) /\ in_flight'[p] = NoMessage
      /\ \A q \in Publishers \ {p} : number'[q] = number[q] /\ in_flight'[q] = in_flight[q]
  <2>1. Accepted(p, retained) \in Int
    BY <1>2 DEF Accepted
  <2> QED BY <1>4, <2>1 DEF LinksInv
<1>6. number'[p] \in -MaxBehind..2 /\ number'[p] <= 1
  <2>1. CASE Accepted(p, retained) = n
    BY <1>2, <1>5, <2>1, TopologyAssumption
  <2>2. CASE Accepted(p, retained) = 0 /\ n <= 0
    BY <1>2, <1>5, <2>2
  <2>3. Accepted(p, retained) = n \/ (Accepted(p, retained) = 0 /\ n <= 0)
    BY <1>2, InputAssumption DEF Accepted, Classify
  <2> QED BY <2>1, <2>2, <2>3
<1>7. \A q \in Publishers : LinkOK(q)'
  BY <1>1, <1>3, <1>5, <1>6 DEF LinksInv, LinkOK, Alive
<1> QED BY <1>1, <1>3, <1>5, <1>7 DEF LinksInv, Alive

LEMMA DeliveryLinks == ASSUME LinksInv, Delivery PROVE LinksInv'
  BY TakeLinks DEF Delivery, DeliverCommand, DeliverEncoder, DeliverSafety, Publishers

LEMMA SimTickLinks == ASSUME LinksInv, SimTick PROVE LinksInv'
<1>1. PICK auto \in AutoCommands :
        /\ in_flight = NothingInFlight
        /\ SimulatorTick(auto, Alive)
        /\ in_flight' = IF Alive THEN Published(auto) ELSE NothingInFlight
        /\ UNCHANGED node_vars
  BY DEF SimTick
<1>2. Alive' = Alive /\ sim_up /\ UNCHANGED sim_up
  BY <1>1 DEF node_vars, Alive, SimulatorTick
<1>3. CASE ~Alive
  <2>1. number' = NoNumbers /\ in_flight' = NothingInFlight
    BY <1>1, <1>3 DEF SimulatorTick
  <2>2. NoNumbers \in [Publishers -> Int]
    BY DEF NoNumbers
  <2> QED BY <2>1, <2>2, NoNumbersOK, EmptyLinks
<1>4. CASE Alive
  <2>1. /\ number' = [p \in Publishers |-> number[p] + Increment(auto)[p]]
        /\ in_flight' = Published(auto)
    BY <1>1, <1>4 DEF SimulatorTick
  <2>2. \A p \in Publishers : PublishedOK(auto, p) /\ Increment(auto)[p] \in {0, 1}
    BY PublishesTyped DEF LinksInv
  <2>3. \A p \in Publishers : number[p] \in -MaxBehind..2 /\ number[p] <= 1
    BY <1>1, <1>4 DEF LinksInv, LinkOK, NothingInFlight
  <2>4. \A p \in Publishers : LinkOK(p)'
    <3> SUFFICES ASSUME NEW p \in Publishers PROVE LinkOK(p)'
      OBVIOUS
    <3>1. number'[p] = number[p] + Increment(auto)[p]
      BY <2>1
    <3>2. number'[p] \in -MaxBehind..2
      BY <2>2, <2>3, <3>1, TopologyAssumption
    <3>3. in_flight'[p] = NoMessage => number'[p] <= 1
      <4>1. in_flight'[p] = NoMessage => Increment(auto)[p] = 0
        BY <2>1, <2>2 DEF PublishedOK
      <4> QED BY <2>3, <3>1, <4>1
    <3>4. PublishedOK(auto, p) /\ in_flight'[p] = Published(auto)[p]
      BY <2>1, <2>2
    <3>5. in_flight'[p] # NoMessage =>
            /\ in_flight'[p] \in [sequence : Int, frame : FramesOf(p)]
            /\ in_flight'[p].sequence \in {number'[p] - 1, number'[p]}
      BY <2>2, <2>3, <3>1, <3>4 DEF PublishedOK
    <3> QED BY <3>2, <3>3, <3>5 DEF LinkOK
  <2>5. number' \in [Publishers -> Int] /\ DOMAIN in_flight' = Publishers
    BY <2>1, <2>2, <2>3 DEF Published, Publishers
  <2> QED BY <1>2, <1>4, <2>4, <2>5 DEF LinksInv
<1> QED BY <1>3, <1>4

LEMMA SimLifeLinks == ASSUME LinksInv, SimStart \/ SimEnd PROVE LinksInv'
<1>1. CASE SimStart
  <2>1. PICK behind \in RestartLags :
          number' = [p \in Publishers |-> -behind[p]]
    BY <1>1 DEF SimStart, SimulatorStart
  <2>2. in_flight' = NothingInFlight
    BY <1>1 DEF SimStart, SimulatorStart, LinksInv
  <2>3. behind \in [Publishers -> 0..MaxBehind] /\ MaxBehind \in Nat
    BY TopologyAssumption
  <2>4. number' \in [Publishers -> Int] /\ \A p \in Publishers : number'[p] \in -MaxBehind..0
    BY <2>1, <2>3
  <2> QED BY <2>2, <2>3, <2>4, EmptyLinks
<1>2. CASE SimEnd
  <2>1. number' = NoNumbers /\ in_flight' = NothingInFlight
    BY <1>2 DEF SimEnd, SimulatorEnd
  <2>2. NoNumbers \in [Publishers -> Int]
    BY DEF NoNumbers
  <2> QED BY <2>1, <2>2, NoNumbersOK, EmptyLinks
<1> QED BY <1>1, <1>2

LEMMA LinksStep == ASSUME LinksInv, [TopologyNext]_topology_vars PROVE LinksInv'
<1>1. CASE SupervisorStart \/ SupervisorTick \/ SupervisorEnd \/ Delivery
  BY <1>1, SupervisorStartLinks, SupervisorTickLinks, SupervisorEndLinks, DeliveryLinks
<1>2. CASE SimTick \/ SimStart \/ SimEnd
  BY <1>2, SimTickLinks, SimLifeLinks
<1>3. CASE SupervisorReset
  <2>1. UNCHANGED <<number, in_flight, sim_up, process>>
    BY <1>3 DEF SupervisorReset, OnReset, sim_vars
  <2> QED BY <2>1, LinksStay DEF Alive
<1>4. CASE DeliverActuator \/ Inject \/ Clear
  <2>1. UNCHANGED <<number, in_flight, sim_up, process>>
    BY <1>4 DEF DeliverActuator, OnActuator, Inject, SetFault, Clear, ClearFault, node_vars,
                link_vars
  <2> QED BY <2>1, LinksStay DEF Alive
<1>5. CASE UNCHANGED topology_vars
  <2>1. UNCHANGED <<number, in_flight, sim_up, process>>
    BY <1>5 DEF topology_vars
  <2> QED BY <2>1, LinksStay DEF Alive
<1> QED BY <1>1, <1>2, <1>3, <1>4, <1>5 DEF TopologyNext

LEMMA LinksStart == ASSUME TopologyInit PROVE LinksInv
<1>1. number = NoNumbers /\ in_flight = NothingInFlight
  BY DEF TopologyInit, SimulatorInit
<1>2. NoNumbers \in [Publishers -> Int] /\ DOMAIN NothingInFlight = Publishers
  BY DEF NoNumbers, NothingInFlight
<1> QED BY <1>1, <1>2, NoNumbersOK DEF LinksInv, LinkOK, NothingInFlight

LEMMA LinksInvariant == TopologySpec => []LinksInv
  BY LinksStart, LinksStep, PTL DEF TopologySpec

-----------------------------------------------------------------------------
(* The topology is a node.                                                 *)

\* The sign of a difference of numbers says as much as the difference.
Sign(n) == IF n > 0 THEN 1 ELSE IF n = 0 THEN 0 ELSE -1

LEMMA SignDecides ==
  ASSUME NEW retained, NEW n \in Int
  PROVE  Classify(retained, Sign(n)) = Classify(retained, n)
  BY InputAssumption DEF Classify, Sign

LEMMA SignIsDelta == ASSUME NEW n \in Int, NEW c \in Channels PROVE Sign(n) \in Deltas[c]
  BY TopologyAssumption DEF Sign

\* What is delivered is something the adapter may be given.
LEMMA DeliveryIsMessage == ASSUME LinksInv, Delivery PROVE OnMessage
<1>1. Alive /\ UNCHANGED node_vars
  BY DEF Delivery, DeliverCommand, DeliverEncoder, DeliverSafety, Take
<1>2. ASSUME NEW p \in Publishers, Take(p)
      PROVE  in_flight[p].frame \in FramesOf(p) /\ in_flight[p].sequence \in Int
  BY <1>2 DEF Take, LinksInv, LinkOK
<1>3. CASE DeliverCommand
  <2> DEFINE m == in_flight["command"]
  <2>1. IngestCommand(m.frame, m.sequence)
    BY <1>3 DEF DeliverCommand
  <2>2. m.frame \in CommandFrames /\ m.sequence \in Int
    BY <1>2, <1>3, FramesArrive DEF DeliverCommand, Publishers
  <2>3. IngestCommand(m.frame, Sign(m.sequence)) /\ Sign(m.sequence) \in Deltas["command"]
    BY <2>1, <2>2, SignDecides, SignIsDelta DEF IngestCommand, Channels
  <2> QED BY <1>1, <2>2, <2>3 DEF OnMessage, Ingest
<1>4. CASE DeliverEncoder
  <2> DEFINE m == in_flight["encoder"]
  <2>1. IngestEncoder(m.frame, m.sequence)
    BY <1>4 DEF DeliverEncoder
  <2>2. m.frame \in EncoderFrames /\ m.sequence \in Int
    BY <1>2, <1>4, FramesArrive DEF DeliverEncoder, Publishers
  <2>3. IngestEncoder(m.frame, Sign(m.sequence)) /\ Sign(m.sequence) \in Deltas["encoder"]
    BY <2>1, <2>2, SignDecides, SignIsDelta DEF IngestEncoder, Channels
  <2> QED BY <1>1, <2>2, <2>3 DEF OnMessage, Ingest
<1>5. CASE DeliverSafety
  <2> DEFINE m == in_flight["safety"]
  <2>1. IngestSafety(m.frame, m.sequence)
    BY <1>5 DEF DeliverSafety
  <2>2. m.frame \in SafetyFrames /\ m.sequence \in Int
    BY <1>2, <1>5, FramesArrive DEF DeliverSafety, Publishers
  <2>3. IngestSafety(m.frame, Sign(m.sequence)) /\ Sign(m.sequence) \in Deltas["safety"]
    BY <2>1, <2>2, SignDecides, SignIsDelta DEF IngestSafety, Channels
  <2> QED BY <1>1, <2>2, <2>3 DEF OnMessage, Ingest
<1> QED BY <1>3, <1>4, <1>5 DEF Delivery

\* Every step of the topology is one of the node or none that it can see.
LEMMA TopologyMoves ==
  ASSUME LinksInv, [TopologyNext]_topology_vars PROVE [NodeNext]_system_vars
<1>1. CASE SupervisorStart \/ SupervisorTick \/ SupervisorReset \/ SupervisorEnd
  BY <1>1 DEF SupervisorStart, SupervisorTick, SupervisorReset, SupervisorEnd, NodeNext
<1>2. CASE Delivery
  BY <1>2, DeliveryIsMessage DEF NodeNext
<1>3. CASE DeliverActuator \/ SimTick \/ Inject \/ Clear \/ SimStart \/ SimEnd
  <2>1. UNCHANGED <<bench_vars, adapter_vars, node_vars>>
    BY <1>3 DEF DeliverActuator, SimTick, Inject, Clear, SimStart, SimEnd
  <2> QED BY <2>1 DEF bench_vars, adapter_vars, node_vars, system_vars
<1>4. CASE UNCHANGED topology_vars
  BY <1>4 DEF topology_vars, system_vars
<1> QED BY <1>1, <1>2, <1>3, <1>4 DEF TopologyNext

\* The supervisor of simulated_topology.launch.py, given only what the simulator
\* can publish and the links can deliver, is a supervisor of SupervisorNode: the
\* theorems about a node on an arbitrary transport are theorems about it.
THEOREM TopologyRefinesNode == TopologySpec => NodeSpec
<1>1. TopologyInit => NodeInit
  BY DEF TopologyInit
<1> QED
  BY <1>1, LinksInvariant, TopologyMoves, PTL DEF TopologySpec, NodeSpec

\* Nothing the simulator publishes, injects, repeats or loses makes the
\* supervisor anything but the abstract interlock.
THEOREM TopologyInterlock == TopologySpec => ImplementsInterlock
  BY TopologyRefinesNode, NodeRefinement, PTL


-----------------------------------------------------------------------------
(* Types, and the simulator's relay.                                       *)

SimTypes ==
  /\ sim_up \in BOOLEAN
  /\ pristine \subseteq Telemetry
  /\ DOMAIN active_faults \subseteq SupportedFaults
  /\ \A f \in DOMAIN active_faults : active_faults[f] \in Nat
  /\ consumer \in ActuatorCommand
  /\ actuator_due \in BOOLEAN
  /\ burst \in 0..MaxBurst
  /\ disturbances \in 0..MaxDisturbances
  /\ reset_served \in BOOLEAN
  /\ estop_owed \in BOOLEAN
  /\ estop_ticks \in 0..MaxBurst + 2

\* A simulator that has taken the last command of a living supervisor has its
\* relay where the topic says, and one that is down has none.
ConsumerFollows ==
  /\ Alive /\ sim_up /\ ~actuator_due => consumer.relay_enable = actuator.relay_enable
  /\ ~sim_up => consumer.relay_enable = FALSE

SupervisorSide == SupervisorStart \/ SupervisorTick \/ SupervisorReset \/ SupervisorEnd

\* What the supervisor's steps do to the rest of the topology.
LEMMA SupervisorSteps ==
  ASSUME SimTypes, SupervisorSide
  PROVE  /\ UNCHANGED <<sim_up, pristine, active_faults, consumer, disturbances>>
         /\ Alive' => actuator_due' = sim_up
         /\ actuator_due' \in BOOLEAN
         /\ reset_served' \in BOOLEAN
         /\ burst' = 0 \/ burst' = burst
         /\ SettleEstop
<1>1. CASE SupervisorStart
  BY <1>1 DEF SupervisorStart, SimTypes
<1>2. CASE SupervisorTick
  BY <1>2 DEF SupervisorTick, SimTypes, sim_vars
<1>3. CASE SupervisorReset
  BY <1>3 DEF SupervisorReset, SimTypes, sim_vars
<1>4. CASE SupervisorEnd
  <2>1. ~Alive'
    BY <1>4 DEF SupervisorEnd, OnSignal, Crash, Alive
  <2>2. /\ actuator_due' \in {FALSE, sim_up /\ (process' = "exited" \/ actuator_due)}
        /\ SettleEstop
        /\ UNCHANGED <<sim_vars, burst, disturbances, reset_served>>
    BY <1>4 DEF SupervisorEnd
  <2> QED BY <2>1, <2>2 DEF SimTypes, sim_vars
<1> QED BY <1>1, <1>2, <1>3, <1>4 DEF SupervisorSide

\* What a delivery leaves alone.
LEMMA DeliverySteps ==
  ASSUME Delivery
  PROVE  /\ Alive /\ Alive'
         /\ UNCHANGED <<bench_vars, node_vars, sim_up, pristine, active_faults, consumer,
                        actuator_due, burst, disturbances, reset_served, estop_owed, estop_ticks>>
  BY DEF Delivery, DeliverCommand, DeliverEncoder, DeliverSafety, Take, MoveOrigin,
         IngestCommand, IngestEncoder, IngestSafety, node_vars, estop_vars, Alive

LEMMA RemainingTyped ==
  ASSUME SimTypes
  PROVE  /\ DOMAIN Remaining \subseteq DOMAIN active_faults
         /\ \A f \in DOMAIN Remaining : Remaining[f] \in Nat
  BY DEF SimTypes, Remaining

\* The count stays within its bound.
LEMMA TicksTyped ==
  ASSUME SimTypes, KeepTicks \/ CountTick PROVE estop_ticks' \in 0..MaxBurst + 2
<1>1. estop_ticks \in 0..MaxBurst + 2 /\ MaxBurst \in Nat
  BY TopologyAssumption DEF SimTypes
<1>2. CASE KeepTicks
  BY <1>1, <1>2 DEF KeepTicks
<1>3. CASE CountTick
  BY <1>1, <1>3 DEF CountTick
<1> QED BY <1>2, <1>3

LEMMA SimTypesStep ==
  ASSUME SimTypes, NodeInv, [TopologyNext]_topology_vars PROVE SimTypes'
<1>1. CASE SupervisorSide
  <2>1. estop_owed' \in BOOLEAN /\ estop_ticks' \in 0..MaxBurst + 2
    BY <1>1, SupervisorSteps, TicksTyped DEF SettleEstop
  <2>2. burst' \in 0..MaxBurst
    BY <1>1, SupervisorSteps, TopologyAssumption DEF SimTypes
  <2> QED BY <1>1, <2>1, <2>2, SupervisorSteps DEF SimTypes
<1>2. CASE Delivery
  BY <1>2, DeliverySteps DEF SimTypes
<1>3. CASE DeliverActuator
  <2>1. actuator \in ActuatorCommand
    BY DEF NodeInv, NodeTypeOK
  <2>2. consumer' \in ActuatorCommand
    BY <1>3, <2>1 DEF DeliverActuator, OnActuator, ActuatorCommand
  <2> QED BY <1>3, <2>2 DEF DeliverActuator, OnActuator, SimTypes, estop_vars
<1>4. CASE SimTick
  <2>1. PICK auto \in AutoCommands :
          /\ Alive => burst < MaxBurst
          /\ SimulatorTick(auto, Alive)
          /\ burst' = IF Alive THEN burst + 1 ELSE 0
          /\ CountTick
          /\ UNCHANGED <<actuator_due, disturbances, reset_served, estop_owed>>
    BY <1>4 DEF SimTick
  <2>2. burst' \in 0..MaxBurst
    BY <2>1, TopologyAssumption DEF SimTypes
  <2>3. active_faults' = Remaining /\ pristine' \subseteq pristine /\ UNCHANGED <<sim_up, consumer>>
    BY <2>1 DEF SimulatorTick
  <2> QED BY <2>1, <2>2, <2>3, RemainingTyped, TicksTyped DEF SimTypes
<1>5. CASE Inject
  <2>1. PICK i \in Injections :
          /\ disturbances < MaxDisturbances
          /\ SetFault(i.fault, i.duration)
          /\ disturbances' = disturbances + 1
          /\ OweEstop(i.fault, i.duration)
          /\ UNCHANGED <<link_vars, reset_served>>
    BY <1>5 DEF Inject
  <2>2. i.fault \in SupportedFaults /\ i.duration \in Nat
    BY SimulatorAssumption
  <2>3. /\ DOMAIN active_faults' \subseteq SupportedFaults
        /\ \A f \in DOMAIN active_faults' : active_faults'[f] \in Nat
    BY <2>1, <2>2 DEF SetFault, SimTypes
  <2>4. estop_owed' \in BOOLEAN /\ estop_ticks' \in 0..MaxBurst + 2
    BY <2>1, TicksTyped DEF OweEstop, EstopLongEnough
  <2>5. disturbances' \in 0..MaxDisturbances
    BY <2>1, TopologyAssumption DEF SimTypes
  <2> QED BY <2>1, <2>3, <2>4, <2>5 DEF SetFault, SimTypes, link_vars
<1>6. CASE Clear
  <2>1. PICK fault \in DOMAIN active_faults :
          /\ ClearFault(fault)
          /\ estop_owed' = (estop_owed /\ fault # "software_estop")
          /\ KeepTicks
          /\ UNCHANGED <<link_vars, disturbances, reset_served>>
    BY <1>6 DEF Clear
  <2> QED BY <2>1, TicksTyped DEF ClearFault, SimTypes, link_vars
<1>7. CASE SimStart
  <2>1. actuator_due' \in BOOLEAN /\ burst' \in 0..MaxBurst
    BY <1>7, TopologyAssumption DEF SimStart, Alive
  <2> QED BY <1>7, <2>1 DEF SimStart, SimulatorStart, SimTypes, estop_vars
<1>8. CASE SimEnd
  <2>1. consumer' \in ActuatorCommand
    BY <1>8, SafeActuatorType DEF SimEnd, SimulatorEnd, IdleConsumer, SafeActuator
  <2>2. DOMAIN active_faults' = {} /\ pristine' \subseteq Telemetry /\ sim_up' = FALSE
    BY <1>8 DEF SimEnd, SimulatorEnd, Telemetry
  <2>3. disturbances' \in 0..MaxDisturbances
    BY <1>8, TopologyAssumption DEF SimEnd, SimTypes
  <2> QED BY <1>8, <2>1, <2>2, <2>3, TicksTyped DEF SimEnd, SimTypes
<1>9. CASE UNCHANGED topology_vars
  BY <1>9 DEF topology_vars, SimTypes
<1> QED
  BY <1>1, <1>2, <1>3, <1>4, <1>5, <1>6, <1>7, <1>8, <1>9 DEF TopologyNext, SupervisorSide

LEMMA ConsumerStep ==
  ASSUME SimTypes, ConsumerFollows, [TopologyNext]_topology_vars PROVE ConsumerFollows'
<1>1. CASE SupervisorSide
  BY <1>1, SupervisorSteps DEF ConsumerFollows
<1>2. CASE Delivery
  BY <1>2, DeliverySteps DEF ConsumerFollows, node_vars
<1>3. CASE DeliverActuator
  BY <1>3 DEF DeliverActuator, OnActuator, ConsumerFollows, node_vars
<1>4. CASE SimTick \/ Inject \/ Clear
  <2>1. UNCHANGED <<process, sim_up, actuator_due, consumer, actuator>>
    BY <1>4 DEF SimTick, SimulatorTick, Inject, SetFault, Clear, ClearFault, link_vars,
                node_vars
  <2> QED BY <2>1 DEF ConsumerFollows, Alive
<1>5. CASE SimStart
  <2>1. UNCHANGED process /\ sim_up' = TRUE /\ actuator_due' = Alive
    BY <1>5 DEF SimStart, SimulatorStart, node_vars
  <2> QED BY <2>1 DEF ConsumerFollows, Alive
<1>6. CASE SimEnd
  BY <1>6 DEF SimEnd, SimulatorEnd, ConsumerFollows, IdleConsumer
<1>7. CASE UNCHANGED topology_vars
  BY <1>7 DEF topology_vars, ConsumerFollows, Alive
<1> QED BY <1>1, <1>2, <1>3, <1>4, <1>5, <1>6, <1>7 DEF TopologyNext, SupervisorSide

\* What every later proof starts from.
TopologyInv == NodeInv /\ LinksInv /\ SimTypes /\ ConsumerFollows

LEMMA TopologyStart == ASSUME TopologyInit PROVE TopologyInv
<1>1. NodeInv /\ LinksInv
  BY NodeInitInvariant, LinksStart DEF TopologyInit
<1>2. DOMAIN active_faults = {} /\ sim_up = TRUE /\ pristine = {"encoder", "safety"}
  BY DEF TopologyInit, SimulatorInit
<1>3. consumer \in ActuatorCommand
  BY SafeActuatorType DEF TopologyInit, SimulatorInit, IdleConsumer, SafeActuator
<1>4. /\ actuator_due = FALSE /\ reset_served = FALSE
      /\ estop_owed = FALSE /\ estop_ticks \in 0..MaxBurst + 2
      /\ burst \in 0..MaxBurst /\ disturbances \in 0..MaxDisturbances
  BY TopologyAssumption DEF TopologyInit
<1>5. SimTypes
  BY <1>2, <1>3, <1>4 DEF SimTypes, Telemetry
<1>6. ConsumerFollows
  BY <1>2 DEF ConsumerFollows, TopologyInit, NodeInit, Alive
<1> QED BY <1>1, <1>5, <1>6 DEF TopologyInv

LEMMA TopologyStep == ASSUME TopologyInv, [TopologyNext]_topology_vars PROVE TopologyInv'
<1>1. NodeInv'
  BY TopologyMoves, NodeStepInvariant DEF TopologyInv
<1> QED BY <1>1, LinksStep, SimTypesStep, ConsumerStep DEF TopologyInv

LEMMA TopologyInvariant == TopologySpec => []TopologyInv
  BY TopologyStart, TopologyStep, PTL DEF TopologySpec

\* The topology keeps its types: no number runs away from what the supervisor
\* accepted, however often either process is restarted and however far behind
\* its numbers it begins, and no link ever carries anything but a frame of its
\* own channel.
THEOREM TopologyTypes == TopologySpec => []TopologyTypeOK
<1>1. ASSUME TopologyInv PROVE TopologyTypeOK
  <2>1. number \in [Publishers -> -(MaxBehind + 1)..2]
    BY <1>1, TopologyAssumption DEF TopologyInv, LinksInv, LinkOK
  <2>2. \A p \in Publishers : in_flight[p] = NoMessage \/ in_flight[p] \in Message(p)
    <3> SUFFICES ASSUME NEW p \in Publishers, in_flight[p] # NoMessage
                 PROVE  in_flight[p] \in Message(p)
      OBVIOUS
    <3>1. in_flight[p] \in [sequence : Int, frame : FramesOf(p)]
      BY <1>1 DEF TopologyInv, LinksInv, LinkOK
    <3>2. CASE p = "command"
      BY <3>1, <3>2, FramesArrive, AdapterAssumption DEF Message
    <3>3. CASE p = "encoder"
      BY <3>1, <3>3, FramesArrive, AdapterAssumption DEF Message
    <3>4. CASE p = "safety"
      BY <3>1, <3>4, FramesArrive, AdapterAssumption DEF Message
    <3> QED BY <3>2, <3>3, <3>4 DEF Publishers
  <2> QED BY <1>1, <2>1, <2>2 DEF TopologyInv, SimTypes, NodeInv, TopologyTypeOK
<1> QED BY <1>1, TopologyInvariant, PTL

\* The simulator's relay is on only for the supervisor that lives now, in its
\* RUNNING, with nothing latched and on a command frame of its own life,
\* whatever was killed, restarted, reset or injected in between.
THEOREM MotorFollows == TopologySpec => []MotorFollowsSupervisor
<1>1. ASSUME TopologyInv PROVE MotorFollowsSupervisor
  <2> SUFFICES ASSUME Alive, ~actuator_due, consumer.relay_enable
               PROVE  state = "RUNNING" /\ latched = {} /\ command # NoFrame
    BY DEF MotorFollowsSupervisor
  <2>1. actuator.relay_enable
    BY <1>1 DEF TopologyInv, SimTypes, ConsumerFollows
  <2>2. ~ActuatorSafe
    BY <2>1 DEF ActuatorSafe, SafeActuator
  <2> QED BY <1>1, <2>2 DEF TopologyInv, NodeInv, TopicFollowsSupervisor
<1> QED BY <1>1, TopologyInvariant, PTL

-----------------------------------------------------------------------------
(* The E-stop.                                                             *)

Estop == "software_estop"

\* What is left of the E-stop's duration.
Left == IF Active(Estop) THEN active_faults[Estop] ELSE 0

EstopSent ==
  in_flight["safety"] # NoMessage => in_flight["safety"].frame.software_estop_active

\* The E-stop will be in the supervisor's retained frame when its next sample is
\* taken: because every frame still to come in this gap will carry it, because
\* the frame on its way does and so will all that follow, or because the
\* retained frame has it and the rest of the gap is covered.
Lasting ==
  \/ Active(Estop) /\ (active_faults[Estop] = 0 \/ active_faults[Estop] > MaxBurst)
  \/ /\ Active(Estop) /\ active_faults[Estop] >= MaxBurst
     /\ in_flight["safety"] # NoMessage /\ in_flight["safety"].sequence > 0
     /\ EstopSent
  \/ /\ safety.software_estop_active = TRUE
     /\ EstopSent
     /\ burst + Left >= MaxBurst

EstopInv ==
  estop_owed =>
    /\ Alive /\ InitialTelemetryReceived /\ sim_up
    /\ Counts("safety") /\ number["safety"] >= 0
    /\ Lasting

\* The channel's faults are not among the active ones.
LEMMA SafetyCounts ==
  Counts("safety") <=> SafetyChannelFaults \cap DOMAIN active_faults = {}
  BY DEF Counts, Active, SafetyChannelFaults

LEMMA SafetyStillCounts ==
  Counts("safety")' <=> SafetyChannelFaults \cap DOMAIN active_faults' = {}
  BY DEF Counts, Active, SafetyChannelFaults

\* Nothing the argument looks at moves.
LEMMA EstopStays ==
  ASSUME EstopInv, estop_owed' => estop_owed,
         UNCHANGED <<process, safety, sim_up, in_flight["safety"], number["safety"], burst>>,
         encoder # NoFrame => encoder' # NoFrame,
         Active(Estop)' <=> Active(Estop),
         Active(Estop) => active_faults'[Estop] = active_faults[Estop],
         estop_owed /\ estop_owed' /\ Counts("safety") => Counts("safety")'
  PROVE  EstopInv'
<1> SUFFICES ASSUME estop_owed'
             PROVE  /\ Alive' /\ InitialTelemetryReceived' /\ sim_up'
                    /\ Counts("safety")' /\ number'["safety"] >= 0
                    /\ Lasting'
  BY DEF EstopInv
<1>1. Lasting /\ Alive /\ InitialTelemetryReceived /\ sim_up /\ Counts("safety")
      /\ number["safety"] >= 0
  BY DEF EstopInv
<1>2. Left' = Left
  BY DEF Left
<1>3. Lasting'
  BY <1>1, <1>2 DEF Lasting, EstopSent
<1> QED BY <1>1, <1>3 DEF Alive, InitialTelemetryReceived

\* A sample of a supervisor whose retained frame has the E-stop latches it.
LEMMA EstopLatches ==
  ASSUME AdapterInv, NEW reset \in BOOLEAN, Tick(reset),
         safety # NoFrame, safety.software_estop_active = TRUE
  PROVE  "EMERGENCY_STOP" \in latched'
<1> DEFINE in == BuildInputs(reset)
<1>1. in.estop_active = TRUE
  BY DEF BuildInputs
<1>2. Validated(in).estop_active = TRUE
  BY <1>1, SampleIsNoGarbage DEF Validated, BooleanOr
<1>3. "EMERGENCY_STOP" \in Detected(in, Validated(in))
  BY <1>2 DEF Detected
<1> QED BY <1>3, TickSteps, DetectedLatches

LEMMA SupervisorKeepsEstop ==
  ASSUME TopologyInv, EstopInv, SupervisorSide PROVE EstopInv'
<1> SUFFICES ASSUME estop_owed'
             PROVE  /\ Alive' /\ InitialTelemetryReceived' /\ sim_up'
                    /\ Counts("safety")' /\ number'["safety"] >= 0
                    /\ Lasting'
  BY DEF EstopInv
<1>1. /\ estop_owed /\ Alive /\ Alive' /\ "EMERGENCY_STOP" \notin latched'
      /\ UNCHANGED <<sim_up, active_faults>>
  BY SupervisorSteps DEF TopologyInv, SettleEstop
<1>2. /\ Lasting /\ InitialTelemetryReceived /\ sim_up /\ Counts("safety")
      /\ number["safety"] >= 0
  BY <1>1 DEF EstopInv
<1>3. SupervisorTick \/ SupervisorReset
  BY <1>1 DEF SupervisorSide, SupervisorStart, Start, SupervisorEnd, OnSignal, Crash, Alive
<1>4. PICK reset \in BOOLEAN : Tick(reset)
  BY <1>1, <1>2, <1>3
  DEF SupervisorTick, OnTick, FinishExit, AwaitTelemetry, OrdinaryTick, ExitTick,
      SupervisorReset, OnReset, ResetTick, Alive
<1>5. safety.software_estop_active # TRUE
  BY <1>1, <1>2, <1>4, EstopLatches DEF TopologyInv, NodeInv, InitialTelemetryReceived
<1>6. UNCHANGED <<encoder, safety>>
  BY <1>4 DEF Tick, frame_vars
<1>7. UNCHANGED <<in_flight, number>>
  BY <1>1, <1>3 DEF SupervisorTick, SupervisorReset, sim_vars
<1>8. Lasting'
  BY <1>1, <1>2, <1>5, <1>7 DEF Lasting, Active, EstopSent
<1>9. Counts("safety")'
  BY <1>1, <1>2 DEF Counts, Active
<1> QED BY <1>1, <1>2, <1>6, <1>7, <1>8, <1>9 DEF InitialTelemetryReceived

LEMMA DeliveryKeepsEstop ==
  ASSUME TopologyInv, EstopInv, Delivery PROVE EstopInv'
<1>1. /\ Alive /\ UNCHANGED <<process, sim_up, active_faults, burst, estop_owed>>
  BY DeliverySteps DEF node_vars
<1>2. Counts("safety")' <=> Counts("safety")
  BY <1>1 DEF Counts, Active
<1>3. /\ DOMAIN in_flight = Publishers /\ number \in [Publishers -> Int]
      /\ \A p \in Publishers : LinkOK(p)
  BY DEF TopologyInv, LinksInv
<1>4. CASE DeliverCommand \/ DeliverEncoder
  <2>1. UNCHANGED <<safety, in_flight["safety"], number["safety"]>>
    BY <1>3, <1>4
    DEF DeliverCommand, DeliverEncoder, Take, MoveOrigin, IngestCommand, IngestEncoder,
        Publishers
  <2>2. encoder # NoFrame => encoder' # NoFrame
    <3>1. CASE DeliverCommand
      BY <3>1 DEF DeliverCommand, IngestCommand
    <3>2. CASE DeliverEncoder
      <4>1. in_flight["encoder"].frame \in EncoderFrames
        BY <1>3, <3>2, FramesArrive DEF DeliverEncoder, Take, LinkOK, Publishers
      <4> QED BY <3>2, <4>1, AdapterAssumption DEF DeliverEncoder, IngestEncoder
    <3> QED BY <1>4, <3>1, <3>2
  <2> QED BY <1>1, <1>2, <2>1, <2>2, EstopStays DEF Active
<1>5. CASE DeliverSafety
  <2> DEFINE m == in_flight["safety"]
  <2> SUFFICES ASSUME estop_owed'
               PROVE  /\ Alive' /\ InitialTelemetryReceived' /\ sim_up'
                      /\ Counts("safety")' /\ number'["safety"] >= 0
                      /\ Lasting'
    BY DEF EstopInv
  <2>1. /\ Lasting /\ InitialTelemetryReceived /\ sim_up /\ Counts("safety")
        /\ number["safety"] >= 0
    BY <1>1 DEF EstopInv
  <2>2. /\ m \in [sequence : Int, frame : SimSafety] /\ m # NoMessage
        /\ m.sequence \in {number["safety"] - 1, number["safety"]}
    BY <1>3, <1>5 DEF DeliverSafety, Take, LinkOK, FramesOf, Publishers
  <2>3. in_flight'["safety"] = NoMessage
    BY <1>3, <1>5 DEF DeliverSafety, Take, Publishers
  <2>4. /\ number'["safety"] = number["safety"] - Accepted("safety", safety)
        /\ safety' = IF Classify(safety, m.sequence) = "ACCEPTED" THEN m.frame ELSE safety
        /\ encoder' = encoder
    BY <1>3, <1>5 DEF DeliverSafety, MoveOrigin, IngestSafety, Publishers
  <2>5. number'["safety"] >= 0
    BY <1>3, <2>1, <2>2, <2>4 DEF Accepted, Publishers
  <2>6. InitialTelemetryReceived'
    <3>1. m.frame # NoFrame
      BY <2>2, TopologyAssumption, AdapterAssumption
    <3> QED BY <2>1, <2>4, <3>1 DEF InitialTelemetryReceived
  <2>7. Left' = Left /\ (Active(Estop)' <=> Active(Estop))
    BY <1>1 DEF Left, Active
  <2>8. m.frame.software_estop_active \in BOOLEAN
    BY <2>2 DEF SimSafety
  <2>9. Lasting'
    <3>1. CASE Active(Estop) /\ (active_faults[Estop] = 0 \/ active_faults[Estop] > MaxBurst)
      BY <1>1, <2>7, <3>1 DEF Lasting
    <3>2. CASE /\ Active(Estop) /\ active_faults[Estop] >= MaxBurst
               /\ m.sequence > 0 /\ EstopSent
      <4>1. Classify(safety, m.sequence) = "ACCEPTED"
        BY <2>2, <3>2, InputAssumption DEF Classify
      <4>2. safety'.software_estop_active = TRUE
        BY <2>2, <2>4, <2>8, <3>2, <4>1 DEF EstopSent
      <4>3. burst + active_faults[Estop] >= MaxBurst
        <5>1. active_faults[Estop] \in Nat /\ burst \in Nat /\ MaxBurst \in Nat
          BY <3>2, TopologyAssumption DEF TopologyInv, SimTypes, Active
        <5> QED BY <3>2, <5>1
      <4> QED BY <1>1, <2>3, <2>7, <3>2, <4>2, <4>3 DEF Lasting, EstopSent, Left
    <3>3. CASE /\ safety.software_estop_active = TRUE
               /\ EstopSent
               /\ burst + Left >= MaxBurst
      <4>1. safety'.software_estop_active = TRUE
        BY <2>2, <2>4, <2>8, <3>3 DEF EstopSent
      <4> QED BY <1>1, <2>3, <2>7, <3>3, <4>1 DEF Lasting, EstopSent
    <3> QED BY <2>1, <3>1, <3>2, <3>3 DEF Lasting
  <2> QED BY <1>1, <1>2, <2>1, <2>5, <2>6, <2>9 DEF Alive
<1> QED BY <1>4, <1>5 DEF Delivery

\* A tick counts a duration down by one and leaves a held fault alone.
LEMMA RemainingCounts ==
  ASSUME SimTypes
  PROVE  /\ SafetyChannelFaults \cap DOMAIN active_faults = {} =>
              SafetyChannelFaults \cap DOMAIN Remaining = {}
         /\ Active(Estop) /\ active_faults[Estop] # 1 =>
              /\ Estop \in DOMAIN Remaining
              /\ Remaining[Estop] = IF active_faults[Estop] = 0 THEN 0
                                    ELSE active_faults[Estop] - 1
         /\ ~Active(Estop) \/ active_faults[Estop] = 1 => Estop \notin DOMAIN Remaining
  BY DEF Remaining, Active

LEMMA SimTickKeepsEstop ==
  ASSUME TopologyInv, EstopInv, SimTick PROVE EstopInv'
<1> SUFFICES ASSUME estop_owed'
             PROVE  /\ Alive' /\ InitialTelemetryReceived' /\ sim_up'
                    /\ Counts("safety")' /\ number'["safety"] >= 0
                    /\ Lasting'
  BY DEF EstopInv
<1>1. PICK auto \in AutoCommands :
        /\ in_flight = NothingInFlight
        /\ Alive => burst < MaxBurst
        /\ SimulatorTick(auto, Alive)
        /\ in_flight' = IF Alive THEN Published(auto) ELSE NothingInFlight
        /\ burst' = IF Alive THEN burst + 1 ELSE 0
        /\ UNCHANGED <<adapter_vars, node_vars, estop_owed>>
  BY DEF SimTick
<1>2. /\ Alive /\ Lasting /\ InitialTelemetryReceived /\ sim_up /\ Counts("safety")
      /\ number["safety"] >= 0
  BY <1>1 DEF EstopInv
<1>3. /\ UNCHANGED <<process, encoder, safety, sim_up>>
      /\ in_flight' = Published(auto) /\ burst' = burst + 1 /\ burst < MaxBurst
      /\ number' = [p \in Publishers |-> number[p] + Increment(auto)[p]]
      /\ active_faults' = Remaining
  BY <1>1, <1>2 DEF adapter_vars, node_vars, SimulatorTick
<1>4. Increment(auto)["safety"] = 1
  BY <1>2 DEF Increment, Publishers
<1>5. /\ in_flight'["safety"] # NoMessage
      /\ in_flight'["safety"].sequence = number["safety"] + 1
      /\ number["safety"] \in Int
  BY <1>3, <1>4, PublishesTyped DEF TopologyInv, LinksInv, PublishedOK, Publishers
<1>6. number'["safety"] = number["safety"] + 1
  BY <1>3, <1>4 DEF Publishers
<1>7. in_flight'["safety"].frame.software_estop_active = Active(Estop)
  <2>1. in_flight'["safety"] = SafetyMessage
    BY <1>3 DEF Published
  <2>2. SafetyMessage # NoMessage
    BY <1>5, <2>1
  <2> QED BY <2>1, <2>2 DEF SafetyMessage, Estop
<1>8. Counts("safety")'
  BY <1>2, <1>3, SafetyCounts, SafetyStillCounts, RemainingCounts DEF TopologyInv
<1>9. Lasting'
  <2>1. /\ burst \in Nat /\ MaxBurst \in Nat /\ MaxBurst > 0
        /\ Active(Estop) => active_faults[Estop] \in Nat
    BY TopologyAssumption DEF TopologyInv, SimTypes, Active
  <2>2. SimTypes
    BY DEF TopologyInv
  <2>3. in_flight["safety"] = NoMessage
    BY <1>1 DEF NothingInFlight, Publishers
  <2>4. CASE Active(Estop) /\ active_faults[Estop] = 0
    BY <1>3, <2>2, <2>4, RemainingCounts DEF Lasting, Active
  <2>5. CASE Active(Estop) /\ active_faults[Estop] > MaxBurst
    <3>1. Active(Estop)' /\ active_faults'[Estop] = active_faults[Estop] - 1
      BY <1>3, <2>1, <2>2, <2>5, RemainingCounts DEF Active
    <3> QED BY <1>5, <1>2, <1>7, <2>1, <2>5, <3>1 DEF Lasting, EstopSent
  <2>6. CASE safety.software_estop_active = TRUE /\ burst + Left >= MaxBurst
    <3>1. Active(Estop) /\ active_faults[Estop] >= 1
      BY <1>3, <2>1, <2>6 DEF Left
    <3>2. Left' = Left - 1
      <4>1. CASE active_faults[Estop] = 1
        BY <1>3, <2>2, <3>1, <4>1, RemainingCounts DEF Left, Active
      <4>2. CASE active_faults[Estop] > 1
        BY <1>3, <2>1, <2>2, <3>1, <4>2, RemainingCounts DEF Left, Active
      <4> QED BY <2>1, <3>1, <4>1, <4>2
    <3>3. burst' + Left' >= MaxBurst
      BY <1>3, <2>1, <2>6, <3>1, <3>2 DEF Left
    <3> QED BY <1>3, <1>7, <2>6, <3>1, <3>3 DEF Lasting, EstopSent
  <2> QED BY <1>2, <2>3, <2>4, <2>5, <2>6 DEF Lasting
<1> QED BY <1>2, <1>3, <1>5, <1>6, <1>8, <1>9 DEF Alive, InitialTelemetryReceived

LEMMA FaultsKeepEstop ==
  ASSUME TopologyInv, EstopInv, Inject \/ Clear PROVE EstopInv'
<1>1. UNCHANGED <<process, encoder, safety, sim_up, number, in_flight, burst>>
  BY DEF Inject, SetFault, Clear, ClearFault, adapter_vars, node_vars, link_vars
<1>2. CASE Inject
  <2>1. PICK i \in Injections : SetFault(i.fault, i.duration) /\ OweEstop(i.fault, i.duration)
    BY <1>2 DEF Inject
  <2>2. /\ DOMAIN active_faults' = DOMAIN active_faults \cup {i.fault}
        /\ active_faults'[i.fault] = i.duration
        /\ \A f \in DOMAIN active_faults \ {i.fault} : active_faults'[f] = active_faults[f]
        /\ sim_up
    BY <2>1 DEF SetFault
  <2>3. i.fault \notin SafetyChannelFaults /\ Counts("safety") => Counts("safety")'
    BY <2>2, SafetyCounts, SafetyStillCounts
  <2>4. CASE i.fault = Estop
    <3> SUFFICES ASSUME estop_owed'
                 PROVE  /\ Alive' /\ InitialTelemetryReceived' /\ sim_up'
                        /\ Counts("safety")' /\ number'["safety"] >= 0
                        /\ Lasting'
      BY DEF EstopInv
    <3>1. EstopLongEnough(i.duration)
      BY <2>1, <2>4 DEF OweEstop, Estop
    <3>2. Lasting'
      BY <2>2, <2>4, <3>1 DEF Lasting, Active, EstopLongEnough
    <3>3. Counts("safety")'
      BY <2>3, <2>4, <3>1 DEF SafetyChannelFaults, Estop, EstopLongEnough
    <3> QED
      BY <1>1, <2>2, <3>1, <3>2, <3>3
      DEF EstopLongEnough, Alive, InitialTelemetryReceived
  <2>5. CASE i.fault # Estop
    <3>1. estop_owed' = (estop_owed /\ i.fault \notin SafetyChannelFaults)
      BY <2>1, <2>5 DEF OweEstop, Estop
    <3>2. /\ Active(Estop)' <=> Active(Estop)
          /\ Active(Estop) => active_faults'[Estop] = active_faults[Estop]
      BY <2>2, <2>5 DEF Active
    <3> QED BY <1>1, <2>3, <3>1, <3>2, EstopStays DEF TopologyInv, SimTypes
  <2> QED BY <2>4, <2>5
<1>3. CASE Clear
  <2>1. PICK fault \in DOMAIN active_faults :
          ClearFault(fault) /\ estop_owed' = (estop_owed /\ fault # Estop)
    BY <1>3 DEF Clear, Estop
  <2>2. /\ DOMAIN active_faults' = DOMAIN active_faults \ {fault}
        /\ \A f \in DOMAIN active_faults \ {fault} : active_faults'[f] = active_faults[f]
    BY <2>1 DEF ClearFault
  <2>3. Counts("safety") => Counts("safety")'
    BY <2>2, SafetyCounts, SafetyStillCounts
  <2>4. CASE fault = Estop
    BY <2>1, <2>4 DEF EstopInv
  <2>5. CASE fault # Estop
    <3>1. /\ Active(Estop)' <=> Active(Estop)
          /\ Active(Estop) => active_faults'[Estop] = active_faults[Estop]
      BY <2>2, <2>5 DEF Active
    <3> QED BY <1>1, <2>1, <2>3, <3>1, EstopStays DEF TopologyInv, SimTypes
  <2> QED BY <2>4, <2>5
<1> QED BY <1>2, <1>3

LEMMA EstopStep ==
  ASSUME TopologyInv, EstopInv, [TopologyNext]_topology_vars PROVE EstopInv'
<1>1. CASE SupervisorSide \/ Delivery \/ SimTick \/ Inject \/ Clear
  BY <1>1, SupervisorKeepsEstop, DeliveryKeepsEstop, SimTickKeepsEstop, FaultsKeepEstop
<1>2. CASE DeliverActuator
  <2>1. UNCHANGED <<process, encoder, safety, sim_up, number, active_faults, in_flight, burst,
                    estop_owed>>
    BY <1>2 DEF DeliverActuator, OnActuator, adapter_vars, node_vars, estop_vars
  <2>2. Counts("safety") => Counts("safety")'
    BY <2>1, SafetyCounts, SafetyStillCounts
  <2> QED BY <2>1, <2>2, EstopStays DEF Active
<1>3. CASE SimStart
  BY <1>3 DEF SimStart, SimulatorStart, EstopInv, estop_vars
<1>4. CASE SimEnd
  BY <1>4 DEF SimEnd, EstopInv
<1>5. CASE UNCHANGED topology_vars
  <2>1. UNCHANGED <<process, encoder, safety, sim_up, number, active_faults, in_flight, burst,
                    estop_owed>>
    BY <1>5 DEF topology_vars
  <2>2. Counts("safety") => Counts("safety")'
    BY <2>1, SafetyCounts, SafetyStillCounts
  <2> QED BY <2>1, <2>2, EstopStays DEF Active
<1> QED BY <1>1, <1>2, <1>3, <1>4, <1>5 DEF TopologyNext, SupervisorSide

\* An injected E-stop that outlasts the longest gap between two samples is in
\* force, on its way or in the retained frame until a sample has latched it,
\* for every ratio of the two timers and whatever else is injected, cleared,
\* restarted or reset meanwhile.
THEOREM EstopKept == TopologySpec => []EstopIsNotLost
<1>1. TopologyInit => EstopInv
  BY DEF TopologyInit, EstopInv
<1>2. ASSUME TopologyInv, EstopInv PROVE EstopIsNotLost
  BY <1>2
  DEF EstopInv, EstopIsNotLost, Lasting, EstopUnderway, InitialTelemetryReceived, Estop
<1> QED
  BY <1>1, <1>2, EstopStep, TopologyInvariant, PTL DEF TopologySpec

\* Where an E-stop that was published is.
EstopRetained == safety.software_estop_active = TRUE

EstopCarried ==
  in_flight["safety"] # NoMessage /\ in_flight["safety"].sequence > 0 /\ EstopSent

\* What an owed E-stop has reached by its count of ticks.  Until a tick has
\* published it nothing is known; the frame of the first tick is under way or
\* retained; from the second tick on an earlier one is retained, since nothing
\* is published before it was taken.  A sample that does not latch it therefore
\* leaves a count of at most one.
Timely ==
  /\ estop_ticks <= burst + 1
  /\ estop_ticks >= 1 => (in_flight["safety"] = NoMessage /\ EstopRetained) \/ EstopCarried
  /\ estop_ticks >= 2 => EstopRetained

TimelyInv == estop_owed => Timely

\* A debt that was just incurred, and one that nothing touches.
LEMMA TimelyAnew ==
  ASSUME estop_ticks' = 0, burst' \in Nat PROVE Timely'
<1>1. estop_ticks' <= burst' + 1
  <2>1. \A n \in Nat : 0 <= n + 1
    OBVIOUS
  <2>2. 0 <= burst' + 1
    BY <2>1
  <2> QED BY <2>2
<1>2. ~(estop_ticks' >= 1) /\ ~(estop_ticks' >= 2)
  OBVIOUS
<1> QED BY <1>1, <1>2 DEF Timely

LEMMA TimelyStays ==
  ASSUME TopologyInv, TimelyInv, estop_owed' => estop_owed /\ estop_ticks' = estop_ticks,
         UNCHANGED <<burst, safety, in_flight["safety"]>>
  PROVE  TimelyInv'
<1>1. EstopRetained' = EstopRetained /\ EstopCarried' = EstopCarried
  BY DEF EstopRetained, EstopCarried, EstopSent
<1> QED BY <1>1 DEF TimelyInv, Timely

\* What a tick that owes the E-stop publishes.
LEMMA SimTickSendsEstop ==
  ASSUME TopologyInv, EstopInv, SimTick, estop_owed
  PROVE  /\ in_flight["safety"] = NoMessage /\ burst' = burst + 1
         /\ UNCHANGED <<safety, estop_owed>> /\ CountTick
         /\ EstopCarried'
<1>1. PICK auto \in AutoCommands :
        /\ in_flight = NothingInFlight
        /\ Alive => burst < MaxBurst
        /\ in_flight' = IF Alive THEN Published(auto) ELSE NothingInFlight
        /\ burst' = IF Alive THEN burst + 1 ELSE 0
        /\ CountTick
        /\ UNCHANGED <<adapter_vars, estop_owed>>
  BY DEF SimTick
<1>2. Alive /\ Lasting /\ Counts("safety") /\ number["safety"] >= 0
  BY DEF EstopInv
<1>3. Increment(auto)["safety"] = 1
  BY <1>2 DEF Increment, Publishers
<1>4. /\ in_flight'["safety"] # NoMessage
      /\ in_flight'["safety"].sequence = number["safety"] + 1
      /\ number["safety"] \in Int
  BY <1>1, <1>2, <1>3, PublishesTyped DEF TopologyInv, LinksInv, PublishedOK, Publishers
<1>5. in_flight["safety"] = NoMessage
  BY <1>1 DEF NothingInFlight, Publishers
<1>6. Active(Estop)
  <2>1. burst \in Nat /\ MaxBurst \in Nat /\ burst < MaxBurst
    BY <1>1, <1>2, TopologyAssumption DEF TopologyInv, SimTypes
  <2> QED BY <1>2, <1>5, <2>1 DEF Lasting, Left
<1>7. in_flight'["safety"].frame.software_estop_active = Active(Estop)
  <2>1. in_flight'["safety"] = SafetyMessage
    BY <1>1, <1>2 DEF Published
  <2> QED BY <1>4, <2>1 DEF SafetyMessage, Estop
<1>8. EstopSent'
  BY <1>6, <1>7 DEF EstopSent
<1>9. EstopCarried'
  BY <1>2, <1>4, <1>8 DEF EstopCarried
<1> QED BY <1>1, <1>2, <1>5, <1>9 DEF adapter_vars

LEMMA SupervisorKeepsTimely ==
  ASSUME TopologyInv, EstopInv, TimelyInv, SupervisorSide PROVE TimelyInv'
<1> SUFFICES ASSUME estop_owed' PROVE Timely'
  BY DEF TimelyInv
<1>1. /\ estop_owed /\ Alive /\ Alive' /\ "EMERGENCY_STOP" \notin latched'
      /\ estop_ticks' = estop_ticks
      /\ burst' = 0 \/ burst' = burst
  BY SupervisorSteps DEF TopologyInv, SettleEstop, KeepTicks
<1>2. Timely /\ InitialTelemetryReceived
  BY <1>1 DEF EstopInv, TimelyInv
<1>3. SupervisorTick \/ SupervisorReset
  BY <1>1 DEF SupervisorSide, SupervisorStart, Start, SupervisorEnd, OnSignal, Crash, Alive
<1>4. PICK reset \in BOOLEAN : Tick(reset)
  BY <1>1, <1>2, <1>3
  DEF SupervisorTick, OnTick, FinishExit, AwaitTelemetry, OrdinaryTick, ExitTick,
      SupervisorReset, OnReset, ResetTick, Alive
<1>5. ~EstopRetained
  BY <1>1, <1>2, <1>4, EstopLatches
  DEF TopologyInv, NodeInv, InitialTelemetryReceived, EstopRetained
<1>6. EstopRetained' = EstopRetained /\ EstopCarried' = EstopCarried
      /\ in_flight' = in_flight
  BY <1>1, <1>3, <1>4
  DEF SupervisorTick, SupervisorReset, Tick, frame_vars, EstopRetained, EstopCarried, EstopSent
<1>7. estop_ticks <= 1 /\ estop_ticks \in Nat /\ burst \in Nat
  BY <1>2, <1>5, TopologyAssumption DEF Timely, TopologyInv, SimTypes
<1>8. estop_ticks' <= burst' + 1
  BY <1>1, <1>2, <1>7 DEF Timely
<1> QED BY <1>1, <1>2, <1>6, <1>8 DEF Timely

LEMMA DeliveryKeepsTimely ==
  ASSUME TopologyInv, EstopInv, TimelyInv, Delivery PROVE TimelyInv'
<1>1. UNCHANGED <<burst, estop_owed, estop_ticks>>
  BY DeliverySteps
<1>2. DOMAIN in_flight = Publishers
  BY DEF TopologyInv, LinksInv
<1>3. CASE DeliverCommand \/ DeliverEncoder
  <2>1. UNCHANGED <<safety, in_flight["safety"]>>
    BY <1>2, <1>3
    DEF DeliverCommand, DeliverEncoder, Take, IngestCommand, IngestEncoder, Publishers
  <2> QED BY <1>1, <2>1, TimelyStays
<1>4. CASE DeliverSafety
  <2> DEFINE m == in_flight["safety"]
  <2> SUFFICES ASSUME estop_owed' PROVE Timely'
    BY DEF TimelyInv
  <2>1. Timely
    BY <1>1 DEF TimelyInv
  <2>2. /\ m # NoMessage /\ in_flight'["safety"] = NoMessage
        /\ safety' = IF Classify(safety, m.sequence) = "ACCEPTED" THEN m.frame ELSE safety
    BY <1>2, <1>4 DEF DeliverSafety, Take, IngestSafety, Publishers
  <2>3. /\ m.sequence \in Int
        /\ m.frame.software_estop_active \in BOOLEAN
    BY <2>2 DEF TopologyInv, LinksInv, LinkOK, FramesOf, SimSafety, Publishers
  <2>4. m.sequence > 0 => Classify(safety, m.sequence) = "ACCEPTED"
    BY <2>3, InputAssumption DEF Classify
  <2>5. estop_ticks >= 1 => EstopRetained'
    <3>1. EstopCarried => EstopRetained'
      BY <2>2, <2>3, <2>4 DEF EstopCarried, EstopSent, EstopRetained
    <3> QED BY <2>1, <2>2, <3>1 DEF Timely
  <2>6. estop_ticks \in Nat
    BY TopologyAssumption DEF TopologyInv, SimTypes
  <2> QED BY <1>1, <2>1, <2>2, <2>5, <2>6 DEF Timely
<1> QED BY <1>3, <1>4 DEF Delivery

LEMMA SimTickKeepsTimely ==
  ASSUME TopologyInv, EstopInv, TimelyInv, SimTick PROVE TimelyInv'
<1> SUFFICES ASSUME estop_owed' PROVE Timely'
  BY DEF TimelyInv
<1>1. estop_owed
  BY DEF SimTick
<1>2. Timely
  BY <1>1 DEF TimelyInv
<1>3. /\ estop_ticks \in Nat /\ burst \in Nat
      /\ estop_ticks' = estop_ticks + 1 \/ estop_ticks' = estop_ticks
  BY <1>1, SimTickSendsEstop, TopologyAssumption DEF CountTick, TopologyInv, SimTypes
<1>4. estop_ticks >= 1 => EstopRetained'
  <2>1. EstopRetained' = EstopRetained /\ ~EstopCarried
    BY <1>1, SimTickSendsEstop DEF EstopRetained, EstopCarried
  <2> QED BY <1>2, <2>1 DEF Timely
<1> QED BY <1>1, <1>2, <1>3, <1>4, SimTickSendsEstop DEF Timely

LEMMA FaultsKeepTimely ==
  ASSUME TopologyInv, TimelyInv, Inject \/ Clear PROVE TimelyInv'
<1>1. UNCHANGED <<safety, in_flight, burst>> /\ KeepTicks
  BY DEF Inject, OweEstop, Clear, adapter_vars, link_vars
<1>2. burst' \in Nat
  BY <1>1, TopologyAssumption DEF TopologyInv, SimTypes
<1>3. CASE estop_owed /\ estop_owed'
  BY <1>1, <1>3, TimelyStays DEF KeepTicks
<1>4. CASE ~(estop_owed /\ estop_owed')
  BY <1>1, <1>2, <1>4, TimelyAnew DEF KeepTicks, TimelyInv
<1> QED BY <1>3, <1>4

LEMMA TimelyStep ==
  ASSUME TopologyInv, EstopInv, TimelyInv, [TopologyNext]_topology_vars PROVE TimelyInv'
<1>1. CASE SupervisorSide \/ Delivery \/ SimTick \/ Inject \/ Clear
  BY <1>1, SupervisorKeepsTimely, DeliveryKeepsTimely, SimTickKeepsTimely, FaultsKeepTimely
<1>2. CASE DeliverActuator \/ UNCHANGED topology_vars
  <2>1. UNCHANGED <<safety, in_flight, burst, estop_owed, estop_ticks>>
    BY <1>2 DEF DeliverActuator, adapter_vars, estop_vars, topology_vars
  <2> QED BY <2>1, TimelyStays
<1>3. CASE SimStart
  BY <1>3 DEF SimStart, SimulatorStart, estop_vars, EstopInv, TimelyInv
<1>4. CASE SimEnd
  BY <1>4 DEF SimEnd, TimelyInv
<1> QED BY <1>1, <1>2, <1>3, <1>4 DEF TopologyNext, SupervisorSide

\* An injected E-stop that outlasts the longest gap between two samples is
\* latched within MaxBurst + 1 ticks of the simulator's, for every ratio of the
\* two timers: once published it misses at most one timer sample, and neither
\* another fault, a reset nor a repeated injection gains it another one.
THEOREM EstopInTime == TopologySpec => []EstopLatchesInTime
<1>1. TopologyInit => EstopInv /\ TimelyInv
  BY DEF TopologyInit, EstopInv, TimelyInv
<1>2. ASSUME TopologyInv, EstopInv, TimelyInv, [TopologyNext]_topology_vars
      PROVE  EstopInv' /\ TimelyInv'
  BY <1>2, EstopStep, TimelyStep
<1>3. ASSUME TopologyInv, TimelyInv PROVE EstopLatchesInTime
  BY <1>3, TopologyAssumption
  DEF TimelyInv, Timely, EstopLatchesInTime, TopologyInv, SimTypes
<1> QED
  BY <1>1, <1>2, <1>3, TopologyInvariant, PTL DEF TopologySpec

-----------------------------------------------------------------------------
(* A loop that is left alone.                                              *)

NumericCommand ==
  [arm_request : BOOLEAN, run_request : BOOLEAN, shutdown_request : BOOLEAN,
   requested_motor_voltage_v : Int]

\* The auto_* parameters are numbers, the simulated supply is sufficient, and if
\* the simulator's timer may be as slow as the supervisor's, one sample without
\* news is tolerated.
QuietSetting ==
  /\ AutoCommands \ {NoMessage} \subseteq NumericCommand
  /\ SimSupply >= UndervoltageThreshold
  /\ MinBurst = 1 => WatchdogSamples > 1 /\ EncoderStaleSamples > 1 /\ RelayMismatchSamples > 1

GoodEncoder(f) == f.healthy = TRUE /\ f.valid = TRUE /\ f.finite_position = TRUE

GoodSafety(f) ==
  /\ f.supply_voltage_v = SimSupply /\ f.software_estop_active = FALSE
  /\ f.watchdog_heartbeat = TRUE /\ f.relay_feedback_healthy = TRUE
  /\ f.relay_feedback_enabled \in BOOLEAN

\* Every message is the one after the last accepted one.
QuietLinks ==
  \A p \in Publishers :
    /\ in_flight[p] = NoMessage => number[p] = 0
    /\ in_flight[p] # NoMessage => number[p] = 1 /\ in_flight[p].sequence = 1

QuietFrames ==
  /\ \A c \in Channels : protocol_invalid[c] = FALSE
  /\ command # NoFrame => command \in NumericCommand
  /\ encoder # NoFrame => GoodEncoder(encoder)
  /\ safety # NoFrame => GoodSafety(safety)
  /\ in_flight["command"] # NoMessage => in_flight["command"].frame \in NumericCommand
  /\ in_flight["encoder"] # NoMessage => GoodEncoder(in_flight["encoder"].frame)
  /\ in_flight["safety"] # NoMessage => GoodSafety(in_flight["safety"].frame)

\* A channel whose news missed the last sample brings them before the next.
CatchingUp(p) == updated[p] \/ (burst = 0 /\ in_flight[p] # NoMessage)

\* At most one sample in a row goes without news, and only where the simulator
\* may tick once between two of them.
Fresh ==
  /\ \A p \in Telemetry :
       /\ burst >= 1 /\ in_flight[p] = NoMessage => updated[p]
       /\ burst >= 2 => updated[p]
  /\ sequence # "ADVANCED"
  /\ missed = 0 \/ (missed = 1 /\ MinBurst = 1 /\ CatchingUp("safety"))
  /\ stale_age = 0 \/ (stale_age = 1 /\ MinBurst = 1 /\ CatchingUp("encoder"))
  /\ ~InitialTelemetryReceived => state = "SAFE_STARTUP" /\ missed = 0 /\ stale_age = 0

\* The relay command, and the newest word on the relay that there is.
Relay == record.relay_enable_command

Heard ==
  IF in_flight["safety"] # NoMessage
  THEN in_flight["safety"].frame.relay_feedback_enabled ELSE safety.relay_feedback_enabled

Settled == Heard = Relay /\ (burst >= 1 => safety.relay_feedback_enabled = Relay)

\* A relay command comes back as feedback with the second tick of the simulator
\* at the latest, and before it changes again.
Mirrored ==
  /\ actuator.relay_enable = Relay
  /\ ~actuator_due => consumer.relay_enable = Relay
  /\ burst >= 1 => Heard = Relay
  /\ burst >= 2 => safety.relay_feedback_enabled = Relay
  /\ state = "RUNNING" => Relay
  /\ state = "READY" => Settled
  /\ mismatch = 0 \/ (mismatch = 1 /\ MinBurst = 1 /\ Settled)

QuietUp == QuietLinks /\ QuietFrames /\ Fresh /\ Mirrored

QuietInv ==
  disturbances = 0 =>
    /\ sim_up /\ DOMAIN active_faults = {}
    /\ ~reset_served => latched = {} /\ (process = "up" => QuietUp)

-----------------------------------------------------------------------------
(* The sample of a quiet loop.                                             *)

\* The sample of the timer callback, before and after normalisation.
Taken == BuildInputs(FALSE)
Seen == Validated(Taken)

\* What it holds once both telemetry owners were heard.
LEMMA QuietInputs ==
  ASSUME QuietSetting, AdapterInv, QuietFrames, InitialTelemetryReceived,
         NEW in, in = Taken
  PROVE  /\ in.supply_voltage_v = SimSupply
         /\ in.requested_motor_voltage_v \in Int
         /\ in.arm_request \in BOOLEAN /\ in.run_request \in BOOLEAN
         /\ in.shutdown_request \in BOOLEAN
         /\ in.reset_request = FALSE
         /\ in.watchdog_heartbeat = updated["safety"]
         /\ in.estop_active = FALSE
         /\ in.encoder_stale = ~updated["encoder"]
         /\ in.encoder_failed = FALSE
         /\ in.encoder_invalid = FALSE
         /\ in.relay_feedback_failed = (safety.relay_feedback_enabled # Relay)
<1>1. safety # NoFrame /\ encoder # NoFrame /\ GoodSafety(safety) /\ GoodEncoder(encoder)
  BY DEF InitialTelemetryReceived, QuietFrames
<1>2. /\ protocol_invalid["safety"] = FALSE /\ protocol_invalid["encoder"] = FALSE
      /\ protocol_invalid["command"] = FALSE
  BY DEF QuietFrames, Channels
<1>3. updated["safety"] \in BOOLEAN /\ updated["encoder"] \in BOOLEAN
  BY DEF AdapterInv, AdapterTypeOK, Telemetry
<1>4. /\ CommandPart.arm \in BOOLEAN /\ CommandPart.run \in BOOLEAN
      /\ CommandPart.shutdown \in BOOLEAN /\ CommandPart.voltage \in Int
  <2>1. CASE command = NoFrame
    <3>1. CommandPart = [arm |-> FALSE, run |-> FALSE, shutdown |-> FALSE, voltage |-> 0]
      BY <2>1, Zenon DEF CommandPart
    <3> QED BY <3>1
  <2>2. CASE command # NoFrame /\ CommandStale
    <3>1. CommandPart = [arm |-> FALSE, run |-> FALSE, shutdown |-> TRUE, voltage |-> 0]
      BY <2>2, Zenon DEF CommandPart
    <3> QED BY <3>1
  <2>3. CASE command # NoFrame /\ ~CommandStale
    BY <2>3 DEF CommandPart, QuietFrames, NumericCommand
  <2> QED BY <2>1, <2>2, <2>3
<1>5. in.supply_voltage_v = SimSupply
  BY <1>1, <1>2 DEF Taken, BuildInputs, GoodSafety
<1>6. /\ in.requested_motor_voltage_v \in Int
      /\ in.arm_request \in BOOLEAN /\ in.run_request \in BOOLEAN
      /\ in.shutdown_request \in BOOLEAN /\ in.reset_request = FALSE
  BY <1>2, <1>4 DEF Taken, BuildInputs
<1>7. in.watchdog_heartbeat = updated["safety"]
  BY <1>1, <1>3 DEF Taken, BuildInputs, Heartbeat, GoodSafety
<1>8. in.estop_active = FALSE
  BY <1>1 DEF Taken, BuildInputs, GoodSafety
<1>9. in.encoder_stale = ~updated["encoder"]
  BY <1>3, Zenon DEF Taken, BuildInputs, EncoderStale
<1>10. in.encoder_failed = FALSE
  BY <1>1 DEF Taken, BuildInputs, EncoderFailed, GoodEncoder
<1>11. in.encoder_invalid = FALSE
  BY <1>1, <1>2 DEF Taken, BuildInputs, EncoderInvalid, GoodEncoder
<1>12. in.relay_feedback_failed = (safety.relay_feedback_enabled # Relay)
  BY <1>1 DEF Taken, BuildInputs, RelayFeedbackFailed, GoodSafety, LastRelayEnable, Relay
<1> QED BY <1>5, <1>6, <1>7, <1>8, <1>9, <1>10, <1>11, <1>12

\* Normalisation lets it through.
LEMMA QuietSample ==
  ASSUME QuietSetting, AdapterInv, QuietFrames, InitialTelemetryReceived
  PROVE  /\ InvalidFaults(Taken) = {}
         /\ Seen.supply_voltage_v = SimSupply
         /\ Seen.watchdog_heartbeat = updated["safety"]
         /\ Seen.estop_active = FALSE
         /\ Seen.encoder_stale = ~updated["encoder"]
         /\ Seen.encoder_failed = FALSE
         /\ Seen.encoder_invalid = FALSE
         /\ Seen.relay_feedback_failed = (safety.relay_feedback_enabled # Relay)
<1> DEFINE in == Taken
<1> DEFINE v == Validated(in)
<1>1. in # Malformed
  BY SampleIsNoGarbage DEF Taken
<1>2. /\ in.supply_voltage_v = SimSupply
      /\ in.requested_motor_voltage_v \in Int
      /\ in.arm_request \in BOOLEAN /\ in.run_request \in BOOLEAN
      /\ in.shutdown_request \in BOOLEAN
      /\ in.reset_request = FALSE
      /\ in.watchdog_heartbeat = updated["safety"]
      /\ in.estop_active = FALSE
      /\ in.encoder_stale = ~updated["encoder"]
      /\ in.encoder_failed = FALSE
      /\ in.encoder_invalid = FALSE
      /\ in.relay_feedback_failed = (safety.relay_feedback_enabled # Relay)
  BY QuietInputs
<1>3. updated["safety"] \in BOOLEAN /\ updated["encoder"] \in BOOLEAN
  BY DEF AdapterInv, AdapterTypeOK, Telemetry
<1> HIDE DEF in
<1>4. ValidSupply(in)
  BY <1>2, SimulatorAssumption, ConfigAssumption DEF ValidSupply, QuietSetting
<1>5. InvalidFaults(in) = {}
  BY <1>1, <1>2, <1>3, <1>4 DEF InvalidFaults, BooleanFields
<1>6. /\ v.supply_voltage_v = SimSupply
      /\ v.estop_active = FALSE /\ v.encoder_failed = FALSE /\ v.encoder_invalid = FALSE
  BY <1>1, <1>2, <1>4 DEF Validated, BooleanOr
<1>7. v.watchdog_heartbeat = updated["safety"]
  BY <1>1, <1>2, <1>3 DEF Validated, BooleanOr
<1>8. v.encoder_stale = ~updated["encoder"]
  BY <1>1, <1>2, <1>3 DEF Validated, BooleanOr
<1>9. v.relay_feedback_failed = (safety.relay_feedback_enabled # Relay)
  BY <1>1, <1>2 DEF Validated, BooleanOr
<1> QED BY <1>5, <1>6, <1>7, <1>8, <1>9 DEF in, Seen

\* What a sample of the timer finds in a quiet loop.
QuietTick ==
  /\ QuietSetting /\ TopologyInv /\ QuietUp
  /\ sim_up /\ latched = {} /\ InitialTelemetryReceived
  /\ burst >= MinBurst
  /\ Tick(FALSE)

\* A channel without news at a sample had some at the one before, and has a
\* message on its way.
LEMMA QuietNews ==
  ASSUME QuietTick, NEW p \in Telemetry, ~updated[p]
  PROVE  MinBurst = 1 /\ burst = 1 /\ in_flight[p] # NoMessage /\ ~CatchingUp(p)
<1>1. burst \in Nat /\ MinBurst \in Nat /\ MinBurst >= 1 /\ burst >= MinBurst
  BY TopologyAssumption DEF QuietTick, TopologyInv, SimTypes
<1>2. /\ burst >= 1 /\ in_flight[p] = NoMessage => updated[p]
      /\ burst >= 2 => updated[p]
  BY DEF QuietTick, QuietUp, Fresh
<1> QED BY <1>1, <1>2 DEF CatchingUp

LEMMA QuietCounters ==
  ASSUME QuietTick, NEW v, v = Seen
  PROVE  /\ \/ NextMissed(v) = 0
            \/ NextMissed(v) = 1 /\ MinBurst = 1 /\ in_flight["safety"] # NoMessage
         /\ \/ NextStaleAge(v) = 0
            \/ NextStaleAge(v) = 1 /\ MinBurst = 1 /\ in_flight["encoder"] # NoMessage
         /\ NextSequence(v) = "SEEN"
         /\ NextMissed(v) < WatchdogSamples /\ NextStaleAge(v) < EncoderStaleSamples
<1>1. /\ v.watchdog_heartbeat = updated["safety"]
      /\ v.encoder_stale = ~updated["encoder"]
      /\ v.encoder_failed = FALSE /\ v.encoder_invalid = FALSE
  BY QuietSample DEF QuietTick, QuietUp, TopologyInv, NodeInv
<1>2. /\ WatchdogSamples \in Nat \ {0} /\ EncoderStaleSamples \in Nat \ {0}
      /\ MinBurst = 1 => WatchdogSamples > 1 /\ EncoderStaleSamples > 1
  BY ConfigAssumption DEF QuietTick, QuietSetting
<1>3. /\ updated["safety"] \in BOOLEAN /\ updated["encoder"] \in BOOLEAN
      /\ sequence \in SequenceRelation /\ sequence # "ADVANCED"
  BY DEF QuietTick, TopologyInv, NodeInv, AdapterInv, AdapterTypeOK, TypeOK, Telemetry, QuietUp,
         Fresh
<1>4. ~updated["safety"] => missed = 0 /\ MinBurst = 1 /\ in_flight["safety"] # NoMessage
  BY QuietNews DEF QuietTick, QuietUp, Fresh, Telemetry
<1>5. ~updated["encoder"] => stale_age = 0 /\ MinBurst = 1 /\ in_flight["encoder"] # NoMessage
  BY QuietNews DEF QuietTick, QuietUp, Fresh, Telemetry
<1>6. /\ updated["safety"] => NextMissed(v) = 0
      /\ ~updated["safety"] => NextMissed(v) = 1
  BY <1>1, <1>2, <1>4 DEF NextMissed, Bump
<1>7. EncoderUsable(v) /\ (SequenceAdvances(v) <=> updated["encoder"])
  BY <1>1, <1>3 DEF EncoderUsable, SequenceAdvances
<1>8. /\ NextSequence(v) = "SEEN"
      /\ updated["encoder"] => NextStaleAge(v) = 0
      /\ ~updated["encoder"] => NextStaleAge(v) \in {0, 1}
  BY <1>2, <1>3, <1>5, <1>7
  DEF NextSequence, NextStaleAge, AdvanceSeen, SequenceRelation, Bump
<1>9. /\ \/ NextMissed(v) = 0
         \/ NextMissed(v) = 1 /\ MinBurst = 1 /\ in_flight["safety"] # NoMessage
      /\ \/ NextStaleAge(v) = 0
         \/ NextStaleAge(v) = 1 /\ MinBurst = 1 /\ in_flight["encoder"] # NoMessage
  BY <1>3, <1>4, <1>5, <1>6, <1>8
<1> QED BY <1>2, <1>8, <1>9

LEMMA QuietDetects ==
  ASSUME QuietTick, NEW in, in = Taken, NEW v, v = Seen
  PROVE  Detected(in, v) = {}
<1>1. /\ InvalidFaults(in) = {} /\ v.supply_voltage_v = SimSupply
      /\ v.estop_active = FALSE /\ v.encoder_failed = FALSE /\ v.encoder_invalid = FALSE
  BY QuietSample DEF QuietTick, QuietUp, TopologyInv, NodeInv
<1>2. NextMissed(v) < WatchdogSamples /\ NextStaleAge(v) < EncoderStaleSamples
  BY QuietCounters
<1>3. /\ NextMissed(v) \in Nat /\ NextStaleAge(v) \in Nat
  BY QuietCounters
<1>4. ~Undervoltage(in, v)
  BY <1>1, SimulatorAssumption, ConfigAssumption DEF Undervoltage, QuietTick, QuietSetting
<1>5. ~WatchdogExpired(v) /\ ~(NextStaleAge(v) >= EncoderStaleSamples)
  BY <1>2, <1>3, ConfigAssumption DEF WatchdogExpired
<1> QED BY <1>1, <1>4, <1>5 DEF Detected

\* Where the relay's feedback disagrees, the relay was commanded only just now.
LEMMA QuietFeedback ==
  ASSUME QuietTick, Seen.relay_feedback_failed,
         state \in {"READY", "RUNNING"}
  PROVE  state = "RUNNING" /\ mismatch = 0 /\ MinBurst = 1
<1>1. safety.relay_feedback_enabled # Relay
  BY QuietSample DEF QuietTick, QuietUp, TopologyInv, NodeInv
<1>2. burst \in Nat /\ MinBurst \in Nat /\ MinBurst >= 1 /\ burst >= MinBurst
  BY TopologyAssumption DEF QuietTick, TopologyInv, SimTypes
<1>3. Mirrored
  BY DEF QuietTick, QuietUp
<1> QED BY <1>1, <1>2, <1>3 DEF Mirrored, Settled

\* The advance of a quiet sample.
LEMMA QuietAdvances ==
  ASSUME QuietTick
  PROVE  Sample(Seen) /\ Advance(Seen, {}) /\ Step(Taken)
<1>1. state # "FAULT_LATCHED"
  BY DEF QuietTick, TopologyInv, NodeInv, AdapterInv, IInv, LatchMatchesState
<1>2. Step(Taken)
  BY TickSteps, Zenon DEF QuietTick, Taken
<1>3. /\ Sample(Seen)
      /\ \/ LatchFault(Seen, {}) \/ HoldFault(Seen, {})
         \/ AcceptReset(Seen, {}) \/ Advance(Seen, {})
  BY <1>2, QuietDetects DEF Step, Seen
<1>4. Advance(Seen, {})
  BY <1>1, <1>3 DEF LatchFault, HoldFault, AcceptReset
<1> QED BY <1>2, <1>3, <1>4

LEMMA QuietRuns ==
  ASSUME QuietTick, NEW v, v = Seen, Run(v),
         state \in {"READY", "RUNNING"}
  PROVE  /\ latched' = {} /\ state' = "RUNNING" /\ record'.relay_enable_command = TRUE
         /\ mismatch' = 0 \/ (mismatch' = 1 /\ MinBurst = 1 /\ state = "RUNNING")
<1>1. v.relay_feedback_failed => state = "RUNNING" /\ mismatch = 0 /\ MinBurst = 1
  BY QuietFeedback
<1>2. RelayMismatchSamples \in Nat /\ (MinBurst = 1 => RelayMismatchSamples > 1)
  BY ConfigAssumption DEF QuietTick, QuietSetting
<1>3. CASE DriveMotor(v)
  BY <1>3 DEF DriveMotor, Record, QuietTick
<1>4. CASE InhibitMotor(v)
  BY <1>1, <1>4 DEF InhibitMotor, Record, QuietTick
<1>5. ~LatchRelayFailure(v)
  BY <1>1, <1>2 DEF LatchRelayFailure
<1> QED BY <1>3, <1>4, <1>5 DEF Run

\* What a quiet sample comes to: nothing is latched, a relay that is raised was
\* so before or is raised in RUNNING, and READY finds it where it was.
LEMMA QuietOutcome ==
  ASSUME QuietTick
  PROVE  /\ latched' = {}
         /\ state' = "RUNNING" => record'.relay_enable_command = TRUE
         /\ state' = "READY" => Relay = FALSE /\ record'.relay_enable_command = FALSE
         /\ \/ mismatch' = 0
            \/ /\ mismatch' = 1 /\ MinBurst = 1
               /\ Relay = TRUE /\ record'.relay_enable_command = TRUE
<1> DEFINE v == Seen
<1>1. Sample(v) /\ Advance(v, {}) /\ Step(Taken)
  BY QuietAdvances
<1>2. AdapterInv /\ AdapterInv' /\ latched = {} /\ Mirrored
  BY TickKeepsInvariant DEF QuietTick, TopologyInv, NodeInv, QuietUp
<1> HIDE DEF v
<1>3. Relay \in BOOLEAN /\ record'.relay_enable_command \in BOOLEAN
  BY <1>2 DEF AdapterInv, IInv, TypeOK, TelemetryRecord, Relay
<1>4. CASE Run(v) /\ state \in {"READY", "RUNNING"}
  <2>1. /\ latched' = {} /\ state' = "RUNNING" /\ record'.relay_enable_command = TRUE
        /\ mismatch' = 0 \/ (mismatch' = 1 /\ MinBurst = 1 /\ state = "RUNNING")
    BY <1>1, <1>4, QuietRuns DEF v
  <2>2. state = "RUNNING" => Relay = TRUE
    BY <1>2, <1>3 DEF Mirrored
  <2> QED BY <2>1, <2>2
<1>5. CASE KeepSafe(v, {}, {}) /\ UNCHANGED latched /\ state' # "RUNNING"
  <2>1. latched' = {} /\ mismatch' = 0
    BY <1>2, <1>5 DEF KeepSafe
  <2>2. state' = "READY" => Relay = FALSE /\ record'.relay_enable_command = FALSE
    <3> SUFFICES ASSUME state' = "READY"
                 PROVE  Relay = FALSE /\ record'.relay_enable_command = FALSE
      OBVIOUS
    <3>1. state # "RUNNING"
      BY <1>1, EntersReady
    <3>2. Relay = FALSE
      BY <1>2, <1>3, <3>1 DEF AdapterInv, IInv, DriveIsConfirmed, Relay
    <3>3. record'.relay_enable_command = FALSE
      BY <1>2, <1>3 DEF AdapterInv, IInv, DriveIsConfirmed
    <3> QED BY <3>2, <3>3
  <2> QED BY <1>5, <2>1, <2>2
<1>6. \/ Run(v) /\ state \in {"READY", "RUNNING"}
      \/ KeepSafe(v, {}, {}) /\ UNCHANGED latched /\ state' # "RUNNING"
  <2>1. CASE AdvanceStartup(v)
    BY <2>1 DEF AdvanceStartup
  <2>2. CASE AdvanceReady(v)
    BY <2>2 DEF AdvanceReady, EnterShutdown
  <2>3. CASE AdvanceRunning(v)
    BY <2>3 DEF AdvanceRunning, EnterShutdown
  <2>4. CASE AdvanceShutdown(v)
    BY <2>4 DEF AdvanceShutdown
  <2> QED BY <1>1, <2>1, <2>2, <2>3, <2>4 DEF Advance
<1> QED BY <1>4, <1>5, <1>6

-----------------------------------------------------------------------------
(* The steps of a quiet loop.                                              *)

\* Nothing was injected and nothing is in this step.
LeftAlone ==
  /\ QuietSetting /\ TopologyInv /\ QuietInv
  /\ disturbances = 0 /\ disturbances' = 0

\* Nor was this supervisor asked to reset.
StaysQuiet ==
  /\ QuietSetting /\ TopologyInv /\ QuietInv
  /\ disturbances = 0 /\ disturbances' = 0
  /\ ~reset_served

\* Only a new supervisor has no reset behind it any more.
LEMMA ResetsRemembered ==
  ASSUME reset_served, [TopologyNext]_topology_vars, ~SupervisorStart
  PROVE  reset_served'
<1>1. CASE SupervisorTick \/ SupervisorReset \/ SupervisorEnd
  BY <1>1 DEF SupervisorTick, SupervisorReset, SupervisorEnd
<1>2. CASE Delivery
  BY <1>2, DeliverySteps
<1>3. CASE DeliverActuator \/ SimTick \/ Inject \/ Clear \/ SimStart \/ SimEnd
  BY <1>3 DEF DeliverActuator, SimTick, Inject, Clear, SimStart, SimEnd
<1>4. CASE UNCHANGED topology_vars
  BY <1>4 DEF topology_vars
<1> QED BY <1>1, <1>2, <1>3, <1>4 DEF TopologyNext

\* The simulator of a loop that is left alone stays, and free of faults.
LEMMA AloneStays ==
  ASSUME LeftAlone, [TopologyNext]_topology_vars PROVE sim_up' /\ DOMAIN active_faults' = {}
<1>1. sim_up /\ DOMAIN active_faults = {}
  BY DEF LeftAlone, QuietInv
<1>2. CASE SupervisorSide
  BY <1>1, <1>2, SupervisorSteps DEF LeftAlone, TopologyInv
<1>3. CASE Delivery
  BY <1>1, <1>3, DeliverySteps
<1>4. CASE DeliverActuator
  BY <1>1, <1>4 DEF DeliverActuator, OnActuator
<1>5. CASE SimTick
  BY <1>1, <1>5 DEF SimTick, SimulatorTick, Remaining
<1>6. CASE Inject \/ SimEnd
  BY <1>6 DEF Inject, SimEnd, LeftAlone
<1>7. CASE Clear \/ SimStart
  BY <1>1, <1>7 DEF Clear, SimStart, SimulatorStart
<1>8. CASE UNCHANGED topology_vars
  BY <1>1, <1>8 DEF topology_vars
<1> QED
  BY <1>2, <1>3, <1>4, <1>5, <1>6, <1>7, <1>8 DEF TopologyNext, SupervisorSide

\* A process that is not up owes nothing but an empty latch.
LEMMA QuietOff ==
  ASSUME StaysQuiet, UNCHANGED <<sim_up, active_faults>>, latched' = {}, process' # "up"
  PROVE  QuietInv'
  BY DEF StaysQuiet, QuietInv

\* A command that was published just now, before any tick of the simulator.
LEMMA MirroredAnew ==
  ASSUME actuator'.relay_enable = Relay', actuator_due', burst' = 0,
         state' = "RUNNING" => Relay', state' = "READY" => Settled',
         mismatch' = 0 \/ (mismatch' = 1 /\ MinBurst = 1 /\ Settled')
  PROVE  Mirrored'
<1>1. ~(burst' >= 1) /\ ~(burst' >= 2)
  OBVIOUS
<1> QED BY <1>1, Zenon DEF Mirrored

\* A new supervisor.
LEMMA QuietStart == ASSUME LeftAlone, SupervisorStart PROVE QuietInv'
<1>1. /\ sim_up' = TRUE /\ DOMAIN active_faults' = {} /\ actuator_due' = TRUE
  BY SupervisorSteps DEF LeftAlone, QuietInv, SupervisorStart, SupervisorSide, TopologyInv, SimTypes
<1>2. /\ number' = NoNumbers /\ in_flight' = NothingInFlight /\ burst' = 0
      /\ actuator' = SafeActuator /\ ReconstructAdapter
  BY DEF SupervisorStart, Start
<1>3. QuietLinks'
  BY <1>2 DEF QuietLinks, NoNumbers, NothingInFlight
<1>4. QuietFrames'
  BY <1>2 DEF ReconstructAdapter, QuietFrames, NothingInFlight, Publishers
<1>5. latched' = {} /\ Fresh'
  BY <1>2 DEF ReconstructAdapter, Reconstruct, Fresh, InitialTelemetryReceived
<1>6. Mirrored'
  <2>1. Relay' = FALSE /\ state' = "SAFE_STARTUP" /\ mismatch' = 0
    BY <1>2 DEF ReconstructAdapter, Reconstruct, QuietRecord, Relay
  <2>2. actuator'.relay_enable = Relay'
    BY <1>2, <2>1 DEF SafeActuator
  <2> QED BY <1>1, <1>2, <2>1, <2>2, MirroredAnew
<1> QED BY <1>1, <1>3, <1>4, <1>5, <1>6 DEF QuietInv, QuietUp

\* The end of a process, by the test exit or otherwise.
LEMMA QuietEnd ==
  ASSUME StaysQuiet, SupervisorSide, ~Alive' PROVE QuietInv'
<1>1. UNCHANGED <<sim_up, active_faults>>
  BY SupervisorSteps DEF StaysQuiet, TopologyInv
<1>2. ReconstructAdapter \/ latched' = {}
  BY DEF SupervisorSide, SupervisorStart, Start, SupervisorTick, OnTick, FinishExit,
         AwaitTelemetry, OrdinaryTick, ExitTick, SupervisorReset, OnReset, SupervisorEnd,
         OnSignal, Crash, Alive
<1>3. latched' = {} /\ process' # "up"
  BY <1>2 DEF ReconstructAdapter, Reconstruct, Alive
<1> QED BY <1>1, <1>3, QuietOff

\* A supervisor that still waits for its telemetry owners.
LEMMA QuietAwaits ==
  ASSUME StaysQuiet, SupervisorTick, AwaitTelemetry PROVE QuietInv'
<1>1. /\ UNCHANGED <<bench_vars, adapter_vars, process>> /\ process = "up"
      /\ ~InitialTelemetryReceived /\ actuator' = SafeActuator
  BY DEF AwaitTelemetry
<1>2. Alive'
  BY <1>1 DEF Alive
<1>3. /\ UNCHANGED <<sim_up, number, active_faults, consumer, in_flight>> /\ burst' = 0
      /\ actuator_due' = sim_up
  BY <1>2 DEF SupervisorTick, sim_vars
<1>4. QuietUp /\ sim_up = TRUE /\ DOMAIN active_faults = {} /\ latched = {}
  BY <1>1 DEF StaysQuiet, QuietInv, TopologyInv, SimTypes
<1>5. state = "SAFE_STARTUP" /\ missed = 0 /\ stale_age = 0
  BY <1>1, <1>4 DEF QuietUp, Fresh
<1>6. Relay = FALSE /\ mismatch = 0
  <2>1. IInv
    BY DEF StaysQuiet, TopologyInv, NodeInv, AdapterInv
  <2>2. mismatch \in Nat
    BY <2>1, ConfigAssumption DEF IInv, TypeOK
  <2> QED
    BY <1>5, <2>1, <2>2
    DEF IInv, DriveIsConfirmed, DeadlinesHold, TypeOK, TelemetryRecord, Relay
<1>7. QuietLinks' /\ QuietFrames'
  BY <1>1, <1>3, <1>4 DEF QuietUp, QuietLinks, QuietFrames, adapter_vars
<1>8. Fresh'
  BY <1>1, <1>3, <1>4, <1>5
  DEF QuietUp, Fresh, InitialTelemetryReceived, bench_vars, adapter_vars
<1>9. Mirrored'
  <2>1. state' = "SAFE_STARTUP" /\ Relay' = FALSE /\ mismatch' = 0
    BY <1>1, <1>5, <1>6 DEF bench_vars, Relay
  <2>2. actuator'.relay_enable = Relay'
    BY <1>1, <2>1 DEF SafeActuator
  <2> QED BY <1>3, <1>4, <2>1, <2>2, MirroredAnew
<1> QED BY <1>1, <1>3, <1>4, <1>7, <1>8, <1>9 DEF QuietInv, QuietUp, bench_vars

\* The sample of the timer.
LEMMA QuietSamples ==
  ASSUME StaysQuiet, SupervisorTick, OrdinaryTick \/ ExitTick PROVE QuietInv'
<1>1. /\ process = "up" /\ InitialTelemetryReceived /\ Tick(FALSE) /\ Alive'
  BY DEF OrdinaryTick, ExitTick, Alive
<1>2. /\ UNCHANGED <<sim_up, number, active_faults, consumer, in_flight>> /\ burst' = 0
      /\ actuator_due' = sim_up
  BY <1>1 DEF SupervisorTick, sim_vars
<1>3. QuietUp /\ sim_up = TRUE /\ DOMAIN active_faults = {} /\ latched = {}
  BY <1>1 DEF StaysQuiet, QuietInv, TopologyInv, SimTypes
<1>4. QuietTick
  BY <1>1, <1>3 DEF QuietTick, StaysQuiet, SupervisorTick
<1>5. latched' = {}
  BY <1>4, QuietOutcome
<1>6. CASE process' # "up"
  BY <1>2, <1>5, <1>6, QuietOff
<1>7. CASE process' = "up"
  <2>1. actuator' = ActuatorMapping(record')
    BY <1>7 DEF OrdinaryTick, ExitTick
  <2>2. UNCHANGED <<command, encoder, safety>> /\ protocol_invalid' = [c \in Channels |-> FALSE]
    BY <1>1 DEF Tick, frame_vars
  <2>3. QuietLinks' /\ QuietFrames'
    BY <1>2, <1>3, <2>2 DEF QuietUp, QuietLinks, QuietFrames
  <2>4. Fresh'
    <3>1. Sample(Seen)
      BY <1>4, QuietAdvances
    <3>2. /\ sequence' = NextSequence(Seen) /\ missed' = NextMissed(Seen)
          /\ stale_age' = NextStaleAge(Seen)
      BY <3>1 DEF Sample
    <3>3. /\ sequence' = "SEEN"
          /\ missed' = 0 \/ (missed' = 1 /\ MinBurst = 1 /\ in_flight["safety"] # NoMessage)
          /\ stale_age' = 0 \/ (stale_age' = 1 /\ MinBurst = 1 /\ in_flight["encoder"] # NoMessage)
      BY <1>4, <3>2, QuietCounters
    <3>4. InitialTelemetryReceived'
      BY <1>1, <2>2 DEF InitialTelemetryReceived
    <3> QED BY <1>2, <3>3, <3>4 DEF Fresh, CatchingUp
  <2>5. Mirrored'
    <3>1. /\ state' = "RUNNING" => Relay' = TRUE
          /\ state' = "READY" => Relay = FALSE /\ Relay' = FALSE
          /\ \/ mismatch' = 0
             \/ mismatch' = 1 /\ MinBurst = 1 /\ Relay = TRUE /\ Relay' = TRUE
      BY <1>4, QuietOutcome DEF Relay
    <3>2. Heard = Relay
      <4>1. burst >= 1
        BY <1>4, TopologyAssumption DEF QuietTick, TopologyInv, SimTypes
      <4> QED BY <1>3, <4>1 DEF QuietUp, Mirrored
    <3>3. Heard' = Heard
      BY <1>2, <2>2 DEF Heard
    <3>4. actuator'.relay_enable = Relay'
      BY <2>1 DEF ActuatorMapping, Relay
    <3>5. Relay' = Relay => Settled'
      BY <1>2, <3>2, <3>3 DEF Settled
    <3> QED BY <1>2, <1>3, <3>1, <3>4, <3>5, MirroredAnew
  <2> QED BY <1>2, <1>3, <1>5, <2>3, <2>4, <2>5 DEF QuietInv, QuietUp
<1> QED BY <1>6, <1>7

LEMMA QuietSupervisor == ASSUME StaysQuiet, SupervisorSide PROVE QuietInv'
<1>1. CASE SupervisorStart
  BY <1>1, QuietStart DEF StaysQuiet, LeftAlone
<1>2. CASE SupervisorTick
  <2>1. ~Alive' \/ AwaitTelemetry \/ OrdinaryTick \/ ExitTick
    BY <1>2 DEF SupervisorTick, OnTick, FinishExit, Alive
  <2> QED BY <1>2, <2>1, QuietEnd, QuietAwaits, QuietSamples
<1>3. CASE SupervisorReset
  <2>1. UNCHANGED <<sim_up, active_faults>> /\ reset_served' = TRUE
    BY <1>3 DEF SupervisorReset, sim_vars
  <2> QED BY <2>1 DEF StaysQuiet, QuietInv
<1>4. CASE SupervisorEnd
  <2>1. ~Alive'
    BY <1>4 DEF SupervisorEnd, OnSignal, Crash, Alive
  <2> QED BY <2>1, QuietEnd
<1> QED BY <1>1, <1>2, <1>3, <1>4 DEF SupervisorSide

\* In a quiet loop every message is accepted.
LEMMA QuietTake ==
  ASSUME StaysQuiet, process = "up", NEW p \in Publishers, NEW retained,
         Take(p), MoveOrigin(p, Accepted(p, retained))
  PROVE  /\ Classify(retained, in_flight[p].sequence) = "ACCEPTED"
         /\ in_flight[p] # NoMessage /\ in_flight'[p] = NoMessage
         /\ \A q \in Publishers \ {p} : in_flight'[q] = in_flight[q]
         /\ QuietLinks'
<1>1. QuietLinks /\ DOMAIN in_flight = Publishers /\ number \in [Publishers -> Int]
  BY DEF StaysQuiet, QuietInv, QuietUp, TopologyInv, LinksInv
<1>2. in_flight[p] # NoMessage /\ in_flight[p].sequence = 1 /\ number[p] = 1
  BY <1>1 DEF Take, QuietLinks
<1>3. Classify(retained, in_flight[p].sequence) = "ACCEPTED"
  BY <1>2, InputAssumption DEF Classify
<1>4. /\ in_flight'[p] = NoMessage /\ number'[p] = 0
      /\ \A q \in Publishers \ {p} : in_flight'[q] = in_flight[q] /\ number'[q] = number[q]
  BY <1>1, <1>2, <1>3 DEF Take, MoveOrigin, Accepted
<1> QED BY <1>1, <1>2, <1>3, <1>4 DEF QuietLinks

\* Accepted frames leave their channel's mark as it was.
LEMMA NoNewMarks ==
  ASSUME QuietFrames, NEW c \in Channels, MarkInvalid(c, "ACCEPTED"),
         protocol_invalid \in [Channels -> BOOLEAN]
  PROVE  \A d \in Channels : protocol_invalid'[d] = FALSE
  BY DEF QuietFrames, MarkInvalid, Violation

LEMMA QuietCommand == ASSUME StaysQuiet, DeliverCommand, process = "up" PROVE QuietUp'
<1> DEFINE m == in_flight["command"]
<1>1. /\ Classify(command, m.sequence) = "ACCEPTED" /\ m # NoMessage
      /\ in_flight'["command"] = NoMessage
      /\ UNCHANGED <<in_flight["encoder"], in_flight["safety"]>>
      /\ QuietLinks'
  BY QuietTake DEF DeliverCommand, Publishers
<1>2. QuietFrames /\ Fresh /\ Mirrored /\ protocol_invalid \in [Channels -> BOOLEAN]
  BY DEF StaysQuiet, QuietInv, QuietUp, TopologyInv, NodeInv, AdapterInv, AdapterTypeOK
<1>3. /\ command' = m.frame /\ MarkInvalid("command", "ACCEPTED")
      /\ UNCHANGED <<bench_vars, encoder, safety, updated, actuator, actuator_due, consumer, burst>>
  BY <1>1 DEF DeliverCommand, IngestCommand, Take, MoveOrigin, node_vars
<1>4. QuietFrames'
  <2>1. \A d \in Channels : protocol_invalid'[d] = FALSE
    BY <1>2, <1>3, NoNewMarks DEF Channels
  <2> QED BY <1>1, <1>2, <1>3, <2>1 DEF QuietFrames
<1>5. Fresh'
  BY <1>1, <1>2, <1>3
  DEF Fresh, CatchingUp, Telemetry, InitialTelemetryReceived, bench_vars
<1>6. Mirrored'
  <2>1. Heard' = Heard /\ Relay' = Relay
    BY <1>1, <1>3 DEF Heard, Relay, bench_vars
  <2> QED BY <1>2, <1>3, <2>1 DEF Mirrored, Settled, bench_vars
<1> QED BY <1>1, <1>4, <1>5, <1>6 DEF QuietUp

LEMMA QuietEncoder == ASSUME StaysQuiet, DeliverEncoder, process = "up" PROVE QuietUp'
<1> DEFINE m == in_flight["encoder"]
<1>1. /\ Classify(encoder, m.sequence) = "ACCEPTED" /\ m # NoMessage
      /\ in_flight'["encoder"] = NoMessage
      /\ UNCHANGED <<in_flight["command"], in_flight["safety"]>>
      /\ QuietLinks'
  BY QuietTake DEF DeliverEncoder, Publishers
<1>2. /\ QuietFrames /\ Fresh /\ Mirrored /\ protocol_invalid \in [Channels -> BOOLEAN]
      /\ updated \in [Telemetry -> BOOLEAN]
  BY DEF StaysQuiet, QuietInv, QuietUp, TopologyInv, NodeInv, AdapterInv, AdapterTypeOK
<1>3. /\ encoder' = m.frame /\ MarkInvalid("encoder", "ACCEPTED")
      /\ updated' = [updated EXCEPT !["encoder"] = @ \/ "ACCEPTED" = "ACCEPTED"]
      /\ UNCHANGED <<bench_vars, command, safety, actuator, actuator_due, consumer, burst>>
  BY <1>1 DEF DeliverEncoder, IngestEncoder, MarkUpdated, Take, MoveOrigin, node_vars
<1>4. QuietFrames'
  <2>1. \A d \in Channels : protocol_invalid'[d] = FALSE
    BY <1>2, <1>3, NoNewMarks DEF Channels
  <2> QED BY <1>1, <1>2, <1>3, <2>1 DEF QuietFrames
<1>5. Fresh'
  <2>1. updated'["encoder"] /\ updated'["safety"] = updated["safety"]
    BY <1>2, <1>3 DEF Telemetry
  <2>2. ~InitialTelemetryReceived' => ~InitialTelemetryReceived
    <3>1. m.frame \in FramesOf("encoder")
      BY <1>1 DEF StaysQuiet, TopologyInv, LinksInv, LinkOK, Publishers
    <3>2. m.frame # NoFrame
      BY <3>1, FramesArrive, AdapterAssumption
    <3> QED BY <1>3, <3>2 DEF InitialTelemetryReceived
  <2> QED BY <1>1, <1>2, <1>3, <2>1, <2>2 DEF Fresh, CatchingUp, Telemetry, bench_vars
<1>6. Mirrored'
  <2>1. Heard' = Heard /\ Relay' = Relay
    BY <1>1, <1>3 DEF Heard, Relay, bench_vars
  <2> QED BY <1>2, <1>3, <2>1 DEF Mirrored, Settled, bench_vars
<1> QED BY <1>1, <1>4, <1>5, <1>6 DEF QuietUp

\* The word on the relay becomes the retained one.
LEMMA QuietSafety == ASSUME StaysQuiet, DeliverSafety, process = "up" PROVE QuietUp'
<1> DEFINE m == in_flight["safety"]
<1>1. /\ Classify(safety, m.sequence) = "ACCEPTED" /\ m # NoMessage
      /\ in_flight'["safety"] = NoMessage
      /\ UNCHANGED <<in_flight["command"], in_flight["encoder"]>>
      /\ QuietLinks'
  BY QuietTake DEF DeliverSafety, Publishers
<1>2. /\ QuietFrames /\ Fresh /\ Mirrored /\ protocol_invalid \in [Channels -> BOOLEAN]
      /\ updated \in [Telemetry -> BOOLEAN]
  BY DEF StaysQuiet, QuietInv, QuietUp, TopologyInv, NodeInv, AdapterInv, AdapterTypeOK
<1>3. /\ safety' = m.frame /\ MarkInvalid("safety", "ACCEPTED")
      /\ updated' = [updated EXCEPT !["safety"] = @ \/ "ACCEPTED" = "ACCEPTED"]
      /\ UNCHANGED <<bench_vars, command, encoder, actuator, actuator_due, consumer, burst>>
  BY <1>1 DEF DeliverSafety, IngestSafety, MarkUpdated, Take, MoveOrigin, node_vars
<1>4. QuietFrames'
  <2>1. \A d \in Channels : protocol_invalid'[d] = FALSE
    BY <1>2, <1>3, NoNewMarks DEF Channels
  <2> QED BY <1>1, <1>2, <1>3, <2>1 DEF QuietFrames
<1>5. Fresh'
  <2>1. updated'["safety"] /\ updated'["encoder"] = updated["encoder"]
    BY <1>2, <1>3 DEF Telemetry
  <2>2. ~InitialTelemetryReceived' => ~InitialTelemetryReceived
    <3>1. m.frame \in FramesOf("safety")
      BY <1>1 DEF StaysQuiet, TopologyInv, LinksInv, LinkOK, Publishers
    <3>2. m.frame # NoFrame
      BY <3>1, FramesArrive, AdapterAssumption
    <3> QED BY <1>3, <3>2 DEF InitialTelemetryReceived
  <2> QED BY <1>1, <1>2, <1>3, <2>1, <2>2 DEF Fresh, CatchingUp, Telemetry, bench_vars
<1>6. Mirrored'
  <2>1. Heard = m.frame.relay_feedback_enabled /\ Heard' = safety'.relay_feedback_enabled
    BY <1>1 DEF Heard
  <2>2. Heard' = Heard /\ safety'.relay_feedback_enabled = Heard /\ Relay' = Relay
    BY <1>3, <2>1 DEF Relay, bench_vars
  <2>3. Settled => Settled'
    BY <2>2 DEF Settled
  <2>4. burst' = burst /\ burst \in Nat
    BY <1>3 DEF StaysQuiet, TopologyInv, SimTypes
  <2> QED BY <1>2, <1>3, <2>2, <2>3, <2>4 DEF Mirrored, bench_vars
<1> QED BY <1>1, <1>4, <1>5, <1>6 DEF QuietUp

LEMMA QuietDelivery == ASSUME StaysQuiet, Delivery PROVE QuietInv'
<1>1. /\ UNCHANGED <<sim_up, active_faults, latched, process>>
  BY DeliverySteps DEF bench_vars, node_vars
<1>2. process = "up" => QuietUp'
  BY QuietCommand, QuietEncoder, QuietSafety DEF Delivery
<1> QED BY <1>1, <1>2 DEF QuietInv, StaysQuiet

LEMMA QuietActuator == ASSUME StaysQuiet, DeliverActuator PROVE QuietInv'
<1>1. /\ UNCHANGED <<sim_up, active_faults, process, number, in_flight, burst>>
      /\ UNCHANGED <<bench_vars, adapter_vars, actuator>>
      /\ consumer'.relay_enable = actuator.relay_enable
  BY DEF DeliverActuator, OnActuator, node_vars
<1>2. ASSUME process = "up" PROVE QuietUp'
  <2>1. QuietUp
    BY <1>2 DEF StaysQuiet, QuietInv
  <2>2. QuietLinks' /\ QuietFrames'
    BY <1>1, <2>1 DEF QuietUp, QuietLinks, QuietFrames, adapter_vars
  <2>3. Fresh'
    BY <1>1, <2>1
    DEF QuietUp, Fresh, CatchingUp, InitialTelemetryReceived, adapter_vars, bench_vars
  <2>4. Mirrored'
    <3>1. Heard' = Heard /\ Relay' = Relay
      BY <1>1 DEF Heard, Relay, adapter_vars, bench_vars
    <3> QED BY <1>1, <2>1, <3>1 DEF QuietUp, Mirrored, Settled, adapter_vars, bench_vars
  <2> QED BY <2>2, <2>3, <2>4 DEF QuietUp
<1> QED BY <1>1, <1>2 DEF StaysQuiet, QuietInv, bench_vars

\* What a simulator without faults publishes: the next number on each channel
\* that has something to say, good telemetry, and its relay as it is.
LEMMA QuietPublishes ==
  ASSUME StaysQuiet, process = "up", NEW auto \in AutoCommands, in_flight = NothingInFlight,
         in_flight' = Published(auto),
         number' = [p \in Publishers |-> number[p] + Increment(auto)[p]]
  PROVE  /\ QuietLinks'
         /\ in_flight'["command"] # NoMessage => in_flight'["command"].frame \in NumericCommand
         /\ in_flight'["encoder"] # NoMessage /\ GoodEncoder(in_flight'["encoder"].frame)
         /\ in_flight'["safety"] # NoMessage /\ GoodSafety(in_flight'["safety"].frame)
         /\ in_flight'["safety"].frame.relay_feedback_enabled = consumer.relay_enable
<1>1. /\ DOMAIN active_faults = {} /\ QuietLinks /\ number \in [Publishers -> Int]
      /\ consumer.relay_enable \in BOOLEAN
  BY DEF StaysQuiet, QuietInv, QuietUp, TopologyInv, LinksInv, SimTypes, ActuatorCommand
<1>2. /\ Increment(auto)["encoder"] = 1 /\ Increment(auto)["safety"] = 1
      /\ Increment(auto)["command"] = IF auto = NoMessage THEN 0 ELSE 1
  BY <1>1 DEF Increment, Counts, Active, Publishers
<1>3. \A p \in Publishers : number[p] = 0
  BY <1>1 DEF QuietLinks, NothingInFlight
<1>4. \A p \in Publishers : PublishedOK(auto, p) /\ Increment(auto)[p] \in {0, 1}
  BY <1>1, PublishesTyped
<1>5. \A p \in Publishers : number'[p] = Increment(auto)[p]
  BY <1>3, <1>4
<1>6. in_flight'["command"] = CommandMessage(auto)
  BY DEF Published
<1>7. /\ in_flight'["encoder"] = EncoderMessage /\ EncoderMessage # NoMessage
      /\ in_flight'["safety"] = SafetyMessage /\ SafetyMessage # NoMessage
  BY <1>2, <1>4 DEF Published, PublishedOK, Publishers
<1>8. QuietLinks'
  <2> SUFFICES ASSUME NEW p \in Publishers
               PROVE  /\ in_flight'[p] = NoMessage => number'[p] = 0
                      /\ in_flight'[p] # NoMessage => number'[p] = 1 /\ in_flight'[p].sequence = 1
    BY DEF QuietLinks
  <2>1. CASE Increment(auto)[p] = 1
    <3>1. Published(auto)[p] # NoMessage /\ Published(auto)[p].sequence = number[p] + 1
      BY <1>4, <2>1 DEF PublishedOK
    <3> QED BY <1>3, <1>5, <2>1, <3>1
  <2>2. CASE Increment(auto)[p] = 0
    <3>1. p = "command" /\ auto = NoMessage
      BY <1>2, <2>2 DEF Publishers
    <3>2. in_flight'[p] = NoMessage
      BY <1>6, <3>1 DEF CommandMessage
    <3> QED BY <1>5, <2>2, <3>2
  <2> QED BY <1>4, <2>1, <2>2
<1>9. in_flight'["command"] # NoMessage => in_flight'["command"].frame \in NumericCommand
  BY <1>6 DEF CommandMessage, StaysQuiet, QuietSetting
<1>10. GoodEncoder(EncoderMessage.frame)
  BY <1>1, <1>7 DEF EncoderMessage, Active, GoodEncoder
<1>11. /\ GoodSafety(SafetyMessage.frame)
       /\ SafetyMessage.frame.relay_feedback_enabled = consumer.relay_enable
  <2> DEFINE F == SafetyMessage.frame
  <2>1. \A f \in {"safety_suppressed", "undervoltage", "software_estop", "heartbeat_loss",
                 "relay_feedback_failed"} : Active(f) = FALSE
    BY <1>1 DEF Active
  <2>2. SafetyMessage.frame =
          [supply_voltage_v |-> IF Active("undervoltage") THEN SimUndervoltage ELSE SimSupply,
           software_estop_active |-> Active("software_estop"),
           watchdog_heartbeat |-> ~Active("heartbeat_loss"),
           relay_feedback_enabled |->
             consumer.relay_enable /\ ~Active("relay_feedback_failed"),
           relay_feedback_healthy |-> ~Active("relay_feedback_failed")]
    BY <2>1 DEF SafetyMessage
  <2> HIDE DEF F
  <2>3. F.supply_voltage_v = SimSupply
    BY <2>1, <2>2 DEF F
  <2>4. F.software_estop_active = Active("software_estop")
    BY <2>2 DEF F
  <2>5. F.watchdog_heartbeat = ~Active("heartbeat_loss")
    BY <2>2 DEF F
  <2>6. F.relay_feedback_healthy = ~Active("relay_feedback_failed")
    BY <2>2 DEF F
  <2>7. F.relay_feedback_enabled = (consumer.relay_enable /\ ~Active("relay_feedback_failed"))
    BY <2>2 DEF F
  <2>8. (consumer.relay_enable /\ ~Active("relay_feedback_failed")) = consumer.relay_enable
    BY <1>1, <2>1
  <2>9. F.relay_feedback_enabled = consumer.relay_enable
    BY <2>7, <2>8
  <2>10. GoodSafety(F)
    BY <1>1, <2>1, <2>3, <2>4, <2>5, <2>6, <2>9 DEF GoodSafety
  <2> QED BY <2>9, <2>10 DEF F
<1> QED BY <1>7, <1>8, <1>9, <1>10, <1>11

LEMMA QuietSimTick == ASSUME StaysQuiet, SimTick PROVE QuietInv'
<1>1. PICK auto \in AutoCommands :
        /\ ~actuator_due
        /\ in_flight = NothingInFlight
        /\ SimulatorTick(auto, Alive)
        /\ in_flight' = IF Alive THEN Published(auto) ELSE NothingInFlight
        /\ burst' = IF Alive THEN burst + 1 ELSE 0
        /\ UNCHANGED <<bench_vars, adapter_vars, node_vars, actuator_due>>
  BY DEF SimTick
<1>2. UNCHANGED <<sim_up, process, latched, consumer, actuator>> /\ DOMAIN active_faults' = {}
  BY <1>1 DEF SimulatorTick, Remaining, node_vars, bench_vars, StaysQuiet, QuietInv
<1>3. ASSUME process = "up" PROVE QuietUp'
  <2>1. Alive
    BY <1>3 DEF Alive
  <2>2. /\ in_flight' = Published(auto) /\ burst' = burst + 1
        /\ number' = [p \in Publishers |-> number[p] + Increment(auto)[p]]
    BY <1>1, <2>1 DEF SimulatorTick
  <2>3. /\ QuietLinks'
        /\ in_flight'["command"] # NoMessage => in_flight'["command"].frame \in NumericCommand
        /\ in_flight'["encoder"] # NoMessage /\ GoodEncoder(in_flight'["encoder"].frame)
        /\ in_flight'["safety"] # NoMessage /\ GoodSafety(in_flight'["safety"].frame)
        /\ in_flight'["safety"].frame.relay_feedback_enabled = consumer.relay_enable
    BY <1>1, <1>3, <2>2, QuietPublishes
  <2>4. QuietUp /\ burst \in Nat
    BY <1>3 DEF StaysQuiet, QuietInv, TopologyInv, SimTypes
  <2>5. \A p \in Publishers : in_flight[p] = NoMessage
    BY <1>1 DEF NothingInFlight
  <2>6. QuietFrames'
    BY <1>1, <2>3, <2>4 DEF QuietUp, QuietFrames, adapter_vars
  <2>7. Fresh'
    <3>1. \A p \in Telemetry : burst >= 1 => updated[p]
      BY <2>4, <2>5 DEF QuietUp, Fresh, Telemetry, Publishers
    <3>2. \A p \in Telemetry : CatchingUp(p) => updated[p]
      BY <2>5 DEF CatchingUp, Telemetry, Publishers
    <3>3. /\ \A p \in Telemetry : in_flight'[p] # NoMessage
          /\ burst' >= 2 => burst >= 1
          /\ UNCHANGED <<bench_vars, adapter_vars>>
      BY <1>1, <2>2, <2>3, <2>4 DEF Telemetry
    <3>4. \A p \in Telemetry : /\ burst' >= 1 /\ in_flight'[p] = NoMessage => updated'[p]
                               /\ burst' >= 2 => updated'[p]
      BY <3>1, <3>3 DEF adapter_vars
    <3>5. /\ CatchingUp("safety") => CatchingUp("safety")'
          /\ CatchingUp("encoder") => CatchingUp("encoder")'
      BY <3>2, <3>3 DEF CatchingUp, adapter_vars, Telemetry
    <3> QED
      BY <2>4, <3>3, <3>4, <3>5
      DEF QuietUp, Fresh, InitialTelemetryReceived, adapter_vars, bench_vars
  <2>8. Mirrored'
    <3>1. Mirrored /\ Heard = safety.relay_feedback_enabled
      BY <2>4, <2>5 DEF QuietUp, Heard, Publishers
    <3>2. /\ Relay' = Relay /\ safety' = safety /\ consumer' = consumer
          /\ UNCHANGED <<state, mismatch>>
      BY <1>1, <1>2 DEF Relay, adapter_vars, bench_vars
    <3>3. consumer.relay_enable = Relay
      BY <1>1, <3>1 DEF Mirrored
    <3>4. Heard' = Relay'
      BY <2>3, <3>2, <3>3 DEF Heard
    <3>5. Settled => Settled'
      BY <3>1, <3>2, <3>4 DEF Settled
    <3>6. burst' >= 2 => safety'.relay_feedback_enabled = Relay'
      BY <2>2, <2>4, <3>1, <3>2 DEF Mirrored
    <3> QED BY <1>2, <3>1, <3>2, <3>3, <3>4, <3>5, <3>6 DEF Mirrored
  <2> QED BY <2>3, <2>6, <2>7, <2>8 DEF QuietUp
<1> QED BY <1>2, <1>3 DEF StaysQuiet, QuietInv

LEMMA QuietStep ==
  ASSUME QuietSetting, TopologyInv, QuietInv, [TopologyNext]_topology_vars PROVE QuietInv'
<1> SUFFICES ASSUME disturbances' = 0 PROVE QuietInv'
  BY DEF QuietInv
<1>1. disturbances = 0
  <2>1. disturbances \in Nat /\ (UNCHANGED disturbances \/ disturbances' = disturbances + 1)
    <3>1. CASE SupervisorSide
      BY <3>1, SupervisorSteps DEF TopologyInv, SimTypes
    <3>2. CASE Delivery
      BY <3>2, DeliverySteps DEF TopologyInv, SimTypes
    <3>3. CASE DeliverActuator \/ SimTick \/ Inject \/ Clear \/ SimStart \/ SimEnd
      BY <3>3
      DEF DeliverActuator, SimTick, Inject, Clear, SimStart, SimEnd, TopologyInv, SimTypes
    <3>4. CASE UNCHANGED topology_vars
      BY <3>4 DEF topology_vars, TopologyInv, SimTypes
    <3> QED BY <3>1, <3>2, <3>3, <3>4 DEF TopologyNext, SupervisorSide
  <2> QED BY <2>1
<1>2. LeftAlone
  BY <1>1 DEF LeftAlone
<1>3. sim_up /\ DOMAIN active_faults = {}
  BY <1>1 DEF QuietInv
<1>4. CASE SupervisorStart
  BY <1>2, <1>4, QuietStart
<1>5. CASE reset_served /\ ~SupervisorStart
  BY <1>2, <1>5, ResetsRemembered, AloneStays DEF QuietInv
<1>6. ASSUME ~reset_served PROVE QuietInv'
  <2>1. StaysQuiet
    BY <1>1, <1>6 DEF StaysQuiet
  <2>2. CASE SupervisorSide \/ Delivery \/ DeliverActuator \/ SimTick
    BY <2>1, <2>2, QuietSupervisor, QuietDelivery, QuietActuator, QuietSimTick
  <2>3. CASE Inject \/ SimEnd
    BY <1>1, <2>3 DEF Inject, SimEnd
  <2>4. CASE Clear \/ SimStart
    BY <1>3, <2>4 DEF Clear, SimStart, SimulatorStart
  <2>5. CASE UNCHANGED topology_vars
    BY <2>5
    DEF topology_vars, QuietInv, QuietUp, QuietLinks, QuietFrames, Fresh, CatchingUp, Mirrored,
        Settled, Heard, Relay, InitialTelemetryReceived
  <2> QED BY <2>2, <2>3, <2>4, <2>5 DEF TopologyNext, SupervisorSide
<1> QED BY <1>4, <1>5, <1>6

LEMMA QuietBegins == ASSUME TopologyInit PROVE QuietInv
<1>1. sim_up /\ DOMAIN active_faults = {} /\ latched = {} /\ process = "absent"
  BY DEF TopologyInit, SimulatorInit, NodeInit, AdapterInit, Init
<1> QED BY <1>1 DEF QuietInv

\* A loop into which nothing is injected never latches a fault before its
\* supervisor is asked to reset, for every ratio of the two timers and every
\* number of starts, ends and crashes of the supervisor, whatever resets its
\* predecessors served.  If two of its samples may have a single tick of the simulator
\* between them, the three sample thresholds must be at least two; no theorem
\* about one process says that the configured ones are enough.
THEOREM QuietLoop ==
  ASSUME QuietSetting PROVE TopologySpec => []QuietLoopStaysClear
<1>1. ASSUME TopologyInv, QuietInv, [TopologyNext]_topology_vars PROVE QuietInv'
  BY <1>1, QuietStep
<1>2. QuietInv => QuietLoopStaysClear
  BY DEF QuietInv, QuietLoopStaysClear
<1> QED
  BY <1>1, <1>2, QuietBegins, TopologyInvariant, PTL DEF TopologySpec

=============================================================================
