---------------------------- MODULE SimulatorNode ----------------------------
(***************************************************************************)
(* The simulator process of ROS2-010, robot_supervisor_sim/node.py: three  *)
(* publishers with a sequence number each, the injected faults and their   *)
(* durations, and the consumer of the actuator command.                    *)
(*                                                                         *)
(* A number is counted from an origin that MoveOrigin shifts; the module   *)
(* around this one keeps it at the last number the supervisor accepted, so *)
(* that numbers stay small.  Only max(0, ...) looks at the number itself,  *)
(* and pristine says whose number is still 0.  Positions are left out:    *)
(* nobody judges them beyond being finite.                                 *)
(***************************************************************************)
EXTENDS Integers

CONSTANTS
  Injections,      \* the requests to inject a fault; duration_samples 0 holds it
  AutoCommands,    \* what the auto_* parameters may ask for, NoMessage for no command
  SimSupply,       \* nominal_supply_voltage_v of the simulator
  SimUndervoltage, \* undervoltage_voltage_v
  NoMessage        \* nothing published

SupportedFaults ==
  {"software_estop", "heartbeat_loss", "encoder_suppressed", "encoder_duplicate",
   "encoder_out_of_order", "encoder_failed", "encoder_invalid", "encoder_nonfinite",
   "relay_feedback_failed", "undervoltage", "safety_suppressed", "safety_duplicate",
   "safety_out_of_order"}

ASSUME SimulatorAssumption ==
  /\ Injections \subseteq [fault : SupportedFaults, duration : Nat]
  /\ SimSupply \in Int /\ SimUndervoltage \in Int

Publishers == {"command", "encoder", "safety"}

\* The telemetry frames it can publish, all faults included.
SimEncoders == [healthy : BOOLEAN, valid : BOOLEAN, finite_position : BOOLEAN]
SimSafety ==
  [supply_voltage_v : {SimSupply, SimUndervoltage},
   software_estop_active : BOOLEAN, watchdog_heartbeat : BOOLEAN,
   relay_feedback_enabled : BOOLEAN, relay_feedback_healthy : BOOLEAN]

VARIABLES
  sim_up,         \* the process runs
  number,         \* _encoder_sequence, _safety_sequence, _command_sequence
  pristine,       \* the telemetry publishers whose number is still 0
  active_faults,  \* _active_faults: what is left of each, 0 for a fault that is held
  consumer        \* _actuator_relay_enable and _actuator_motor_voltage_v

sim_vars == <<sim_up, number, pristine, active_faults, consumer>>

NoNumbers == [p \in Publishers |-> 0]
IdleConsumer == [relay_enable |-> FALSE, motor_voltage_v |-> 0]

SimulatorInit ==
  /\ sim_up = TRUE
  /\ number = NoNumbers
  /\ pristine = {"encoder", "safety"}
  /\ active_faults = <<>>
  /\ consumer = IdleConsumer

\* A new process: its numbers start again, each its own distance behind the
\* last one that was accepted.
SimulatorStart(behind) ==
  /\ ~sim_up
  /\ sim_up' = TRUE
  /\ number' = [p \in Publishers |-> -behind[p]]
  /\ UNCHANGED <<pristine, active_faults, consumer>>

\* The end of the process, and of what it remembered.
SimulatorEnd ==
  /\ sim_up
  /\ sim_up' = FALSE
  /\ number' = NoNumbers
  /\ pristine' = {"encoder", "safety"}
  /\ active_faults' = <<>>
  /\ consumer' = IdleConsumer

-----------------------------------------------------------------------------
(* Fault injection.                                                        *)

Active(fault) == fault \in DOMAIN active_faults

\* _on_set_fault with active: a fault that is active already starts anew.  A
\* name that is not supported is refused and changes nothing.
SetFault(fault, duration) ==
  /\ sim_up
  /\ active_faults' =
       [f \in DOMAIN active_faults \cup {fault} |->
          IF f = fault THEN duration ELSE active_faults[f]]
  /\ UNCHANGED <<sim_up, number, pristine, consumer>>

\* _on_set_fault without active.
ClearFault(fault) ==
  /\ sim_up
  /\ Active(fault)
  /\ active_faults' = [f \in DOMAIN active_faults \ {fault} |-> active_faults[f]]
  /\ UNCHANGED <<sim_up, number, pristine, consumer>>

\* Wrong: the count is not tested for its end before it is counted down.
RemainingPastZero == [f \in {f \in DOMAIN active_faults : active_faults[f] >= 0} |->
                        active_faults[f] - 1]

\* Wrong: a fault lasts one sample less than requested.
RemainingShort == [f \in {f \in DOMAIN active_faults : active_faults[f] \notin {1, 2}} |->
                     IF active_faults[f] = 0 THEN 0 ELSE active_faults[f] - 1]

\* _advance_fault_durations
Remaining == [f \in {f \in DOMAIN active_faults : active_faults[f] # 1} |->
                IF active_faults[f] = 0 THEN 0 ELSE active_faults[f] - 1]

-----------------------------------------------------------------------------
(* Publication.                                                            *)

\* A publisher counts on unless a fault says otherwise.
Counts(p) ==
  CASE p = "encoder" -> \A f \in {"encoder_suppressed", "encoder_duplicate", "encoder_out_of_order"} : ~Active(f)
    [] p = "safety"  -> \A f \in {"safety_suppressed", "safety_duplicate", "safety_out_of_order"} : ~Active(f)
    [] p = "command" -> TRUE

Older(p) == IF p \in pristine THEN number[p] ELSE number[p] - 1

EncoderMessage ==
  IF Active("encoder_suppressed") THEN NoMessage
  ELSE [sequence |-> IF Active("encoder_duplicate") THEN number["encoder"]
                     ELSE IF Active("encoder_out_of_order") THEN Older("encoder")
                     ELSE number["encoder"] + 1,
        frame |-> [healthy |-> ~Active("encoder_failed"),
                   valid |-> ~Active("encoder_invalid"),
                   finite_position |-> ~Active("encoder_nonfinite")]]

\* Wrong: the feedback is what it was before the actuator command.
SafetyMessageBlind ==
  IF Active("safety_suppressed") THEN NoMessage
  ELSE [sequence |-> IF Active("safety_duplicate") THEN number["safety"]
                     ELSE IF Active("safety_out_of_order") THEN Older("safety")
                     ELSE number["safety"] + 1,
        frame |-> [supply_voltage_v |-> IF Active("undervoltage") THEN SimUndervoltage ELSE SimSupply,
                   software_estop_active |-> Active("software_estop"),
                   watchdog_heartbeat |-> ~Active("heartbeat_loss"),
                   relay_feedback_enabled |-> FALSE,
                   relay_feedback_healthy |-> ~Active("relay_feedback_failed")]]

SafetyMessage ==
  IF Active("safety_suppressed") THEN NoMessage
  ELSE [sequence |-> IF Active("safety_duplicate") THEN number["safety"]
                     ELSE IF Active("safety_out_of_order") THEN Older("safety")
                     ELSE number["safety"] + 1,
        frame |-> [supply_voltage_v |-> IF Active("undervoltage") THEN SimUndervoltage ELSE SimSupply,
                   software_estop_active |-> Active("software_estop"),
                   watchdog_heartbeat |-> ~Active("heartbeat_loss"),
                   relay_feedback_enabled |->
                     consumer.relay_enable /\ ~Active("relay_feedback_failed"),
                   relay_feedback_healthy |-> ~Active("relay_feedback_failed")]]

CommandMessage(auto) ==
  IF auto = NoMessage THEN NoMessage
  ELSE [sequence |-> number["command"] + 1, frame |-> auto]

Published(auto) ==
  [command |-> CommandMessage(auto), encoder |-> EncoderMessage, safety |-> SafetyMessage]

\* What a tick adds to each number.
Increment(auto) ==
  [p \in Publishers |-> IF Counts(p) /\ (p = "command" => auto # NoMessage) THEN 1 ELSE 0]

\* _on_tick.  While nobody has anything to compare a number with, the origin
\* moves along.
SimulatorTick(auto, compared) ==
  /\ sim_up
  /\ number' = IF compared THEN [p \in Publishers |-> number[p] + Increment(auto)[p]]
               ELSE NoNumbers
  /\ pristine' = {p \in pristine : Increment(auto)[p] = 0}
  /\ active_faults' = Remaining
  /\ UNCHANGED <<sim_up, consumer>>

\* The supervisor accepted a message with number n.
MoveOrigin(p, n) ==
  /\ number' = [number EXCEPT ![p] = @ - n]
  /\ UNCHANGED <<sim_up, pristine, active_faults, consumer>>

\* Wrong: a safe command is not consumed.
OnActuatorEnabledOnly(command) ==
  /\ consumer' = IF command.relay_enable THEN command ELSE consumer
  /\ UNCHANGED <<sim_up, number, pristine, active_faults>>

\* _on_actuator
OnActuator(command) ==
  /\ consumer' = [relay_enable |-> command.relay_enable,
                  motor_voltage_v |-> IF command.relay_enable THEN command.motor_voltage_v ELSE 0]
  /\ UNCHANGED <<sim_up, number, pristine, active_faults>>

=============================================================================
