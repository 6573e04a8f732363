--------------------------- MODULE SafetyInterlock ---------------------------
(***************************************************************************)
(* What the supervisor promises whoever stands next to the motor, with no  *)
(* sensors, counters or thresholds: the motor turns only while driving,    *)
(* driving is entered only from an interlock that was ready and then saw   *)
(* its operator let go, anything may trip the interlock at any moment, and *)
(* a tripped interlock comes back only through the off position.           *)
(***************************************************************************)
VARIABLES
  mode,      \* the position of the interlock
  motor_on   \* the motor receives a nonzero command

vars == <<mode, motor_on>>

Modes == {"off", "waiting", "armed", "driving", "latched"}

Init == mode = "off" /\ motor_on = FALSE

\* A fault: from every position, and the motor is off in the same step.
Trip == mode' = "latched" /\ motor_on' = FALSE

\* The only way out of the latch.
Release == mode = "latched" /\ mode' = "off" /\ motor_on' = FALSE

BecomeReady == mode = "off" /\ mode' = "waiting" /\ motor_on' = FALSE

\* The operator is seen with both requests low.
LetGo == mode = "waiting" /\ mode' = "armed" /\ motor_on' = FALSE

\* The motor may, but need not, be driven.
Drive == mode \in {"armed", "driving"} /\ mode' = "driving" /\ motor_on' \in BOOLEAN

Stop == mode \in {"waiting", "armed", "driving"} /\ mode' = "off" /\ motor_on' = FALSE

Next == Trip \/ Release \/ BecomeReady \/ LetGo \/ Drive \/ Stop

Spec == Init /\ [][Next]_vars

TypeOK == mode \in Modes /\ motor_on \in BOOLEAN

\* The motor turns only while driving.
MotorOnlyDriving == motor_on => mode = "driving"

=============================================================================
