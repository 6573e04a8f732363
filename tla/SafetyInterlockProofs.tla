----------------------- MODULE SafetyInterlockProofs -----------------------
(***************************************************************************)
(* What follows from the abstract interlock alone, and so holds for        *)
(* whatever implements it.                                                 *)
(***************************************************************************)
EXTENDS SafetyInterlock, TLAPS

\* Under the interlock the motor turns only in the driving position: neither
\* a trip, a release nor the way back to ready leaves it on.
THEOREM InterlockMotor == Spec => [](TypeOK /\ MotorOnlyDriving)
<1> DEFINE IInv == TypeOK /\ MotorOnlyDriving
<1>1. Init => IInv
  BY DEF Init, TypeOK, Modes, MotorOnlyDriving
<1>2. ASSUME IInv, [Next]_vars PROVE IInv'
  <2>1. CASE Next
    BY <1>2, <2>1
    DEF TypeOK, Modes, MotorOnlyDriving, Next, Trip, Release, BecomeReady, LetGo, Drive, Stop
  <2>2. CASE UNCHANGED vars
    BY <1>2, <2>2 DEF TypeOK, MotorOnlyDriving, vars
  <2> QED BY <1>2, <2>1, <2>2
<1> QED BY <1>1, <1>2, PTL DEF Spec

=============================================================================
