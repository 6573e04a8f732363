----------------------------- MODULE MCTopology -----------------------------
(***************************************************************************)
(* Instances of Topology for TLC.                                          *)
(***************************************************************************)
EXTENDS Topology, MCSupervisorAdapter

AnyDelta == [c \in Channels |-> {-1, 0, 1}]

\* What the simulator is told to ask for.
Commands == {Disarm, Motion}

NoInjections == {}

\* An E-stop that outlasts a gap of two ticks by one frame.
PassingEstop == {[fault |-> "software_estop", duration |-> 3]}

\* The encoder's channel falls silent for good.
HeldSilence == {[fault |-> "encoder_suppressed", duration |-> 0]}

\* A restarted simulator is behind nobody, or on each channel by another number:
\* frames that are out of order, then a repeated one, then accepted ones.
NoLag == {NoNumbers}
Lags == NoLag \cup {[command |-> 2, encoder |-> 3, safety |-> 1]}

=============================================================================
