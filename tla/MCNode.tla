------------------------------- MODULE MCNode -------------------------------
(***************************************************************************)
(* Instances of SupervisorNode for TLC, with the frames of                 *)
(* MCSupervisorAdapter.                                                    *)
(***************************************************************************)
EXTENDS SupervisorNode, MCSupervisorAdapter

=============================================================================
