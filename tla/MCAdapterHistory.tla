-------------------------- MODULE MCAdapterHistory --------------------------
(***************************************************************************)
(* Instances of AdapterHistory for TLC: one channel at a time repeats,     *)
(* reorders or garbles its frames while the others advance or fall silent. *)
(***************************************************************************)
EXTENDS AdapterHistory, MCSupervisorAdapter

Anomalies ==
  [Advances EXCEPT !["command"] = {0, 1, -1}, !["encoder"] = {0, 1, -1},
                   !["safety"] = {0, 1, Malformed}]

=============================================================================
