--------------------------- MODULE AdapterHistory ---------------------------
(***************************************************************************)
(* SupervisorAdapter with a history of the transport: how long each        *)
(* channel has been silent and whether a command has arrived since the     *)
(* supervisor last saw its operator let go.  The history is taken from the *)
(* accepted frames, never from the adapter's flags and ages.               *)
(***************************************************************************)
EXTENDS SupervisorAdapter

VARIABLES
  quiet,        \* ticks since a frame was last accepted, or since the construction
  new_command,  \* a command was accepted after the last disarmed sample
  unreliable    \* the one channel that may also repeat, reorder or garble frames

vars == <<state, latched, startup_healthy, shutdown_hold, missed, sequence,
          stale_age, liveness, mismatch, disarmed_seen, record,
          command, encoder, safety, command_age, updated, protocol_invalid,
          quiet, new_command, unreliable>>

\* The ticks a channel may be silent before the supervisor must have stopped.
Deadline ==
  [command |-> CommandStaleSamples,
   encoder |-> EncoderStaleSamples,
   safety  |-> WatchdogSamples]

HistoryInit ==
  /\ AdapterInit
  /\ quiet = [c \in Channels |-> 0]
  /\ new_command = FALSE
  /\ unreliable \in Channels

\* Frames of a reliable channel arrive in order, or not at all.
Arrivals(channel) == IF channel = unreliable THEN Deltas[channel] ELSE Deltas[channel] \cap {1}

Hear(channel, retained, delta) ==
  /\ quiet' = IF Classify(retained, delta) = "ACCEPTED"
              THEN [quiet EXCEPT ![channel] = 0] ELSE quiet
  /\ new_command' =
       \/ new_command
       \/ channel = "command" /\ Classify(retained, delta) = "ACCEPTED"
  /\ UNCHANGED unreliable

HearFrame ==
  \/ \E frame \in CommandFrames, delta \in Arrivals("command") :
       IngestCommand(frame, delta) /\ Hear("command", command, delta)
  \/ \E frame \in EncoderFrames, delta \in Arrivals("encoder") :
       IngestEncoder(frame, delta) /\ Hear("encoder", encoder, delta)
  \/ \E frame \in SafetyFrames, delta \in Arrivals("safety") :
       IngestSafety(frame, delta) /\ Hear("safety", safety, delta)

Disarmed(in) == Validated(in).arm_request = FALSE /\ Validated(in).run_request = FALSE

Elapse(reset) ==
  /\ quiet' = [c \in Channels |-> Bump(quiet[c], Deadline[c] + 1)]
  /\ new_command' = (new_command /\ ~Disarmed(BuildInputs(reset)))
  /\ UNCHANGED unreliable

HistoryTick(reset) == Tick(reset) /\ Elapse(reset)

HistoryNext == HearFrame \/ HistoryTick(FALSE) \/ HistoryTick(TRUE)

HistorySpec == HistoryInit /\ [][HistoryNext]_vars

-----------------------------------------------------------------------------
(* Safety.                                                                 *)

\* Losing any one publisher stops the motor within that channel's deadline,
\* whatever duplicates, late or malformed frames keep arriving on it.
SilenceIsBounded ==
  state = "RUNNING" => \A c \in Channels : quiet[c] <= Deadline[c]

\* Motion starts only on a command that arrived after the disarmed sample: no
\* retained frame, timeout or reset makes a new arm and run request.
MotionNeedsNewCommand ==
  [][state # "RUNNING" /\ state' = "RUNNING" => new_command]_vars

\* Readiness needs encoder frames: a supervisor that never accepted one is
\* neither ready nor running, however often it is ticked or reset.
ReadyNeedsEncoderFrames ==
  state \in {"READY", "RUNNING"} => encoder # NoFrame

\* A reset is accepted only within the watchdog's deadline of the last
\* accepted safety frame.
ResetNeedsHeartbeat ==
  [][record'.reset_accepted /\ ~record.reset_accepted =>
       quiet["safety"] < WatchdogSamples]_vars

=============================================================================
