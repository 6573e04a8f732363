------------------------ MODULE AdapterHistoryProofs ------------------------
(***************************************************************************)
(* Proofs about AdapterHistory: what the transport's silence and the age   *)
(* of a command mean for motion, for frames of any content and number and  *)
(* for every threshold.  The counters of the bench and the adapter are     *)
(* compared with a history that never reads them.                          *)
(***************************************************************************)
EXTENDS AdapterHistory, SupervisorAdapterProofs

\* The next sample of the retained command asks neither to arm nor to run.
RequestsLow ==
  /\ BooleanOr(CommandPart.arm, FALSE) = FALSE
  /\ BooleanOr(CommandPart.run, FALSE) = FALSE

\* Silence as the history counts it, against the three counters that are to
\* bound it.  The watchdog's runs along; the command's does once there is one.
SilenceCounted ==
  /\ quiet \in [Channels -> Nat]
  /\ \A c \in Channels : quiet[c] <= Deadline[c] + 1
  /\ \A c \in Telemetry : updated[c] => quiet[c] = 0
  /\ quiet["safety"] <= missed + 1
  /\ command # NoFrame =>
       quiet["command"] <= command_age \/ command_age >= CommandStaleSamples

\* The encoder's counter has lost intervals: failed and invalid samples leave
\* it where it was.
Behind == quiet["encoder"] > stale_age + 1

AgeAtLeast(n) == stale_age >= n \/ stale_age >= EncoderStaleSamples

\* It loses them in FAULT_LATCHED only, and every step from there back to
\* RUNNING counts one.
EncoderSilenceCounted ==
  /\ state # "FAULT_LATCHED" => sequence # "ADVANCED"
  /\ state \in {"READY", "RUNNING", "SAFE_SHUTDOWN"} => sequence = "SEEN"
  /\ state = "SAFE_STARTUP" /\ sequence = "NONE" => quiet["encoder"] = 0
  /\ state = "SAFE_STARTUP" => ~Behind
  /\ Behind =>
       /\ state = "READY" => AgeAtLeast(1)
       /\ state = "READY" /\ disarmed_seen => AgeAtLeast(2)
       /\ state = "RUNNING" => AgeAtLeast(3)

CommandSilenceBounded == state = "RUNNING" => quiet["command"] <= CommandStaleSamples

\* The inductive invariant of the adapter with its history.
HistoryInv ==
  /\ AdapterInv
  /\ SilenceCounted
  /\ EncoderSilenceCounted
  /\ CommandSilenceBounded
  /\ new_command \in BOOLEAN
  /\ new_command \/ RequestsLow

-----------------------------------------------------------------------------
(* Frames.                                                                 *)

LEMMA DeadlineType == Deadline \in [Channels -> Nat]
  BY ConfigAssumption, AdapterAssumption DEF Deadline, Channels

\* What every frame does to the history, on whichever channel it comes.
LEMMA HearType ==
  ASSUME HistoryInv, NEW channel \in Channels, NEW retained, NEW delta,
         Hear(channel, retained, delta)
  PROVE  /\ quiet' \in [Channels -> Nat]
         /\ \A c \in Channels : quiet'[c] <= quiet[c]
         /\ \A c \in Channels : quiet[c] = 0 => quiet'[c] = 0
         /\ Classify(retained, delta) = "ACCEPTED" => quiet'[channel] = 0
  BY DEF Hear, HistoryInv, SilenceCounted

\* A frame leaves the bench alone, and what it refreshes is no longer silent.
LEMMA HearKeepsInvariant == ASSUME HistoryInv, HearFrame PROVE HistoryInv'
<1>1. Ingest
  BY DEF HearFrame, Ingest, Arrivals, Channels
<1>2. AdapterInv' /\ UNCHANGED bench_vars
  BY <1>1, IngestKeepsInvariant
  DEF HistoryInv, Ingest, IngestCommand, IngestEncoder, IngestSafety
<1>3. /\ quiet' \in [Channels -> Nat]
      /\ \A c \in Channels : quiet'[c] <= quiet[c]
      /\ \A c \in Channels : quiet[c] = 0 => quiet'[c] = 0
      /\ new_command' \in BOOLEAN /\ (new_command => new_command')
  <2>1. PICK channel \in Channels : \E retained, delta : Hear(channel, retained, delta)
    BY DEF HearFrame, Channels
  <2>2. PICK retained, delta : Hear(channel, retained, delta)
    BY <2>1
  <2> QED BY <2>2, HearType DEF Hear, HistoryInv
<1>4. \A c \in Telemetry : updated'[c] => quiet'[c] = 0
  <2>1. \A c \in Telemetry : updated[c] => quiet[c] = 0
    BY DEF HistoryInv, SilenceCounted
  <2>2. updated \in [Telemetry -> BOOLEAN] /\ Telemetry \subseteq Channels
    BY DEF HistoryInv, AdapterInv, AdapterTypeOK, Telemetry, Channels
  <2>3. ASSUME NEW frame, NEW delta,
               IngestCommand(frame, delta)
        PROVE  \A c \in Telemetry : updated'[c] => quiet'[c] = 0
    BY <1>3, <2>1, <2>2, <2>3 DEF IngestCommand
  <2>4. ASSUME NEW frame, NEW delta,
               IngestEncoder(frame, delta), Hear("encoder", encoder, delta)
        PROVE  \A c \in Telemetry : updated'[c] => quiet'[c] = 0
    <3>1. Classify(encoder, delta) = "ACCEPTED" => quiet'["encoder"] = 0
      BY <2>4, HearType DEF Channels
    <3> QED BY <1>3, <2>1, <2>2, <2>4, <3>1 DEF IngestEncoder, MarkUpdated
  <2>5. ASSUME NEW frame, NEW delta,
               IngestSafety(frame, delta), Hear("safety", safety, delta)
        PROVE  \A c \in Telemetry : updated'[c] => quiet'[c] = 0
    <3>1. Classify(safety, delta) = "ACCEPTED" => quiet'["safety"] = 0
      BY <2>5, HearType DEF Channels
    <3> QED BY <1>3, <2>1, <2>2, <2>5, <3>1 DEF IngestSafety, MarkUpdated
  <2> QED BY <2>3, <2>4, <2>5 DEF HearFrame
<1>5. \/ UNCHANGED <<command, command_age>>
      \/ quiet'["command"] = 0 /\ new_command'
  <2>1. ASSUME NEW frame, NEW delta,
               IngestCommand(frame, delta), Hear("command", command, delta)
        PROVE  \/ UNCHANGED <<command, command_age>>
               \/ quiet'["command"] = 0 /\ new_command'
    <3>1. Classify(command, delta) = "ACCEPTED" => quiet'["command"] = 0
      BY <2>1, HearType DEF Channels
    <3> QED BY <2>1, <3>1 DEF IngestCommand, Hear
  <2> QED BY <2>1 DEF HearFrame, IngestEncoder, IngestSafety
<1>6. SilenceCounted'
  <2>1. missed' = missed /\ missed \in Nat
    BY <1>2, ConfigAssumption DEF bench_vars, HistoryInv, AdapterInv, IInv, TypeOK
  <2>2. command_age' \in Nat /\ quiet \in [Channels -> Nat] /\ Deadline' = Deadline
    BY <1>2, AdapterAssumption DEF AdapterInv, AdapterTypeOK, HistoryInv, SilenceCounted, Deadline
  <2>3. \A c \in Channels : quiet'[c] <= Deadline[c] + 1
    BY <1>3, <2>2, DeadlineType DEF HistoryInv, SilenceCounted
  <2>4. quiet'["safety"] <= missed' + 1
    BY <1>3, <2>1, <2>2 DEF HistoryInv, SilenceCounted, Channels
  <2>5. command' # NoFrame =>
          quiet'["command"] <= command_age' \/ command_age' >= CommandStaleSamples
    BY <1>3, <1>5, <2>2, AdapterAssumption DEF HistoryInv, SilenceCounted, Channels
  <2> QED BY <1>3, <1>4, <2>2, <2>3, <2>4, <2>5 DEF SilenceCounted
<1>7. EncoderSilenceCounted'
  <2>1. Behind' => Behind
    BY <1>2, <1>3, ConfigAssumption
    DEF Behind, bench_vars, HistoryInv, AdapterInv, IInv, TypeOK, SilenceCounted, Channels
  <2> QED
    BY <1>2, <1>3, <2>1
    DEF HistoryInv, EncoderSilenceCounted, AgeAtLeast, bench_vars, Channels
<1>8. CommandSilenceBounded'
  BY <1>2, <1>3, AdapterAssumption
  DEF HistoryInv, SilenceCounted, CommandSilenceBounded, bench_vars, Channels
<1>9. new_command' \/ RequestsLow'
  BY <1>3, <1>5 DEF HistoryInv, RequestsLow, CommandPart, CommandStale
<1> QED BY <1>2, <1>3, <1>6, <1>7, <1>8, <1>9 DEF HistoryInv

-----------------------------------------------------------------------------
(* Ticks.                                                                  *)

\* Every channel has been silent for one tick more.
LEMMA ElapseType ==
  ASSUME HistoryInv, NEW reset, Elapse(reset)
  PROVE  /\ quiet' \in [Channels -> Nat]
         /\ \A c \in Channels : /\ quiet'[c] <= Deadline[c] + 1
                                /\ quiet'[c] <= quiet[c] + 1
                                /\ quiet[c] <= Deadline[c] => quiet'[c] = quiet[c] + 1
                                /\ quiet[c] > Deadline[c] => quiet'[c] = quiet[c]
<1>1. quiet' = [c \in Channels |-> Bump(quiet[c], Deadline[c] + 1)]
  BY DEF Elapse
<1>2. \A c \in Channels : /\ quiet[c] \in Nat /\ Deadline[c] \in Nat
                          /\ quiet[c] <= Deadline[c] + 1
  BY DeadlineType DEF HistoryInv, SilenceCounted
<1> QED BY <1>1, <1>2 DEF Bump

LEMMA TickKeepsSilenceCounted ==
  ASSUME HistoryInv, NEW reset, HistoryTick(reset) PROVE SilenceCounted'
<1> DEFINE v == Validated(BuildInputs(reset))
<1>1. /\ quiet' \in [Channels -> Nat]
      /\ \A c \in Channels : quiet'[c] <= Deadline[c] + 1 /\ quiet'[c] <= quiet[c] + 1
  BY ElapseType DEF HistoryTick
<1>2. \A c \in Telemetry : ~updated'[c]
  BY DEF HistoryTick, Tick
<1>3. Step(BuildInputs(reset))
  BY TickSteps DEF HistoryTick
<1>4. TypeOK /\ quiet \in [Channels -> Nat] /\ AdapterTypeOK
  BY DEF HistoryInv, AdapterInv, IInv, SilenceCounted
<1>5. quiet'["safety"] <= missed' + 1
  <2>1. missed' = NextMissed(v)
    BY <1>3 DEF Step, Sample
  <2>2. missed \in 0..WatchdogSamples /\ WatchdogSamples \in Nat
    BY <1>4, ConfigAssumption DEF TypeOK
  <2>3. CASE updated["safety"]
    <3>1. quiet["safety"] = 0
      BY <2>3 DEF HistoryInv, SilenceCounted, Telemetry
    <3>2. missed' \in Nat
      BY <2>1, <2>2 DEF NextMissed, Bump
    <3> QED BY <1>1, <1>4, <3>1, <3>2 DEF Channels
  <2>4. CASE ~updated["safety"]
    <3>1. BuildInputs(reset).watchdog_heartbeat = FALSE
      BY <2>4 DEF BuildInputs, Heartbeat
    <3>2. v.watchdog_heartbeat = FALSE
      BY <3>1 DEF Validated, BooleanOr
    <3>3. missed' = Bump(missed, WatchdogSamples)
      BY <2>1, <3>2 DEF NextMissed
    <3>4. /\ quiet["safety"] <= missed + 1
          /\ quiet'["safety"] <= quiet["safety"] + 1
          /\ quiet'["safety"] <= WatchdogSamples + 1
          /\ quiet["safety"] \in Nat /\ quiet'["safety"] \in Nat
      BY <1>1, <1>4 DEF HistoryInv, SilenceCounted, Channels, Deadline
    <3> QED BY <2>2, <3>3, <3>4 DEF Bump
  <2> QED BY <2>3, <2>4
<1>6. command' # NoFrame =>
        quiet'["command"] <= command_age' \/ command_age' >= CommandStaleSamples
  <2> SUFFICES ASSUME command # NoFrame
               PROVE  quiet'["command"] <= command_age' \/ command_age' >= CommandStaleSamples
    BY DEF HistoryTick, Tick, frame_vars
  <2>1. command_age' = Bump(command_age, CommandStaleSamples)
    BY DEF HistoryTick, Tick
  <2>2. /\ quiet["command"] <= command_age \/ command_age >= CommandStaleSamples
        /\ quiet'["command"] <= quiet["command"] + 1
        /\ quiet["command"] \in Nat /\ quiet'["command"] \in Nat
        /\ command_age \in 0..CommandStaleSamples /\ CommandStaleSamples \in Nat
    BY <1>1, <1>4, AdapterAssumption DEF HistoryInv, SilenceCounted, Channels, AdapterTypeOK
  <2> QED BY <2>1, <2>2 DEF Bump
<1>7. Deadline' = Deadline
  BY DEF Deadline
<1> QED BY <1>1, <1>2, <1>5, <1>6, <1>7 DEF SilenceCounted

\* A sample that detects nothing looks at the encoder; without a new frame it
\* counts the interval.
LEMMA QuietSampleCounts ==
  ASSUME HistoryInv, NEW reset, HistoryTick(reset), state' # "FAULT_LATCHED"
  PROVE  /\ sequence' = "SEEN"
         /\ state # "FAULT_LATCHED" /\ sequence = "SEEN" =>
              ~Behind' \/ (Behind /\ stale_age' = stale_age + 1)
         /\ state = "SAFE_STARTUP" => ~Behind'
<1> DEFINE in == BuildInputs(reset)
<1> DEFINE v == Validated(in)
<1>1. Step(in)
  BY TickSteps DEF HistoryTick
<1>2. Detected(in, v) = {}
  <2>1. \A code : code \notin Detected(in, v)
    BY <1>1, DetectedLatches
  <2> QED BY <2>1
<1>3. v.encoder_failed = FALSE /\ v.encoder_invalid = FALSE
  <2>1. v \in ValidatedInputs
    BY ValidatedType
  <2> HIDE DEF v, in
  <2>2. ~v.encoder_failed /\ ~v.encoder_invalid
    BY <1>2 DEF Detected
  <2> QED BY <2>1, <2>2 DEF ValidatedInputs
<1>4. EncoderUsable(v)
  BY <1>3 DEF EncoderUsable
<1>5. sequence' = NextSequence(v) /\ stale_age' = NextStaleAge(v)
  BY <1>1 DEF Step, Sample
<1>6. ~updated["encoder"] => ~SequenceAdvances(v)
  BY StaleSampleStays
<1> HIDE DEF v, in
<1>7. sequence' = "SEEN"
  BY <1>4, <1>5 DEF NextSequence
<1>8. /\ quiet["encoder"] \in Nat /\ quiet'["encoder"] \in Nat
      /\ quiet'["encoder"] <= quiet["encoder"] + 1
      /\ updated["encoder"] => quiet["encoder"] = 0
      /\ stale_age \in 0..EncoderStaleSamples /\ EncoderStaleSamples \in Nat
  BY ElapseType, ConfigAssumption
  DEF HistoryTick, HistoryInv, SilenceCounted, Channels, Telemetry, AdapterInv, IInv, TypeOK
<1>9. stale_age' \in Nat
  BY <1>5, <1>8 DEF NextStaleAge, Bump
<1>10. quiet["encoder"] = 0 => ~Behind'
  BY <1>8, <1>9 DEF Behind
<1>11. ASSUME state # "FAULT_LATCHED", sequence = "SEEN"
       PROVE  ~Behind' \/ (Behind /\ stale_age' = stale_age + 1)
  <2>1. CASE updated["encoder"]
    BY <1>8, <1>10, <2>1
  <2>2. CASE ~updated["encoder"]
    <3>1. stale_age < EncoderStaleSamples
      BY <1>11 DEF HistoryInv, AdapterInv, IInv, DeadlinesHold
    <3>2. ~AdvanceSeen(v)
      BY <1>6, <1>11, <2>2 DEF AdvanceSeen
    <3>3. stale_age' = stale_age + 1
      BY <1>4, <1>5, <1>11, <3>1, <3>2 DEF NextStaleAge, Bump
    <3> QED BY <1>8, <3>3 DEF Behind
  <2> QED BY <2>1, <2>2
<1>12. ASSUME state = "SAFE_STARTUP" PROVE ~Behind'
  <2>1. /\ sequence # "ADVANCED" /\ ~Behind
        /\ sequence = "NONE" => quiet["encoder"] = 0
        /\ sequence \in {"NONE", "SEEN", "ADVANCED"}
    BY <1>12
    DEF HistoryInv, EncoderSilenceCounted, AdapterInv, IInv, TypeOK, SequenceRelation
  <2> QED BY <1>10, <1>11, <1>12, <2>1
<1> QED BY <1>7, <1>11, <1>12

LEMMA TickKeepsEncoderSilenceCounted ==
  ASSUME HistoryInv, NEW reset, HistoryTick(reset) PROVE EncoderSilenceCounted'
<1>1. CASE state' = "FAULT_LATCHED"
  BY <1>1 DEF EncoderSilenceCounted
<1>2. CASE state' # "FAULT_LATCHED"
  <2>1. Step(BuildInputs(reset))
    BY TickSteps DEF HistoryTick
  <2>2. /\ sequence' = "SEEN"
        /\ state # "FAULT_LATCHED" /\ sequence = "SEEN" =>
             ~Behind' \/ (Behind /\ stale_age' = stale_age + 1)
        /\ state = "SAFE_STARTUP" => ~Behind'
    BY <1>2, QuietSampleCounts
  <2>3. stale_age \in Nat /\ EncoderStaleSamples \in Nat
    BY ConfigAssumption DEF HistoryInv, AdapterInv, IInv, TypeOK
  <2>4. /\ state \in {"READY", "RUNNING", "SAFE_SHUTDOWN"} => sequence = "SEEN"
        /\ Behind => /\ state = "READY" => AgeAtLeast(1)
                     /\ state = "READY" /\ disarmed_seen => AgeAtLeast(2)
                     /\ state = "RUNNING" => AgeAtLeast(3)
    BY DEF HistoryInv, EncoderSilenceCounted
  <2>5. ASSUME Behind', state' = "READY" PROVE AgeAtLeast(1)'
    <3>1. state \in {"SAFE_SHUTDOWN", "READY"}
      BY <2>1, <2>2, <2>5, EntersReady
    <3>2. stale_age' = stale_age + 1
      BY <2>2, <2>4, <2>5, <3>1
    <3> QED BY <2>3, <3>2 DEF AgeAtLeast
  <2>6. ASSUME Behind', state' = "READY", disarmed_seen' PROVE AgeAtLeast(2)'
    <3>1. state = "READY"
      BY <2>1, <2>6, EntersArmed
    <3>2. stale_age' = stale_age + 1 /\ AgeAtLeast(1)
      BY <2>2, <2>4, <2>6, <3>1
    <3> QED BY <2>3, <3>2 DEF AgeAtLeast
  <2>7. ASSUME Behind', state' = "RUNNING" PROVE AgeAtLeast(3)'
    <3>1. state = "RUNNING" \/ (state = "READY" /\ disarmed_seen)
      BY <2>1, <2>7, EntersRunning
    <3>2. stale_age' = stale_age + 1 /\ AgeAtLeast(2)
      BY <2>2, <2>3, <2>4, <2>7, <3>1 DEF AgeAtLeast
    <3> QED BY <2>3, <3>2 DEF AgeAtLeast
  <2>8. state' = "SAFE_STARTUP" => ~Behind'
    BY <2>1, <2>2, StaysInStartup
  <2> QED BY <1>2, <2>2, <2>5, <2>6, <2>7, <2>8 DEF EncoderSilenceCounted
<1> QED BY <1>1, <1>2

\* What the sample of a tick asks of the motor is what the command part says.
LEMMA DisarmedIsLow ==
  ASSUME AdapterInv, NEW reset \in BOOLEAN
  PROVE  Disarmed(BuildInputs(reset)) <=> RequestsLow
<1> DEFINE in == BuildInputs(reset)
<1>1. in # Malformed
  BY SampleIsNoGarbage
<1>2. in.arm_request = CommandPart.arm /\ in.run_request = CommandPart.run
  BY DEF BuildInputs
<1> HIDE DEF in
<1>3. /\ Validated(in).arm_request = BooleanOr(CommandPart.arm, FALSE)
      /\ Validated(in).run_request = BooleanOr(CommandPart.run, FALSE)
  BY <1>1, <1>2 DEF Validated
<1> QED BY <1>3 DEF Disarmed, RequestsLow, in

LEMMA TickKeepsHistory ==
  ASSUME HistoryInv, NEW reset \in BOOLEAN, HistoryTick(reset) PROVE HistoryInv'
<1>1. AdapterInv'
  BY TickKeepsInvariant DEF HistoryInv, HistoryTick
<1>2. Step(BuildInputs(reset))
  BY TickSteps DEF HistoryTick
<1>3. CommandSilenceBounded'
  <2> SUFFICES ASSUME state' = "RUNNING" PROVE quiet'["command"] <= CommandStaleSamples
    BY DEF CommandSilenceBounded
  <2>1. Validated(BuildInputs(reset)).arm_request
    BY <1>2, EntersRunning
  <2>2. command # NoFrame /\ ~(command_age >= CommandStaleSamples)
    BY <2>1, ArmedByFrame DEF CommandStale
  <2>3. /\ quiet["command"] <= command_age
        /\ quiet'["command"] <= quiet["command"] + 1
        /\ quiet["command"] \in Nat /\ quiet'["command"] \in Nat
        /\ command_age \in Nat /\ CommandStaleSamples \in Nat
    BY <2>2, ElapseType, AdapterAssumption
    DEF HistoryInv, HistoryTick, SilenceCounted, Channels, AdapterInv, AdapterTypeOK
  <2> QED BY <2>2, <2>3
<1>4. new_command' \in BOOLEAN
  BY DEF HistoryInv, HistoryTick, Elapse
<1>5. new_command' \/ RequestsLow'
  <2> SUFFICES ASSUME ~new_command' PROVE RequestsLow'
    OBVIOUS
  <2>1. ~new_command \/ Disarmed(BuildInputs(reset))
    BY DEF HistoryTick, Elapse
  <2>2. RequestsLow
    BY <2>1, DisarmedIsLow DEF HistoryInv
  <2>3. CommandPart' = CommandPart \/ (CommandPart.arm = FALSE /\ CommandPart.run = FALSE)'
    <3>1. command' = command
      BY DEF HistoryTick, Tick, frame_vars
    <3>2. CASE command = NoFrame \/ CommandStale'
      BY <3>1, <3>2 DEF CommandPart, CommandStale
    <3>3. CASE command # NoFrame /\ ~CommandStale'
      <4>1. command_age' = Bump(command_age, CommandStaleSamples)
        BY <3>3 DEF HistoryTick, Tick
      <4>2. command_age \in Nat /\ CommandStaleSamples \in Nat
        BY AdapterAssumption DEF HistoryInv, AdapterInv, AdapterTypeOK
      <4>3. ~(command_age >= CommandStaleSamples)
        BY <3>1, <3>3, <4>1, <4>2 DEF CommandStale, Bump
      <4> QED BY <3>1, <3>3, <4>3 DEF CommandPart, CommandStale
    <3> QED BY <3>2, <3>3
  <2> QED BY <2>2, <2>3 DEF RequestsLow, BooleanOr
<1> QED
  BY <1>1, <1>3, <1>4, <1>5, TickKeepsSilenceCounted, TickKeepsEncoderSilenceCounted
  DEF HistoryInv

-----------------------------------------------------------------------------
(* Theorems.                                                               *)

LEMMA HistoryInitInvariant == ASSUME HistoryInit PROVE HistoryInv
<1>1. AdapterInv
  BY AdapterInitInvariant DEF HistoryInit
<1>2. /\ quiet = [c \in Channels |-> 0] /\ updated = [c \in Telemetry |-> FALSE]
      /\ missed = 0 /\ stale_age = 0 /\ command = NoFrame /\ new_command = FALSE
      /\ state = "SAFE_STARTUP" /\ sequence = "NONE"
  BY DEF HistoryInit, AdapterInit, Init
<1>3. SilenceCounted
  BY <1>2, DeadlineType DEF SilenceCounted, Channels, Telemetry
<1>4. EncoderSilenceCounted /\ CommandSilenceBounded
  BY <1>2 DEF EncoderSilenceCounted, CommandSilenceBounded, Behind, Channels
<1>5. RequestsLow
  BY <1>2 DEF RequestsLow, CommandPart, BooleanOr
<1> QED BY <1>1, <1>2, <1>3, <1>4, <1>5 DEF HistoryInv

LEMMA HistoryStutter == ASSUME HistoryInv, UNCHANGED vars PROVE HistoryInv'
<1>1. UNCHANGED all_vars /\ UNCHANGED <<quiet, new_command>>
  BY DEF vars, all_vars, bench_vars, adapter_vars
<1>2. AdapterInv'
  BY <1>1, AdapterStutter DEF HistoryInv
<1> QED
  BY <1>1, <1>2
  DEF HistoryInv, SilenceCounted, EncoderSilenceCounted, CommandSilenceBounded, Behind,
      AgeAtLeast, RequestsLow, CommandPart, CommandStale, Deadline, all_vars, bench_vars,
      adapter_vars

LEMMA HistoryStepInvariant == ASSUME HistoryInv, [HistoryNext]_vars PROVE HistoryInv'
  BY HearKeepsInvariant, TickKeepsHistory, HistoryStutter DEF HistoryNext

\* Losing a publisher stops the motor within the deadline of its channel, for
\* every threshold of the watchdog and the command and an encoder threshold
\* of at most three, the configured one.  The bound is exact: samples that fail
\* do not age the encoder, and with a threshold of four TLC finds a reset and a
\* way back to RUNNING on an overdue frame.
THEOREM SilenceBounded ==
  ASSUME EncoderStaleSamples <= 3 PROVE HistorySpec => []SilenceIsBounded
<1>1. ASSUME HistoryInv PROVE SilenceIsBounded
  <2> SUFFICES ASSUME state = "RUNNING", NEW c \in Channels PROVE quiet[c] <= Deadline[c]
    BY DEF SilenceIsBounded
  <2>1. /\ missed < WatchdogSamples /\ stale_age < EncoderStaleSamples
        /\ missed \in Nat /\ stale_age \in Nat
        /\ WatchdogSamples \in Nat /\ EncoderStaleSamples \in Nat
        /\ \A ch \in Channels : quiet[ch] \in Nat
    BY <1>1, ConfigAssumption
    DEF HistoryInv, AdapterInv, IInv, DeadlinesHold, TypeOK, SilenceCounted
  <2>2. CASE c = "command"
    BY <1>1, <2>2 DEF HistoryInv, CommandSilenceBounded, Deadline
  <2>3. CASE c = "safety"
    BY <1>1, <2>1, <2>3 DEF HistoryInv, SilenceCounted, Deadline
  <2>4. CASE c = "encoder"
    <3>1. ~Behind
      BY <1>1, <2>1 DEF HistoryInv, EncoderSilenceCounted, AgeAtLeast
    <3> QED BY <2>1, <2>4, <3>1 DEF Behind, Deadline
  <2> QED BY <2>2, <2>3, <2>4 DEF Channels
<1> QED BY <1>1, HistoryInitInvariant, HistoryStepInvariant, PTL DEF HistorySpec

\* Neither READY nor RUNNING is reached without an encoder frame, for any
\* number of ticks and resets.
THEOREM EncoderFramesFirst == HistorySpec => []ReadyNeedsEncoderFrames
<1>1. ASSUME HistoryInv PROVE ReadyNeedsEncoderFrames
  BY <1>1
  DEF HistoryInv, AdapterInv, FramesKnown, IInv, ReadyNeedsLiveness, ReadyNeedsEncoderFrames
<1> QED BY <1>1, HistoryInitInvariant, HistoryStepInvariant, PTL DEF HistorySpec

\* Motion starts only on a command accepted after the disarmed sample.
THEOREM NewCommandFirst == HistorySpec => MotionNeedsNewCommand
<1>1. ASSUME HistoryInv, HistoryNext
      PROVE  state # "RUNNING" /\ state' = "RUNNING" => new_command
  <2> SUFFICES ASSUME state # "RUNNING", state' = "RUNNING" PROVE new_command
    OBVIOUS
  <2>1. PICK reset \in BOOLEAN : Tick(reset)
    BY <1>1
    DEF HistoryNext, HistoryTick, HearFrame, IngestCommand, IngestEncoder, IngestSafety,
        bench_vars
  <2>2. Validated(BuildInputs(reset)).arm_request
    BY <2>1, TickSteps, EntersRunning
  <2>3. ~Disarmed(BuildInputs(reset))
    BY <2>2 DEF Disarmed
  <2> QED BY <1>1, <2>3, DisarmedIsLow DEF HistoryInv
<1>2. ASSUME HistoryInv, [HistoryNext]_vars
      PROVE  [state # "RUNNING" /\ state' = "RUNNING" => new_command]_vars
  BY <1>1, <1>2
<1> QED
  BY <1>2, HistoryInitInvariant, HistoryStepInvariant, PTL
  DEF HistorySpec, MotionNeedsNewCommand

\* A reset is accepted only while the safety channel is within its deadline.
THEOREM HeartbeatFirst == HistorySpec => ResetNeedsHeartbeat
<1>1. ASSUME HistoryInv, HistoryNext, record'.reset_accepted, ~record.reset_accepted
      PROVE  quiet["safety"] < WatchdogSamples
  <2>1. PICK reset \in BOOLEAN : HistoryTick(reset)
    BY <1>1
    DEF HistoryNext, HearFrame, IngestCommand, IngestEncoder, IngestSafety, bench_vars
  <2>2. Step(BuildInputs(reset)) /\ IInv'
    BY <1>1, <2>1, TickSteps, StepInvariant DEF HistoryTick, HistoryInv, AdapterInv
  <2>3. state' # "FAULT_LATCHED"
    BY <1>1, <2>2, AcceptedLeavesLatch
  <2>4. missed' < WatchdogSamples /\ missed' \in Nat /\ WatchdogSamples \in Nat
    BY <2>2, <2>3, ConfigAssumption DEF IInv, DeadlinesHold, TypeOK
  <2>5. quiet'["safety"] <= missed' + 1
    BY <1>1, <2>1, TickKeepsHistory DEF HistoryInv, SilenceCounted
  <2>6. /\ quiet["safety"] \in Nat /\ quiet'["safety"] \in Nat
        /\ quiet["safety"] <= WatchdogSamples => quiet'["safety"] = quiet["safety"] + 1
        /\ quiet["safety"] > WatchdogSamples => quiet'["safety"] = quiet["safety"]
    BY <1>1, <2>1, ElapseType
    DEF HistoryTick, HistoryInv, SilenceCounted, Channels, Deadline
  <2> QED BY <2>4, <2>5, <2>6
<1>2. ASSUME HistoryInv, [HistoryNext]_vars
      PROVE  [record'.reset_accepted /\ ~record.reset_accepted =>
                quiet["safety"] < WatchdogSamples]_vars
  BY <1>1, <1>2
<1> QED
  BY <1>2, HistoryInitInvariant, HistoryStepInvariant, PTL
  DEF HistorySpec, ResetNeedsHeartbeat

=============================================================================
