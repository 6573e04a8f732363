# A TLA+ model of the robot supervisor

This directory models the safety supervisor of the repository, from its state
machine to the loop it closes: the SIM-010 software-in-the-loop bench
(`models/sil.py`), the ROS 2 transport adapter around it
(`robot_supervisor/core.py`), the process around that (`robot_supervisor/node.py`),
the simulator it talks to (`robot_supervisor_sim/node.py`), the topics between
the two processes, and the programs that judge the whole
(`models/validate_sim.py`, `robot_supervisor/generate_evidence.py`) with the
configuration they load. TLC checks the modules on small instances; TLAPS proves
the main results about the bench, the adapter, the node and the closed loop for every
configuration that the code accepts, every set of samples and frames, and every ratio of
the two timers.

Paths below are relative to the repository; `sil.py` is `models/sil.py`, and
`core.py` and `node.py` are those of `ros2_ws/src/robot_supervisor/robot_supervisor`.

## 1. Inventory

| Component | State it keeps | Operations | What makes it correct |
|---|---|---|---|
| Bench, `sil.py` `SupervisorTestBench` | supervisor state, latched faults, startup, hold, heartbeat, age and mismatch counters, encoder sequence and liveness, disarmed flag, last record | `step` | a fault forces safe outputs in its own sample; the latch is left only by an accepted reset; deadlines are inclusive; nothing held over starts motion |
| Configuration, `sil.py` `SyntheticSilConfig` | thresholds, voltages, texts | `from_mapping`, `validate` | only thresholds and voltages the bench can work with reach it |
| Adapter, `core.py` `SupervisorAdapter` | last accepted frame and sequence per channel, refreshed and violation marks, command age | `ingest_command`, `ingest_encoder`, `ingest_safety`, `tick`, `reset_tick` | silence, repeats, reordering and garbage on a channel never keep the motor running |
| Supervisor node, `node.py` `SupervisorNode`, `main` | tick count, exit request, terminal-output mark, the sample on the actuator topic | constructor, `_on_tick`, three subscriptions, `_on_reset`, signal handler, exit | the topic never holds a command the supervisor no longer stands behind |
| Simulator node, `robot_supervisor_sim/node.py` | three sequence numbers, active faults with durations, last actuator command | `_on_tick`, `_on_set_fault`, `_on_actuator` | feedback mirrors the actuator; a fault lasts as long as it was asked for; held faults stop the consumer |
| Launch files, parameters | - | which process is started, and how often | a loop left alone stays clear of faults; what a dead process left on the topic is taken back |
| Interfaces (messages, services) | - | - | - |
| Evidence, `validate_sim.py`, `generate_evidence.py` | the trace of a scenario, the failed checks | eleven and thirteen scenarios, verdict | the verdict is PASS exactly for supervisors that work, with any accepted configuration |
| Motor plant, controller, robustness, range budget (`models/*.py`) and their validators | floating-point vectors | matrix arithmetic, saturation, fixed-point ranges | numeric |

How they interact: the supervisor's timer calls `tick` of the adapter, which calls
`step` of the bench once. Subscriptions call the `ingest_*` functions between
ticks, the reset service calls `reset_tick`, which is a whole tick of its own.
Every result is published on four transient-local topics of depth one. The
simulator consumes the actuator command, and at twice the supervisor's rate
publishes encoder, safety and (if asked to) command frames; the relay feedback in its
safety frames is the actuator command it consumed last. Both executors are
single-threaded, so callbacks of one process do not overlap, but their order is
free.

What is hard here:

* *Order inside a sample.* A relay mismatch is found after the outputs have been
  computed; faults are published before the latched set is updated; a reset is
  judged by the same sample's detections.
* *Long protocols.* Startup, latch, reset, hold, liveness and the disarmed sample
  form a sequence of many samples that any request or fault may cut across.
* *Asynchrony.* Frames come in any number between ticks, repeated, late, garbled
  or not at all; resets are ticks that consume the freshness of the next one.
* *Boundaries.* Five counters with inclusive thresholds in the bench, one in the adapter.
* *Process life.* First contact, exits that take two timer callbacks, signals,
  crashes and restarts against a topic that remembers its last sample, and
  publishers that start their numbers again.
* *Two timers.* Feedback passes through two topics and two timers before it is
  compared with the command it answers; two safety frames arrive between samples
  and only the later one is seen.

`PROJECT.json` lists each hazard at its line with the properties that cover it.

## 2. Modules

| Module | Models | Builds on |
|---|---|---|
| `SafetyInterlock` | the abstract promise | - |
| `SupervisorBench` | `SupervisorTestBench.step` | refines `SafetyInterlock` |
| `BenchHistory` | the bench with history variables, and liveness | `SupervisorBench` |
| `SupervisorAdapter` | ingestion, the construction of a sample, `tick`, `reset_tick` | `SupervisorBench` |
| `AdapterHistory` | the adapter with the silence of each channel as history | `SupervisorAdapter` |
| `SupervisorNode` | the process and the actuator topic | `SupervisorAdapter` |
| `SimulatorNode` | the simulator process: publishers, injected faults, consumer | - |
| `Topology` | both processes over their topics | `SupervisorNode`, `SimulatorNode` |
| `SilConfiguration` | `SyntheticSilConfig`, the motor's parameter file | - |
| `ScenarioRuns` | what both generators of evidence share; a supervisor per configuration | `SilConfiguration`, instances of `SupervisorAdapter` |
| `BenchScenarios`, `AdapterScenarios` | the scenarios and checks of `validate_sim.py` and of `generate_evidence.py` | `ScenarioRuns` |
| `SyntheticValidation` | both from the files to the verdict | the two above |
| `*Proofs` | theorems about the module of that name | that module; `TopologyProofs` also `SupervisorNodeProofs` |
| `MC*` | instances for TLC: sets of samples, frames, injections and files | the module of that name |

### SupervisorBench

One `step` call is one step of the specification. `Validated` and
`InvalidFaults` are `_validate_runtime_inputs`: every field may be malformed on
its own, and an argument that is no sample at all is the input `Malformed`.
`Sample` is the encoder, the watchdog and the age keeping. `Detected` is
`_detect_primary_faults`. The remaining work is one action per branch:
`LatchFault`, `HoldFault` and `AcceptReset` for faults; `AdvanceStartup`,
`AdvanceReady`, `AdvanceRunning` and `AdvanceShutdown` for the four other states,
each with the relay, the H-bridge and the final gate of the same call (`Run` and
its three cases in RUNNING, `KeepSafe` elsewhere).

Abstractions:

* Voltages are integers: only sign and order matter.
* The motor plant (position, speed, current) influences no decision and is left out.
* `encoder._sequence` against `_last_encoder_sequence` is a relation with three
  values, because the code only asks whether they differ.
* A counter that the code compares only with its threshold stops there (`Bump`).
  The comparison stays exact and the state finite.
* The telemetry and fault channels are the last record, with the codes for
  which it published a `LATCHED` event.

### SupervisorAdapter

Three `Ingest*` actions and `Tick`. A sequence number enters as its difference
from the last accepted one (-1, 0, 1, or malformed), which is all
`_classify_sequence` looks at. `BuildInputs` follows `_build_inputs` field by
field, including what it does to malformed values: passed through, negated only
if Boolean, or coerced by `bool`; `Falsy` is a malformed value that is false in a
condition. The command's age stops at its threshold. `_updated_since_tick` is kept
for the two channels whose flag is read.

### SupervisorNode

`process` is the life of the process; `Start` is its construction, after an exit
or a crash a restart; it reads the launch parameter
`synthetic_exit_after_ticks` from `ExitChoices`. `_on_tick` is four actions, one
per path through it: `FinishExit`, `AwaitTelemetry`, `OrdinaryTick`, `ExitTick`.
`OnReset` is the service, `OnMessage` a subscription, `OnSignal` the signal
handler, which ends the process in one step because the handler runs in the
executor's thread and takes the context down (an end by an exception is not modelled, section 6). `Crash` is external: the death of
the process with nothing published. `actuator` is the one sample the depth-one
transient-local topic keeps. In this module messages are any frames at any time:
it covers every rate, loss and publisher.

### SimulatorNode

`SetFault` and `ClearFault` are the fault service with its durations, `Remaining` is
the countdown, `SimulatorTick` is `_on_tick`: what it publishes (`Published`), what
it adds to the three numbers and what is left of each fault. `OnActuator` is the
consumer, `SimulatorStart` and `SimulatorEnd` the life of the process. A number is
kept relative to the last one the supervisor accepted; only the code's
`max(0, sequence - 1)` needs to know where zero is, and `pristine` does.

### Topology

`SupervisorNode` and `SimulatorNode` with one message per topic under way. The
shipped periods (20 ms and 10 ms) give two simulator ticks between two supervisor
ticks (`MinBurst`, `MaxBurst`); a message arrives before the next one is published
on its topic, and the three topics deliver in the order of publication. Each
supervisor action is the one of `SupervisorNode` with its effect on the topics, so
`SupervisorTick` still is all four paths of `_on_tick`. The reset service may be called
at any time and any number of times (`SupervisorReset` is `OnReset` with nothing added to its
guard). A simulator that starts again has its numbers behind those it published before, on each
channel by a distance of its own (`RestartLags`). The
end of a process takes its volatile messages with it, an exit from within the timer callback
like a signal or a crash; the end of the supervisor may also take the actuator command that
was under way. `disturbances`, `reset_served`, `estop_owed` and `estop_ticks` are history: how
much was injected or lost, whether the reset service was called since the supervisor started, and
the E-stop that is still to be latched. Only the bound on `disturbances` takes part in a guard.

### SilConfiguration, ScenarioRuns, BenchScenarios, AdapterScenarios, SyntheticValidation

`SilConfiguration!Accepted` is `from_mapping` and `validate` on a payload in which any
section or field may be missing, of the wrong type, out of its range or in conflict with
another. Voltages are in units of 1/20 V, enough for the tenths the scenarios
subtract. `ScenarioRuns` loads a configuration and gives every scenario a new
supervisor, an instance of `SupervisorAdapter` for the configuration at hand, so
the evidence runs against the same model of the supervisor that the other runs check.
The scenarios are data: a list of samples or of harness calls, followed by checks
over the trace of published records. The checks repeat those of the code one for one.

### Operators that are wrong on purpose

An operator whose comment begins with "Wrong:" is not part of the model: no
definition refers to it. Each repeats the definition after it with one plausible
mistake, and each was put in that definition's place to see the property it is
listed with in `PROJECT.json` fail. This is how we know that the
properties depend on the code's guards, and not on the shape of the model.

## 3. Runs

| Run | Question | Instance |
|---|---|---|
| `bench_telemetry` | Are outputs, latch, deadlines and fault channel right after every sample, and does the bench implement `SafetyInterlock`? | six requests, eight deviations of the telemetry |
| `bench_history` | Over sequences of samples: how soon can motion return and how late can READY, can a held request start it, how long can a silent source be driven on, can anything unsound run or reset? Does a healthy system recover, and does silence stop the motor? | four requests, five deviations, two malformed fields, no sample at all |
| `bench_encoder_liveness` | Is a healthy new sequence the only source of liveness? No. | as `bench_history` |
| `adapter_order` | Can any loss, repeat, reordering or garbling on a channel keep the motor running or start it? | two command frames, two safety frames, one encoder frame; one unreliable channel |
| `adapter_malformed` | Does every malformed field latch a fault in the sample that reads it? Does an unhealthy relay block the reset? | one malformed field per frame, all thresholds but the relay's 1 |
| `node_life` | What is on the topic while the process lives, ends and restarts? Can it move before first contact? Do exits complete, do stale commands end? | exits after 0 (never) or 2 ticks |
| `node_exit` | Is a safe command the last word of every orderly exit? No. | exit after 5 ticks |
| `node_contact` | Does the bench wait for first contact? No. | - |
| `topology` | Both processes together: can a quiet loop fault, can an E-stop be overwritten or latched late, can the relay be on without a running supervisor? | one E-stop of three samples, or one end of the simulator, back with numbers 2, 3 and 1 behind; thresholds 2 (command 1) |
| `topology_liveness` | The same loop, fair: does a fault that stays switch the consumer off for good, is a publisher that starts again heard, does a restarted supervisor disarm what its predecessor left? | a silent encoder, held, or the same end of the simulator; thresholds 1 (relay 2) |
| `topology_crash` | Does the crash of the supervisor disarm the consumer? No. | nothing injected or lost; thresholds 2 |
| `validation` | Which configuration files are accepted, and for which of those do the twenty-four scenarios pass? | the shipped files, other numbers, one defect |

Every run is exhaustive for its instance. Thresholds are 1 to 3: the smallest
values for which "below" and "at" the inclusive threshold are different samples,
and for the watchdog and the encoder age of `bench_telemetry` 3, so that both
counters can be strictly between zero and their limits at once. In `adapter_order`
the encoder's threshold is 1 to keep the product of three channels small;
`node_life` and `topology` use 2 (`topology` but for the command). `bench_history` has a startup of one sample and a shutdown
hold of two, so that the two bounds on the way back to motion differ. Exit after 5 ticks leaves room to reach RUNNING with
timer ticks alone before the exit; the limit of 2 in `node_life` is enough for its
question, because resets are ticks that do not count towards the limit.
Supply values above (`bench_telemetry`), at and just below the threshold
(`bench_history`), one voltage at the limit
and one beyond its negative are enough because the code only compares them.
A channel's frames differ only where the adapter or the bench would act
differently; the sets of frames of the `topology` runs are all a simulator can publish.

In `adapter_order` one channel, chosen initially, is `unreliable`: its frames may
repeat, come late or carry no valid sequence. The other two deliver in order or
fall silent. Two channels misbehaving in this way at once are not explored by TLC;
the proofs about `AdapterHistory` have no such bound.

In the `topology` runs `MinBurst` = `MaxBurst` = 2 is the ratio of the shipped periods.
Resets, signals, crashes and restarts of the supervisor are free in all of them, and the command
is to move or to disarm, chosen anew at every tick of the simulator. `MaxDisturbances` = 1 allows
one injected fault or one end of the simulator per behaviour; faults in combination come as samples in the
bench's runs. What else may happen is split over two runs, because the product is too large:

* `topology` injects an E-stop of three samples, the shortest that cannot fall between two
  samples of the supervisor. The theorems about the same properties (section 5) have all thirteen
  faults, any duration, any number of them at once, any ratio of the timers and any distance of a
  restarted publisher.
* `topology_liveness` injects one fault to stay: the encoder's channel falls silent, which is found
  by a count and not in the frame. The far end stops in the same way for the others: that no fault
  leaves the bench driving is `FaultForcesSafeOutput`, that the relay of the simulator is on only
  for a bench that drives is `MotorFollowsSupervisor`, and both are theorems for all faults. What
  they leave open, that the bench finds a held fault at last, is checked for this one.

In both a simulator that ended comes back with numbers two (command), three (encoder) and one
(safety) behind the accepted ones: frames out of order, then a repeated one, then accepted
ones. Nothing is injected in such a behaviour, so the restart alone violates the protocol; two
out-of-order frames in a row are enough for a mark to be set, consumed by a sample and set again,
and the mutant of `RestartedPublisherIsHeard` is a mark that is never consumed.

Thresholds of 1 keep the liveness run small. They make the supervisor latch sooner, and more often,
than the shipped ones do.

In `validation` the configurations are the shipped ones, every combination of
thresholds 1 to 3 (the shutdown hold 1 and 2), voltages on both sides of every
comparison that `validate` and the scenarios make, and each field in turn malformed,
zero, absent or wrong. `CHECK_DEADLOCK` is off there because a program that has
written its report has ended. It is on everywhere else: a supervisor can always be
stepped, and a process that ended can always be started again.

### Fairness

`BenchHistory!FairSpec` assumes weak fairness of the step: the timer that calls it
keeps running. Nothing is assumed of the inputs; the liveness properties state
their own premises about them. `FairNodeSpec` assumes weak fairness of `OnTick`,
the timer callback of a process that stays up, and nothing of messages, resets,
signals or restarts: `create_timer` in `node.py` gives a periodic timer, and the
single-threaded executor serves a ready timer. It is enabled as long as the
process is alive, so weak fairness is enough.

In `Topology`, weak fairness of `LoopRuns` says that timers keep firing and what was
sent arrives. It is one condition on the disjunction, which is enough because the
guards make them alternate: no timer can fire before the messages of the tick before
are delivered. `LaunchSpec` adds that the supervisor is started once, as
`simulated_topology.launch.py` does (it has no respawn); this constrains what happens,
it does not add fairness. Nothing is assumed of restarts: the liveness properties of
`topology_liveness` speak of a supervisor that stays up at last, as the one that
`test_ros2_010_restart_launch.py` starts again does.

### What the runs found

Four statements of the documentation and requirements are not what the code does;
`PROJECT.json` quotes them with their lines.

* *First contact* (`node_contact`, `NoSampleBeforeContact`). Only the timer callback waits for both
  telemetry owners. A reset request served earlier takes a sample.
  `MotionNeedsContact` shows what remains true: such samples never move the motor.
* *Last word* (`node_exit`, `LastWordIsSafe`). After the last test tick, the exit waits for the next
  timer callback. A reset served in between takes a sample in RUNNING and publishes
  an enabled command; then the process ends.
* *Liveness* (`bench_encoder_liveness`, `LivenessFromHealthyAdvance`). The encoder's sequence advances during a
  failed sample. If the first healthy sample afterwards repeats the number, the
  bench still takes it as an advance and establishes liveness. It takes a healthy
  baseline first, so a dead encoder cannot do this; one that failed in between can.
* *Crash* (`topology_crash`, `CrashDisarms`). A killed supervisor publishes nothing, and the consumer
  has no deadline of its own: its relay stays on until another supervisor speaks. SW-005
  asks for the opposite of a process that is lost.

Smaller observations, which no run fails on:

* The age of the encoder stands still in a failed or invalid sample, and the first sample
  after a failed one may take an old advance for a new one and set it to zero. With an encoder
  threshold of four this is enough for a reset and a way back to RUNNING on a frame that is
  overdue (found with TLC, with failed and out-of-order encoder frames; not kept as a run). With
  the shipped three it is not, and that is a theorem (`SilenceBounded`).
* In the same way, with a watchdog threshold of five a series of resets alone reaches
  motion before the safety owner was ever heard; with four or fewer it does not
  (`ContactFirst`); three is shipped.
* Every reset is a sample, whenever it is served, and consumes the freshness the next timer
  sample would have used: as many resets within one gap as the watchdog's threshold are as many
  samples without a heartbeat, and latch it in a loop with nothing injected. With a relay
  threshold of two, one reset that enters RUNNING just before the timer's sample counts a mismatch
  too many. This is why `QuietLoopStaysClear` speaks of a supervisor whose reset service was not
  called yet. It latches and never runs on (`UnheardDriveIsBounded`, `MotorFollowsSupervisor`
  hold with any resets).
* An unhealthy relay is noticed only where the relay is commanded for
  `relay_feedback_mismatch_samples` in a row. Runs shorter than that can be repeated for
  ever without a latch; the motor is inhibited in each of those samples.
* A restarted publisher violates the protocol until its numbers pass those of its
  predecessor, which for the program, whose numbers start at 1, may be a long time;
  `RestartedPublisherIsHeard` shows that it then works again.
* Retained safety frames are compared with later relay commands. At the shipped rates this
  counts no mismatch that latches (`QuietLoopStaysClear`), and `QuietLoop` shows at which other rates.
* The generators of evidence report FAIL or stop with an error for some configurations that
  `validate` accepts and the supervisor handles well: an undervoltage threshold
  below 0.1 V in both; and in `generate_evidence.py` more than two startup samples, an
  undervoltage threshold above 6 V, a command limit other than 6 V, and thresholds of
  1, which have no sample N - 1. `BenchValidationVerdict` and `AdapterEvidenceVerdict` state
  exactly which.
* Malformed Booleans, which the ROS types cannot carry, are coerced by `_build_inputs` (`core.py`):
  a malformed validity may look valid, and a malformed relay position turns the meaning of the
  health field around.

## 4. Properties worth pointing out

* `FaultForcesSafeOutput` is the pair of run-time assertions at the end of `step`, with `SafeOutput`
  the relay command and the motor command off (`TelemetryRecord.safe_output`).
* `ImplementsInterlock`: the bench, seen as one of five interlock positions and a
  motor that is on or off, refines `SafetyInterlock`. The mapping is
  `InterlockMode`; READY splits into *waiting* and *armed* by the disarmed sample.
* `FaultLogReplays`: the fault channel, replayed, gives the latched set.
* `RestartTakesItsTime`, `RelayStaysOff`, `HeldRequestStartsNothing` speak about
  sequences of samples, and are stated over the history of published records and
  inputs, never over the bench's counters. The first two are exact, each at its own hold: a fault
  is always followed by the shutdown hold (`RestartSamples` = `ShutdownSamples` + 3), a start
  without one by the startup (`StartupSamples` + 3), and the relay, once it was on, stays off for
  `ShutdownSamples` + 2. `bench_history` keeps the two holds apart; with a bound one higher TLC
  finds either property violated, whichever hold is the longer.
* `RecoveryTakesBoundedTime` is the other side of these: from the sample with a reset request on,
  calm samples lead to READY within `RecoverySamples` (one more than the longer of the startup and
  the hold), whatever the bench was in the middle of. The bound is sharp.
* `UnheardDriveIsBounded`: between two new encoder sequences, or two heartbeats, the relay is on
  for fewer samples than the deadline *in all*, however many latches, resets and new runs lie
  between them. Unlike `SilenceIsBounded` it holds for every threshold: where the
  age of the encoder stands still, the relay is off.
* `SilenceIsBounded`: each publisher's silence is counted from accepted frames, and from
  the construction before the first; RUNNING implies that none exceeds its deadline.
* `TopicFollowsSupervisor`: an enabled command on the topic of a live process is the
  one of its supervisor's last record, in RUNNING, with nothing latched; also for a
  process that follows a crashed one.
* `EstopIsNotLost`: an E-stop that lasts longer than a burst is still injected, on its way
  or in the retained frame until it is latched; no later safety frame overwrites it unseen.
  `estop_owed` is the debt: such an injection makes it, provided a supervisor that has heard
  both owners listens, the publisher's numbers are not behind and nothing is injected
  into the safety channel; a latch, the end of a process, a clearance, a shorter
  E-stop in its place and a fault of the safety channel itself cancel it.
* `EstopLatchesInTime`: such an E-stop is latched within `MaxBurst` + 1 ticks of the simulator,
  counted in `estop_ticks`. The first frame that carries it may be under way during one timer
  sample, and the next one finds it. `EstopIsNotLost` alone would allow an E-stop that is for
  ever about to arrive; together with `MotorFollowsSupervisor` this one bounds how long the
  motor of the far end can run on. The bound is sharp.
* `MotorFollowsSupervisor`: the two ends of the actuator topic agree. While a supervisor lives and
  no newer command is on its way, the relay of the simulator is on only if *this* supervisor is in
  RUNNING, latches nothing and has a command of its own life, whoever ran before it.
* `HeldFaultStopsMotor`: a fault that stays injected switches the consumer's relay off for
  good, through both timers, whatever is commanded and reset meanwhile.
* `QuietLoopStaysClear`: nothing injected, nothing latched, whenever the supervisor is
  killed and started, as long as nobody has called the reset service of the one that lives. A
  reset is a sample more in its gap and may latch (section 3).
* `RespawnDisarms`: a relay that stays on for good is one that a supervisor in RUNNING keeps on,
  once one stays up; what a crashed one left on is switched off.
* `RecoveryPossible`: once samples stay calm and resets keep coming, the bench ends
  up in READY for good.

## 5. Proofs

The theorems hold for all constants that satisfy the named assumptions of the modules:
`ConfigAssumption` and `InputAssumption` of `SupervisorBench`, `AdapterAssumption`,
`NodeAssumption`, `SimulatorAssumption`, `TopologyAssumption`. The first four are what `SyntheticSilConfig.validate` enforces (positive
thresholds, an undervoltage threshold below the nominal supply), that inputs are
samples or `Malformed`, and that frames are frames. They are weaker than any instance
above. `SimulatorAssumption` and `TopologyAssumption` say that injections name supported faults,
that the frames and numbers of the simulator are among those the supervisor may get, and that a
burst has at least one tick and at most `MaxBurst`; the ratio of the timers, `MaxBehind`, the
distances in `RestartLags` and `MaxDisturbances` are otherwise arbitrary. `LoadedIsSound` closes the circle: every configuration that is loaded,
whatever the files hold, satisfies `ConfigAssumption`.

| Module | Theorem | Result |
|---|---|---|
| `SafetyInterlockProofs` | `InterlockMotor` | the motor turns only while driving; with the refinements, everything below inherits it |
| `SupervisorBenchProofs` | `BenchInvariant`, `BenchTypes` | `[]IInv`, `[]TypeOK` |
| | `SafeOutputUnderFault` | `[]FaultForcesSafeOutput` |
| | `ConfirmedDrive` | `[]DriveIsConfirmed` |
| | `Deadlines` | `[]DeadlinesHold` |
| | `LivenessFirst` | `[]ReadyNeedsLiveness` |
| | `LatchAgrees` | `[]LatchMatchesState` |
| | `FaultLog` | `FaultLogReplays` |
| | `LatchExits` | `LatchEndsInSafeShutdown` |
| | `Refinement` | `ImplementsInterlock` |
| `BenchHistoryProofs` | `RestartTime`, `RelayOffTime` | `[]RestartTakesItsTime`, `RelayStaysOff` |
| | `HeldRequest` | `[]HeldRequestStartsNothing` |
| | `ResetConditions`, `RunningIsSound` | `[]ResetInterlock`, `[]RunningNeedsSoundInput` |
| | `RecoveryTime`, `UnheardDrive` | `[]RecoveryTakesBoundedTime`, `[]UnheardDriveIsBounded` |
| `SupervisorAdapterProofs` | `AdapterTypes` | `[]AdapterTypeOK` |
| | `ViolationsLatch`, `MalformedFramesFault` | `ViolationLatches`, `MalformedFrameFaults` |
| | `HealthyRelayFirst` | `ResetNeedsHealthyRelay`, if no frame has a malformed relay position |
| | `AdapterRefinement` | `ImplementsInterlock` |
| `AdapterHistoryProofs` | `SilenceBounded` | `[]SilenceIsBounded`, if `EncoderStaleSamples <= 3` |
| | `EncoderFramesFirst` | `[]ReadyNeedsEncoderFrames` |
| | `NewCommandFirst`, `HeartbeatFirst` | `MotionNeedsNewCommand`, `ResetNeedsHeartbeat` |
| `SupervisorNodeProofs` | `NodeTypes`, `TopicFollows`, `SignalledEnd` | `[]NodeTypeOK`, `[]TopicFollowsSupervisor`, `[]SignalledEndIsSafe` |
| | `ContactFirst` | `[]MotionNeedsContact`, if `WatchdogSamples <= 4` |
| | `NodeRefinement` | `ImplementsInterlock` |
| `TopologyProofs` | `TopologyRefinesNode` | `TopologySpec => NodeSpec`: what is proved of the node holds in the loop |
| | `TopologyInterlock` | `ImplementsInterlock` |
| | `TopologyTypes` | `[]TopologyTypeOK` |
| | `MotorFollows` | `[]MotorFollowsSupervisor` |
| | `EstopKept`, `EstopInTime` | `[]EstopIsNotLost`, `[]EstopLatchesInTime` |
| | `QuietLoop` | `[]QuietLoopStaysClear` (before a reset is served), under `QuietSetting` |
| `SyntheticValidationProofs` | `LoadedIsSound` | `[]AcceptedConfigurationIsSound` |

`QuietSetting` says that the commands the simulator is configured to publish are numbers, that its
supply is not below the threshold, and, only if a single simulator tick may fall
between two samples (`MinBurst` = 1), that the three sample thresholds are at least two. At the
shipped rate (`MinBurst` = 2) no threshold is constrained, and the shipped
thresholds (3, 3 and 2) would also do at equal rates: a faster supervisor timer, up to the
simulator's period, cannot make a healthy loop latch. Nothing is said of a supervisor once its reset
service was called, where a healthy loop can latch at any thresholds.

The other conditions in the table are the code's own, and exact: TLC finds the property violated
with a threshold of four for the encoder, and of five for the watchdog. A malformed relay
position turns the meaning of the health field around, and the ROS message admits none.

### The argument

*Bench.* The inductive invariant `IInv` is the conjunction of the type invariant and the
state invariants the runs check, which support each other, with one strengthening,
`StartupPending`: in SAFE_STARTUP the count of healthy samples is still below its
threshold. The code puts no cap on that count; without this part a state in
SAFE_STARTUP with a full count would satisfy the type invariant and a sample would
count beyond it, and a sample that sees no encoder advance could find the count
full and enter READY. `StepInvariant` shows that one sample preserves the invariant and
`StepMoves` that it is a move of the interlock, one step per action of
the bench, with lemmas for what `Detected`, `Clipped` and `Bump` return. Both hold
for any sample, whichever caller built it.

*Histories of the bench.* The histories are tied to the counters the code has: `calm`, `dark`
and the disarmed sample are at least what the hold, the startup count and
`disarmed_seen` say they are, in each of the five states (`CalmStages`, `DarkStages`). `faulted` and
`driven` decide which hold it was: SAFE_STARTUP is only ever left behind, so a bench that
latched or drove once can return by the shutdown hold alone. The two upper bounds compare the other
way round. `DriveCounted`: the samples driven on a silent source are at most the bench's own
counter for it, which no latch or reset takes anything off; only an encoder with an advance that
was not looked at yet starts over, and that one was not driven on since. `EncoderLooked`
says that there is no such advance in READY, RUNNING or SAFE_SHUTDOWN. `RecoveryCounted`:
`recovering` is at most one more than the hold or the startup count of the state at hand, and
a latched bench accepts the reset of a calm sample.

*Adapter.* A tick is a step of the bench on the sample that `BuildInputs` returns, so the
adapter's invariant `AdapterInv` is `IInv` with the adapter's types and two facts
about what it has heard: `FramesKnown` (encoder liveness takes an encoder frame, RUNNING a
command frame) and `UnheardOwner` (as long as the safety owner was never heard, every step
towards RUNNING costs a sample that misses a heartbeat, four in all, which is where the limit
of four comes from).

*Histories of the adapter.* Silence is compared with the three counters that are to bound it:
the watchdog's runs along with it, the command's does from the first command on, and
the encoder's lags behind by the samples that failed and did not age it. The lag is
bounded by what a latch, a reset and a restart can leave uncounted; with a threshold of
three it cannot outlast the deadline.

*Node.* `NodeInv` adds what the life of the process needs: the test exit that is
pending, and what was already published on the way out. A crash or restart
constructs a new adapter, which satisfies the invariant initially and is, for the
interlock, a stop, a release or nothing.

*Topology.* `LinksInv` types the links: a message carries its publisher's number or the one
before it, a number is at most one ahead of what the supervisor accepted once its message was
taken, and a link is empty unless both of its ends live. With it every delivery is an
ingestion that `SupervisorNode` allows, which is `TopologyRefinesNode`: each
action of the topology is an action of the node or leaves it alone.
`TopologyInv` adds `ConsumerFollows`, the relation of the consumer to the actuator topic, and
`MotorFollows` follows with the node's own `TopicFollows`.
`EstopInv` says of each owed E-stop where it is: still injected with more ticks left than the
burst can have (`Lasting`), in the frame under way, or in the retained frame. The tick of the
simulator that ends the injection leaves it in the last frame published before the
supervisor's sample, and that sample latches it. `Timely` counts: the frame of the first tick is
under way or retained, from the second tick on one is retained, and so a sample that does not latch
leaves a count of at most one, from which the rest of a burst reaches `MaxBurst` + 1.
`QuietInv` is the loop without injections, until a reset is served: every message is the one after the last accepted one
(`QuietLinks`), holds good telemetry (`QuietFrames`), each channel is fresh again before the
second sample (`Fresh`), and the relay feedback in the retained or coming frame mirrors
the relay, but for one sample after it changed (`Mirrored`). The case `MinBurst` = 1 is
where that sample falls between two safety frames, and where the thresholds matter.

### Model-checked only

Every safety invariant and action property of the passing runs is a theorem (`AdapterTypeOK` and
`NodeTypeOK` are checked as parts of `TopologyTypeOK`; `LatchEndsInSafeShutdown` is proved
only: of its conjuncts the runs check what `ImplementsInterlock`, `DeadlinesHold` and `ResetInterlock`
say), except
the two verdicts of `SyntheticValidation`: they are computations over concrete scenarios,
which TLC evaluates. Liveness under fairness (`RecoveryPossible`, `SilenceStopsMotor`,
`ExitCompletes`, `StaleCommandDisarms` and the three of `topology_liveness`) is out of the provers' reach.
The bounds behind two of them are theorems all the same: once samples are taken,
`RecoveryTime` says by which of them READY is reached, and `UnheardDrive` how many a silent source can be
driven for.

## 6. What is not modelled

* The motor plant, controller, observer, robustness and range-budget models
  (`dc_motor.py`, `control.py`, `robustness.py`, `range_budget.py`) and their four validators
  (`validate_model.py`, `validate_controller.py`, `validate_robustness.py`,
  `validate_range_budget.py`). They are floating-point numerics without a protocol: what could
  be wrong in them is a bound on reals or a numerical tolerance, which neither TLC
  nor the provers here can evaluate. Their few branches (saturation, anti-windup)
  choose between real-valued updates; modelled over small integers they would be
  restated guards.
* The second pass of both evidence generators, made to compare it with the first, repeats a
  deterministic computation. Writing and formatting reports is left out.
* Diagnostics, dispositions, reasons and log texts: nothing reads them back, except the
  encoder's disposition, which the scenarios check and the model keeps.
* The end of the supervisor by an exception that leaves `spin`. The `finally` clause of `main`
  publishes a safe command as well, but spins once more after it, and the callback that this may
  serve publishes after the safe command. `OnSignal` is the end by SIGINT or SIGTERM only.
* Real time: ticks are the only clock, as in the code. Timer jitter, and with it any other
  ratio of ticks, is covered by `SupervisorNode` (any frames between any ticks), and in
  the proofs about `Topology` by `MinBurst` < `MaxBurst`; none of its runs has it.
* Unbounded lists of telemetry and faults are reduced to their last entry.
* Launch files and parameters appear as constants: which processes are started, how often,
  and with which periods.
* `src/`, `rtl/`, `hardware/` and `constraints/` hold placeholders.

## 7. Plan

In order of importance. Steps 1 to 8 are done.

| Step | Modules | Composes | Runs | Theorems |
|---|---|---|---|---|
| 1 | `SupervisorBench`, `SafetyInterlock`, `BenchHistory` | - | the three `bench_*` runs | all state and action properties |
| 2 | `SupervisorAdapter`, `AdapterHistory`, `SupervisorNode` | bench in adapter in node | `adapter_*`, `node_*` | see step 5 |
| 3 | `SimulatorNode` | - | in the `topology` runs | - |
| 4 | `Topology` | 2 and 3 | `topology`, `topology_liveness`, `topology_crash` | - |
| 5 | proofs about histories, adapter and node | - | - | all but liveness |
| 6 | `SilConfiguration`, the scenarios, `SyntheticValidation` | adapter and bench per configuration | `validation` | `LoadedIsSound` |
| 7 | proofs about `Topology` for any ratio of the timers | node and simulator | `topology` | all but liveness |
| 8 | upper bounds: recovery, drive on a silent source, latching of an E-stop | `BenchHistory`, `Topology` | `bench_history`, `topology` | `RecoveryTime`, `UnheardDrive`, `EstopInTime` |
| 9 | saturation, anti-windup and fixed-point range operators | - | - | dropped, see section 6 |
