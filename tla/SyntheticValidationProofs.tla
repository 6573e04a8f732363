---------------------- MODULE SyntheticValidationProofs ----------------------
(***************************************************************************)
(* Proofs about SyntheticValidation, for every pair of files it may be     *)
(* given: what a configuration that passed both layers of validation       *)
(* guarantees.                                                             *)
(***************************************************************************)
EXTENDS SyntheticValidation, TLAPS

\* What SupervisorBench assumes of its thresholds and voltages, of one
\* configuration.
SoundConfiguration(c) ==
  /\ \A f \in ThresholdFields : c[f] \in Nat \ {0}
  /\ c.undervoltage_threshold_v \in Nat \ {0}
  /\ c.undervoltage_threshold_v < c.nominal_supply_voltage_v
  /\ c.normal_run_command_voltage_v \in 1..c.command_voltage_abs_max_v

\* The field-by-field layer: what each field of a well-formed payload is.
LEMMA WellFormedFields ==
  ASSUME NEW payload, WellFormed(payload), NEW f \in Fields
  PROVE  Admissible(f, Configuration(payload)[f])
<1>1. PICK s \in Sections : f \in RequiredFields[s]
  BY DEF Fields
<1>2. SectionOf(f) \in Sections /\ f \in RequiredFields[SectionOf(f)]
  BY <1>1 DEF SectionOf
<1>3. Admissible(f, payload[SectionOf(f)][f])
  BY <1>2 DEF WellFormed, RequiredValue
<1> QED BY <1>3 DEF Configuration

LEMMA CountedFields ==
  /\ ThresholdFields \subseteq Fields
  /\ ThresholdFields \subseteq Counts
  /\ Voltages \subseteq Fields
<1>1. \A s \in Sections : RequiredFields[s] \subseteq Fields
  BY DEF Fields
<1>2. {"synthetic_fault_thresholds", "synthetic_operating_values",
       "synthetic_operating_limits"} \subseteq Sections
  BY DEF Sections, RequiredFields
<1>3. RequiredFields["synthetic_fault_thresholds"] = ThresholdFields
  BY DEF RequiredFields
<1> QED BY <1>1, <1>2, <1>3 DEF Counts, Voltages

\* The layer that compares fields with each other closes what the first left.
LEMMA AcceptedIsSound ==
  ASSUME NEW payload, Accepted(payload)
  PROVE  SoundConfiguration(Configuration(payload))
<1> DEFINE c == Configuration(payload)
<1>1. \A f \in Counts \cup Voltages : f \in Fields => c[f] \in Int /\ c[f] > 0
  BY WellFormedFields DEF Accepted, Admissible
<1>2. \A f \in ThresholdFields : c[f] \in Nat \ {0}
  <2> HIDE DEF c
  <2> QED BY <1>1, CountedFields
<1>3. Voltages = {"nominal_supply_voltage_v", "normal_run_command_voltage_v",
                  "command_voltage_abs_max_v", "undervoltage_threshold_v"}
  BY DEF Voltages, RequiredFields
<1>4. /\ c.undervoltage_threshold_v \in Nat \ {0}
      /\ c.nominal_supply_voltage_v \in Int
      /\ c.normal_run_command_voltage_v \in Nat \ {0}
      /\ c.command_voltage_abs_max_v \in Int
  <2> HIDE DEF c
  <2> QED BY <1>1, <1>3, CountedFields
<1>5. /\ c.undervoltage_threshold_v < c.nominal_supply_voltage_v
      /\ c.normal_run_command_voltage_v <= c.command_voltage_abs_max_v
  BY DEF Accepted, Consistent
<1> QED
  <2> HIDE DEF c
  <2>1. SoundConfiguration(c)
    BY <1>2, <1>4, <1>5 DEF SoundConfiguration
  <2> QED BY <2>1 DEF c

\* Every configuration a program may hold is sound.
Sound == config # NoConfig => SoundConfiguration(config)

\* Only the loading of the files assigns the configuration.
LEMMA ConfigurationKept ==
  ASSUME [ValidationNext]_ValidationVars
  PROVE  Load \/ config' = config
<1>1. BenchRun => config' = config
  BY DEF BenchRun, BringUp, StayDisarmed, ArmAndRun, FeedSample, JudgeBench, BenchSample,
         Conclude
<1>2. AdapterRun => config' = config
  BY DEF AdapterRun, BeginScenario, PublishCommand, PublishEncoder, PublishSafety,
         RestartAdapter, TickOrReset, JudgeAdapter, Conclude
<1>3. UNCHANGED ValidationVars => config' = config
  BY DEF ValidationVars
<1> QED BY <1>1, <1>2, <1>3 DEF ValidationNext

\* Whatever the files hold - sections and fields missing, of the wrong type or
\* at odds with each other - a configuration that is loaded satisfies what the
\* supervisor's modules assume of their constants.
THEOREM LoadedIsSound == ValidationSpec => []AcceptedConfigurationIsSound
<1>1. RunInit(AnyConfig) => Sound
  BY DEF RunInit, Sound
<1>2. Sound /\ [ValidationNext]_ValidationVars => Sound'
  <2> SUFFICES ASSUME Sound, [ValidationNext]_ValidationVars PROVE Sound'
    OBVIOUS
  <2>1. CASE config' = config
    BY <2>1 DEF Sound, SoundConfiguration
  <2>2. CASE Load
    <3>1. CASE UNCHANGED config
      BY <3>1 DEF Sound, SoundConfiguration
    <3>2. CASE \E payload \in Payloads : Accepted(payload) /\ config' = Configuration(payload)
      BY <3>2, AcceptedIsSound DEF Sound
    <3> QED BY <2>2, <3>1, <3>2 DEF Load, Loadable
  <2> QED BY <2>1, <2>2, ConfigurationKept
<1>3. Sound => AcceptedConfigurationIsSound
  BY DEF Sound, SoundConfiguration, AcceptedConfigurationIsSound
<1> QED BY <1>1, <1>2, <1>3, PTL DEF ValidationSpec

=============================================================================
