--------------------------- MODULE SilConfiguration ---------------------------
(***************************************************************************)
(* What becomes of the two configuration files of SIM-010 and ROS2-010:    *)
(* SyntheticSilConfig.from_mapping and validate of models/sil.py, and      *)
(* build_motor_model of models/validate_sim.py.                            *)
(*                                                                         *)
(* A payload maps the sections that are there to the fields that are       *)
(* there.  Only acceptance is told apart, not which complaint is raised    *)
(* first.  Voltages are counted in units of 1/20 V.  A text is the one     *)
(* that is demanded, "required", or "other"; Malformed stands for a value  *)
(* of the wrong type, a blank text, a number that is not finite, a Boolean *)
(* in the place of a number and a fraction in the place of a count.        *)
(***************************************************************************)
EXTENDS Integers

CONSTANT Malformed

Volt == 20
TenthOfVolt == Volt \div 10

Texts == {"required", "other"}

-----------------------------------------------------------------------------
(* The fields.                                                             *)

ThresholdFields ==
  {"safe_startup_healthy_samples", "safe_shutdown_hold_samples",
   "watchdog_missed_heartbeat_samples", "encoder_stale_samples",
   "relay_feedback_mismatch_samples"}

RequiredFields ==
  [configuration |-> {"test_bench_id", "status", "provenance",
                      "coefficient_freeze_readiness", "fixed_point_conversion_readiness"},
   synthetic_plant |-> {"motor_parameter_file", "motor_parameter_set_id",
                        "opposing_load_torque_nm"},
   synthetic_operating_values |-> {"nominal_supply_voltage_v", "normal_run_command_voltage_v"},
   synthetic_operating_limits |-> {"command_voltage_abs_max_v", "undervoltage_threshold_v"},
   synthetic_fault_thresholds |-> ThresholdFields,
   synthetic_interfaces |-> {"encoder_counts_per_revolution", "telemetry_channel",
                             "fault_channel"}]

Sections == DOMAIN RequiredFields
Fields == UNION {RequiredFields[s] : s \in Sections}

Counts == ThresholdFields \cup {"encoder_counts_per_revolution"}
Voltages == RequiredFields["synthetic_operating_values"] \cup RequiredFields["synthetic_operating_limits"]

\* The checks of _required_text, _synthetic_positive_int,
\* _synthetic_positive_float and _synthetic_nonnegative_float.
Admissible(field, value) ==
  IF field \in Counts \cup Voltages THEN value \in Int /\ value > 0
  ELSE IF field = "opposing_load_torque_nm" THEN value \in Int /\ value >= 0
  ELSE value \in Texts

-----------------------------------------------------------------------------
(* from_mapping and validate.                                              *)

RequiredMapping(payload, section) == section \in DOMAIN payload /\ payload[section] # Malformed

RequiredValue(section, values) ==
  \A f \in RequiredFields[section] : f \in DOMAIN values /\ Admissible(f, values[f])

WellFormed(payload) ==
  \A s \in Sections : RequiredMapping(payload, s) /\ RequiredValue(s, payload[s])

SectionOf(field) == CHOOSE s \in Sections : field \in RequiredFields[s]

\* The SyntheticSilConfig of a well-formed payload.
Configuration(payload) == [f \in Fields |-> payload[SectionOf(f)][f]]

\* The texts that validate compares with the one it demands.
DemandedTexts ==
  {"status", "test_bench_id", "provenance", "telemetry_channel", "fault_channel",
   "coefficient_freeze_readiness", "fixed_point_conversion_readiness"}

\* Wrong: a threshold at the nominal supply passes.
ConsistentInclusive(c) ==
  /\ \A f \in DemandedTexts : c[f] = "required"
  /\ c.undervoltage_threshold_v <= c.nominal_supply_voltage_v
  /\ c.normal_run_command_voltage_v <= c.command_voltage_abs_max_v
  /\ c.encoder_counts_per_revolution >= 4

Consistent(c) ==
  /\ \A f \in DemandedTexts : c[f] = "required"
  /\ c.undervoltage_threshold_v < c.nominal_supply_voltage_v
  /\ c.normal_run_command_voltage_v <= c.command_voltage_abs_max_v
  /\ c.encoder_counts_per_revolution >= 4

Accepted(payload) == WellFormed(payload) /\ Consistent(Configuration(payload))

-----------------------------------------------------------------------------
(* The motor's parameter file.                                             *)

MotorParameters ==
  {"armature_resistance_ohm", "armature_inductance_h", "torque_constant_nm_per_a",
   "back_emf_constant_v_per_rad_s", "rotor_inertia_kg_m2", "viscous_friction_nm_s_per_rad"}

PositiveNumber(values, field) ==
  field \in DOMAIN values /\ values[field] \in Int /\ values[field] > 0

\* build_motor_model, up to the discretisation of an accepted model.
MotorAccepted(motor) ==
  /\ motor # Malformed
  /\ \A f \in {"parameter_set_id", "status", "provenance"} :
       f \in DOMAIN motor /\ motor[f] \in Texts
  /\ motor["status"] = "required"
  /\ PositiveNumber(motor, "sample_period_s")
  /\ "parameters" \in DOMAIN motor /\ motor["parameters"] # Malformed
  /\ \A f \in MotorParameters : PositiveNumber(motor["parameters"], f)

\* The bench runs on the motor its configuration names.
SameMotor(payload, motor) ==
  Configuration(payload).motor_parameter_set_id = motor["parameter_set_id"]

Loadable(payload, motor) ==
  Accepted(payload) /\ MotorAccepted(motor) /\ SameMotor(payload, motor)

=============================================================================
