------------------------ MODULE MCSyntheticValidation ------------------------
(***************************************************************************)
(* Instances of SyntheticValidation for TLC: the shipped files, files that *)
(* differ in their numbers, and files with one defect.                     *)
(***************************************************************************)
EXTENDS SyntheticValidation, TLC

\* models/parameters/synthetic_sim_010.json
Shipped ==
  [configuration |->
     [f \in RequiredFields["configuration"] |-> "required"],
   synthetic_plant |->
     [motor_parameter_file |-> "required", motor_parameter_set_id |-> "required",
      opposing_load_torque_nm |-> 0],
   synthetic_operating_values |->
     [nominal_supply_voltage_v |-> 6 * Volt, normal_run_command_voltage_v |-> 2 * Volt],
   synthetic_operating_limits |->
     [command_voltage_abs_max_v |-> 6 * Volt, undervoltage_threshold_v |-> 90],
   synthetic_fault_thresholds |->
     [safe_startup_healthy_samples |-> 2, safe_shutdown_hold_samples |-> 2,
      watchdog_missed_heartbeat_samples |-> 3, encoder_stale_samples |-> 3,
      relay_feedback_mismatch_samples |-> 2],
   synthetic_interfaces |->
     [encoder_counts_per_revolution |-> 4096, telemetry_channel |-> "required",
      fault_channel |-> "required"]]

With(section, values) == [Shipped EXCEPT ![section] = values @@ @]

Thresholds ==
  {With("synthetic_fault_thresholds", t) :
     t \in [safe_startup_healthy_samples : {1, 2, 3}, safe_shutdown_hold_samples : {1, 2},
            watchdog_missed_heartbeat_samples : {1, 2, 3}, encoder_stale_samples : {1, 2, 3},
            relay_feedback_mismatch_samples : {1, 2, 3}]}

VoltagesAround ==
  {[With("synthetic_operating_limits",
         [undervoltage_threshold_v |-> u, command_voltage_abs_max_v |-> l])
      EXCEPT !["synthetic_operating_values"] =
        [nominal_supply_voltage_v |-> n, normal_run_command_voltage_v |-> r]] :
     u \in {1, 2, 120, 121}, l \in {40, 120}, n \in {120, 121, 140}, r \in {39, 40, 41}}

\* One field of the wrong type, at the edge of its range or absent.
WithDefect(f, v) == With(SectionOf(f), f :> v)
Without(f) ==
  [Shipped EXCEPT ![SectionOf(f)] =
     [g \in RequiredFields[SectionOf(f)] \ {f} |-> Shipped[SectionOf(f)][g]]]

Defects ==
  {WithDefect(f, Malformed) : f \in Fields}
  \cup {WithDefect(f, 0) : f \in Counts \cup Voltages}
  \cup {WithDefect(f, "other") : f \in DemandedTexts \cup {"motor_parameter_set_id"}}
  \cup {WithDefect("encoder_counts_per_revolution", 3), WithDefect("opposing_load_torque_nm", -1)}
  \cup {Without(f) : f \in Fields}
  \cup {[Shipped EXCEPT ![s] = Malformed] : s \in Sections}
  \cup {[s \in Sections \ {t} |-> Shipped[s]] : t \in Sections}

AllPayloads == {Shipped} \cup Thresholds \cup VoltagesAround \cup Defects

\* models/parameters/synthetic_motor.json
ShippedMotor ==
  [parameter_set_id |-> "required", status |-> "required", provenance |-> "required",
   sample_period_s |-> 1, parameters |-> [f \in MotorParameters |-> 1]]

AllMotors ==
  {ShippedMotor, [ShippedMotor EXCEPT !.parameter_set_id = "other"],
   [ShippedMotor EXCEPT !.status = "other"], [ShippedMotor EXCEPT !.sample_period_s = 0],
   [ShippedMotor EXCEPT !.parameters = [f \in MotorParameters |-> 0]], Malformed}

=============================================================================
