------------------------------ MODULE MCBench ------------------------------
(***************************************************************************)
(* An instance of Bench: the prepared cards of module CardVolumes, and the *)
(* configurations and field widths below.                                  *)
(***************************************************************************)
EXTENDS Bench, CardVolumes

(* The configuration a flight build has if nothing is changed, in what the *)
(* budget and the rates depend on.                                         *)
ShippedBuild ==
  [others_legal |-> TRUE, telemetry_period_ms |-> 700,
   sensor_period_ms |-> 33, baro_osrs_t |-> 1, baro_osrs_p |-> 4,
   baro_standby_us |-> 500, imu_base_hz |-> 1000, imu_sample_rate_div |-> 4,
   mag_hz |-> 100, loop_tick_ms |-> 2, gps_baud |-> 9600, gps_uart_fifo_bytes |-> 32,
   spreading_factor |-> 7, bandwidth_khz |-> 125, coding_rate |-> 5,
   preamble_length |-> 8, enable_crc |-> TRUE, worst_case_packet_bytes |-> 200,
   transmit_gps |-> TRUE, transmit_sound |-> TRUE, transmit_status |-> TRUE,
   append_diagnostic_fields |-> FALSE, max_channel_duty |-> 50,
   team_id_length |-> 11, gps_latlon_decimals |-> 5, gps_alt_decimals |-> 0]

(* The shipped configuration, one change of a field at a time, the last    *)
(* three unchecked, and the products of what the budget and the rate       *)
(* depend on.                                                              *)
Changed ==
  [others_legal |-> FALSE, telemetry_period_ms |-> 0, sensor_period_ms |-> 13,
   baro_osrs_t |-> 16, baro_osrs_p |-> 16, imu_sample_rate_div |-> 255, mag_hz |-> 8,
   loop_tick_ms |-> 17, spreading_factor |-> 12, coding_rate |-> 9,
   preamble_length |-> 5, enable_crc |-> FALSE, max_channel_duty |-> 101,
   team_id_length |-> 200, gps_latlon_decimals |-> 6, gps_alt_decimals |-> -1]

Builds ==
  {[ShippedBuild EXCEPT ![field] = Changed[field]] : field \in DOMAIN Changed}
  \cup {[ShippedBuild EXCEPT !.spreading_factor = sf, !.telemetry_period_ms = period,
                             !.worst_case_packet_bytes = bytes, !.transmit_gps = gps,
                             !.append_diagnostic_fields = tags,
                             !.max_channel_duty = duty] :
          sf \in {7, 8, 9}, period \in {300, 700, 950, 951},
          bytes \in {0, 146, 147, 160, 197, 198, 200, 201, 255, 256},
          gps \in BOOLEAN, tags \in BOOLEAN, duty \in {50, 100}}

FieldWidths == [mandatory : {99, 136}, gps : {0, 30, 39}, sound : {0, 11}]
=============================================================================
