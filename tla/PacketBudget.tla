---------------------------- MODULE PacketBudget ----------------------------
(***************************************************************************)
(* What fits on the air: validate_config() (config.cpp) over the airtime   *)
(* model (lora_airtime.hpp), and the shape of a packet: build() of the     *)
(* builder (telemetry_builder.cpp), the shedding of emit_telemetry() and   *)
(* the slot it gives the packet (controller.cpp).  The first happens once, *)
(* at boot, and the others rely on it at every packet; when packets are    *)
(* due and how they end is module Downlink, which commands are obeyed is   *)
(* module Controller.                                                      *)
(*                                                                         *)
(* Lengths are in bytes, airtimes in microseconds, as the airtime model    *)
(* gives them.  Abstracted: the text of a field, told by its width; the    *)
(* checks of a configuration that no packet and no rate depends on, told   *)
(* by one Boolean; bandwidths that are no whole number of kilohertz; the   *)
(* 63 characters at which fixed() cuts a number.                           *)
(***************************************************************************)
EXTENDS Integers

CONSTANTS
  Configs,      (* the configurations a build may have                     *)
  Widths        (* of the values of a packet: its mandatory fields but the *)
                (* team's id, its position but the digits after the point, *)
                (* and its sound level; 0 when there is none               *)

VARIABLES
  config,       (* config_                                                 *)
  operational,  (* did initialize() accept it?                             *)
  max_rate,     (* max_rate_: the pattern of rich and lean packets runs    *)
  packet        (* the last one built                                      *)

vars == <<config, operational, max_rate, packet>>

(* cansat::link *)
MandatoryBytes == 147
GpsBytes == 51
TagBytes == 54
StatusBytes == 9
GroundStationMax == 200
LoraMax == 255
MaxTelemetryPeriod == 950
MaxRateRichSlotMs == 374
MaxRateLeanSlotMs == 296
MaxRateGuardMs == 50

(* What is left of 147 and 51 without the eleven characters of the team's  *)
(* id and without the points and decimals of the shipped configuration.    *)
NumbersBytes == 136
PositionBytes == 39

(* Integers and signs of a value are as wide as link_profile.hpp says at   *)
(* most: the sensors bound them.  Of a configuration, only types.          *)
PacketBudgetAssumption ==
  /\ \A w \in Widths : w.mandatory \in 1 .. NumbersBytes /\ w.gps \in 0 .. PositionBytes
                       /\ w.sound \in Nat
  /\ \A c \in Configs :
       /\ {c.bandwidth_khz, c.preamble_length, c.team_id_length} \subseteq Nat
       /\ {c.gps_latlon_decimals, c.gps_alt_decimals} \subseteq Int

-----------------------------------------------------------------------------
(* The airtime model. *)

SymbolTime(c) == (1000 * 2 ^ c.spreading_factor) \div c.bandwidth_khz

LowDataRate(c) == SymbolTime(c) > 16000

PayloadSymbols(c, bytes) ==
  LET bits == 8 * bytes - 4 * c.spreading_factor + 28 + (IF c.enable_crc THEN 16 ELSE 0)
      per_block == 4 * (c.spreading_factor - (IF LowDataRate(c) THEN 2 ELSE 0))
      blocks == IF bits > 0 THEN (bits + per_block - 1) \div per_block ELSE 0
  IN 8 + blocks * c.coding_rate

Airtime(c, bytes) ==
  ((4 * c.preamble_length + 17 + 4 * PayloadSymbols(c, bytes)) * SymbolTime(c)) \div 4

-----------------------------------------------------------------------------
(* validate_config() *)

(* The worst conversion of the barometer, in microseconds. *)
BaroConversion(c) ==
  1250 + 2300 * c.baro_osrs_t + (IF c.baro_osrs_p = 0 THEN 0 ELSE 2300 * c.baro_osrs_p + 575)

SensorsKeepUp(c) ==
  /\ c.sensor_period_ms * 1000 >= BaroConversion(c) + c.baro_standby_us
  /\ c.imu_base_hz * c.sensor_period_ms >= 1000 * (1 + c.imu_sample_rate_div)
  /\ c.mag_hz > 0 => c.mag_hz * c.sensor_period_ms >= 1000

(* The tick is at most half of what fills the FIFO, ten bits to a byte. *)
LoopKeepsUp(c) ==
  /\ 2 * c.loop_tick_ms * c.gps_baud <= 10000 * c.gps_uart_fifo_bytes
  /\ c.sensor_period_ms >= c.loop_tick_ms

ModemLegal(c) ==
  /\ c.spreading_factor \in 6 .. 12 /\ c.coding_rate \in 5 .. 8
  /\ c.bandwidth_khz # 0 /\ c.preamble_length >= 6

BudgetForgettingGps(c) ==   \* mutant: the floor is the mandatory fields
  /\ c.worst_case_packet_bytes \in MandatoryBytes .. LoraMax
  /\ c.append_diagnostic_fields \/ c.worst_case_packet_bytes <= GroundStationMax

BudgetHolds(c) ==
  /\ c.worst_case_packet_bytes >= MandatoryBytes + (IF c.transmit_gps THEN GpsBytes ELSE 0)
  /\ c.worst_case_packet_bytes \in 1 .. LoraMax
  /\ c.append_diagnostic_fields \/ c.worst_case_packet_bytes <= GroundStationMax

(* max_channel_duty in per cent. *)
DutyHolds(c) ==
  /\ c.max_channel_duty \in 1 .. 100
  /\ Airtime(c, c.worst_case_packet_bytes) <= 10 * c.max_channel_duty * c.telemetry_period_ms

Accepts(c) ==
  /\ c.others_legal
  /\ c.telemetry_period_ms \in 1 .. MaxTelemetryPeriod
  /\ c.sensor_period_ms # 0 /\ c.loop_tick_ms # 0
  /\ SensorsKeepUp(c) /\ LoopKeepsUp(c)
  /\ ModemLegal(c) /\ BudgetHolds(c) /\ DutyHolds(c)

-----------------------------------------------------------------------------
(* emit_telemetry(): the fields a packet of this shape has, and the ones   *)
(* that are left when it is too long.                                      *)

(* The point and the decimals of a number printed with "%.*f".             *)
Printed(decimals) ==
  IF decimals = 0 THEN 0 ELSE IF decimals < 0 THEN 7 ELSE decimals + 1

Decimals(c) == 2 * Printed(c.gps_latlon_decimals) + Printed(c.gps_alt_decimals)

Mandatory(w) == w.mandatory + config.team_id_length

(* engage_max_rate() takes the tags off the air. *)
Tagged == config.append_diagnostic_fields /\ ~max_rate

ExtraWidth(rich) ==
  IF Tagged THEN TagBytes
  ELSE IF config.transmit_status /\ rich THEN StatusBytes ELSE 0

Optional(w, rich) ==
  [gps |-> IF config.transmit_gps /\ rich /\ w.gps > 0 THEN w.gps + Decimals(config) ELSE 0,
   sound |-> IF config.transmit_sound /\ rich THEN w.sound ELSE 0,
   extra |-> ExtraWidth(rich)]

Fields(optional) == {field \in DOMAIN optional : optional[field] > 0}

Bytes(w, optional, fields) ==
  Mandatory(w) + (IF "gps" \in fields THEN optional.gps ELSE 0)
               + (IF "sound" \in fields THEN optional.sound ELSE 0)
               + (IF "extra" \in fields THEN optional.extra ELSE 0)

Without(field, w, optional, fields) ==
  IF Bytes(w, optional, fields) > config.worst_case_packet_bytes
  THEN fields \ {field} ELSE fields

(* Tags or status first, then sound, then the position. *)
Shed(w, optional) ==
  Without("gps", w, optional,
    Without("sound", w, optional, Without("extra", w, optional, Fields(optional))))

(* packet_oversize is reported for all that is shed but the status field. *)
Reports(w, optional) ==
  LET TooLong(fields) == Bytes(w, optional, fields) > config.worst_case_packet_bytes
  IN IF \/ TooLong(Fields(optional) \ {"extra"})
        \/ Tagged /\ TooLong(Fields(optional))
     THEN "warning" ELSE "none"

None == [wants |-> {}, fields |-> {}, bytes |-> 0, reports |-> "none", slot |-> "period"]

-----------------------------------------------------------------------------
Init ==
  /\ config \in Configs
  /\ operational = FALSE
  /\ max_rate = FALSE
  /\ packet = None

Initialize ==
  /\ ~operational /\ Accepts(config)
  /\ operational' = TRUE
  /\ UNCHANGED <<config, max_rate, packet>>

(* Before the command every packet is rich.  One that would overflow the   *)
(* radio, or has no valid mandatory data, ends here; for any other, a      *)
(* MAX_RATE that came since the last is obeyed after the packet is built   *)
(* and before its slot is chosen.                                          *)
EmitTelemetry(w, rich, mandatory_valid, max_rate_received) ==
  /\ operational
  /\ ~max_rate => rich
  /\ LET optional == Optional(w, rich)
         fields == Shed(w, optional)
         bytes == Bytes(w, optional, fields)
         at_max == max_rate \/ max_rate_received
     IN \/ /\ mandatory_valid /\ bytes <= LoraMax
           /\ max_rate' = at_max
           /\ packet' = [wants |-> Fields(optional), fields |-> fields, bytes |-> bytes,
                         reports |-> Reports(w, optional),
                         slot |-> IF ~at_max THEN "period" ELSE IF rich THEN "rich" ELSE "lean"]
        \/ /\ mandatory_valid /\ bytes > LoraMax
           /\ max_rate' = max_rate /\ packet' = [None EXCEPT !.reports = "error"]
        \/ /\ ~mandatory_valid
           /\ max_rate' = max_rate /\ packet' = None
  /\ UNCHANGED <<config, operational>>

(* engage_max_rate() when the command window runs out, or at boot; the     *)
(* packet on the air keeps the time that was set for the next one.         *)
EngageMaxRate ==
  /\ operational
  /\ max_rate' = TRUE
  /\ UNCHANGED <<config, operational, packet>>

Next ==
  \/ Initialize
  \/ \E w \in Widths, rich, mandatory_valid, max_rate_received \in BOOLEAN :
       EmitTelemetry(w, rich, mandatory_valid, max_rate_received)
  \/ EngageMaxRate

Spec == Init /\ [][Next]_vars

-----------------------------------------------------------------------------
(* Properties. *)

TypeOK ==
  /\ config \in Configs
  /\ operational \in BOOLEAN /\ max_rate \in BOOLEAN
  /\ packet.fields \subseteq packet.wants
  /\ packet.wants \subseteq {"gps", "sound", "extra"}
  /\ packet.bytes \in Nat
  /\ packet.reports \in {"none", "warning", "error"}
  /\ packet.slot \in {"period", "rich", "lean"}

(* The configurations whose fields are as wide as link_profile.hpp counts  *)
(* them.  validate_config() does not ask: with six decimals and one, as in *)
(* the log, the position takes 55 bytes and is shed whenever the packet is *)
(* at its widest, and a team's id may have any length.                     *)
WithinWidths(c) ==
  /\ NumbersBytes + c.team_id_length <= MandatoryBytes
  /\ PositionBytes + Decimals(c) <= GpsBytes

(* cansat::link::kModem, which the slots of the pattern were computed for. *)
ProfileModem(c) ==
  /\ c.spreading_factor = 7 /\ c.bandwidth_khz = 125 /\ c.coding_rate = 5
  /\ c.preamble_length = 8 /\ c.enable_crc

(* The channel a packet takes until the next is due: at a fixed rate its   *)
(* share, by the airtime model; in the pattern, the measured airtime, 1.8% *)
(* over the model, and the guard fit the slot.                             *)
InShare ==
  Airtime(config, packet.bytes) <= 10 * config.max_channel_duty * config.telemetry_period_ms

InSlot ==
  LET slot_ms == IF packet.slot = "rich" THEN MaxRateRichSlotMs ELSE MaxRateLeanSlotMs
  IN 1018 * Airtime(config, packet.bytes) <= 1000000 * (slot_ms - MaxRateGuardMs)

(* A configuration that is accepted flies: no packet is cut by the radio;  *)
(* and if its fields are as wide as they are counted, whatever the values, *)
(* none is suppressed, a position is never shed, at the fixed rate a       *)
(* packet keeps to its share of the channel, and a flight build's is heard *)
(* by the organizers' station and, in the modem profile, off the air a     *)
(* guard before the next slot of the pattern (config.cpp, controller.cpp). *)
(* Accepted configurations beyond that overrun their slots.  The slots are *)
(* constants, and validate_config() looks at the fixed period only: a      *)
(* slower modem overruns them, and so does a bench build with a budget of  *)
(* 255 bytes, whose rich packet is up to 218 when the tags are forced off. *)
AcceptedFits ==
  operational =>
    /\ packet.bytes <= LoraMax
    /\ WithinWidths(config) =>
         /\ packet.reports # "error"
         /\ "gps" \in packet.wants => "gps" \in packet.fields
         /\ packet.slot = "period" => InShare
         /\ ~config.append_diagnostic_fields =>
              /\ packet.bytes <= GroundStationMax
              /\ packet.slot # "period" /\ ProfileModem(config) => InSlot
=============================================================================
