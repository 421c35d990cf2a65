------------------------------- MODULE Bench -------------------------------
(***************************************************************************)
(* The components that are checked on their own, for what the others take  *)
(* of them: one of them runs in a behaviour and the others stand still.    *)
(* Nothing passes between them here; module Sensing, Downlink and          *)
(* RawBlockLog say what their users rely on.                               *)
(***************************************************************************)
EXTENDS Integers, Sequences

CONSTANTS Codes, MaxCount,                         (* FaultStore   *)
          FixTimeout, MaxLine,                     (* Gps          *)
          Configs, Shipped, Widths,                (* PacketBudget *)
          Required, MaxConfidence, SensorStale, CogConfirm,
          Axes, MinSamples,                        (* Heading      *)
          Lengths, MaxPayload, MaxDigits,          (* FrameLink    *)
          MaxExtents, MaxDirClusters, MinBlocks, EndOfChain,
          Volumes, BlockSize, MaxWrites,           (* SdCard       *)
          SeenWindow, MaxNumber, MaxClock, MaxRestarts   (* GroundStation *)

VARIABLES
  unit,         (* the component that runs *)
  records, ever_critical, worst, episodes,
  line, overflowed, latest, fix_age, gps_valid, line_age, measured, pieced,
  seeded, confidence, mag_calibrated, has_mag, in_flight, calibrated, swept,
  samples, imu_age, mag_age, shown,
  cog_disagreements, cog_warning, unaided,
  frame, sent, reader, clean, fair,
  name, card, media, stage, sdhc, layout, kept, writes,
  config, operational, max_rate, packet,
  number, clock, restarted, stream, lost, gap, bridged, heard, in_run, followed

-----------------------------------------------------------------------------
Faults == INSTANCE FaultStore
Position == INSTANCE Gps
Attitude == INSTANCE Heading
Link == INSTANCE FrameLink
Card == INSTANCE SdCard
Budget == INSTANCE PacketBudget
Station == INSTANCE GroundStation

ASSUME BenchAssumption ==
  /\ Faults!FaultStoreAssumption /\ Position!GpsAssumption
  /\ Attitude!HeadingAssumption /\ Link!FrameLinkAssumption
  /\ Card!FatVolumeAssumption /\ Card!SdCardAssumption
  /\ Budget!PacketBudgetAssumption /\ Shipped \in Configs
  /\ Station!GroundStationAssumption

faults == <<records, ever_critical, worst, episodes>>
position ==
  <<line, overflowed, latest, fix_age, gps_valid, line_age, measured, pieced>>
attitude == <<seeded, confidence, mag_calibrated, has_mag, in_flight, calibrated,
              swept, samples, imu_age, mag_age, shown, cog_disagreements,
              cog_warning, unaided>>
link == <<frame, sent, reader, clean, fair>>
cardvars == <<name, card, media, stage, sdhc, layout, kept, writes>>
budget == <<config, operational, max_rate, packet>>
station == <<number, clock, restarted, stream, lost, gap, bridged, heard, in_run,
             followed>>
vars == <<unit, faults, position, attitude, link, cardvars, budget, station>>

(* A component that stands still is in one of its initial states. *)
Init ==
  /\ unit \in {"faults", "gps", "heading", "link", "card", "budget", "station"}
  /\ Faults!Init /\ Position!Init
  /\ Attitude!Init /\ (calibrated \/ in_flight \/ has_mag => unit = "heading")
  /\ Link!Init /\ (frame = Link!Encode(0) \/ unit = "link")
  /\ Card!Init
  /\ \/ unit = "card"
     \/ name = (CHOOSE n \in DOMAIN Volumes : TRUE) /\ ~card.v2
  /\ Budget!Init /\ (config = Shipped \/ unit = "budget")
  /\ Station!Init /\ (clock = 0 \/ unit = "station")

Next ==
  \/ /\ unit = "faults" /\ Faults!Next
     /\ UNCHANGED <<unit, position, attitude, link, cardvars, budget, station>>
  \/ /\ unit = "gps" /\ Position!Next
     /\ UNCHANGED <<unit, faults, attitude, link, cardvars, budget, station>>
  \/ /\ unit = "heading" /\ Attitude!Next
     /\ UNCHANGED <<unit, faults, position, link, cardvars, budget, station>>
  \/ /\ unit = "link" /\ Link!Next
     /\ UNCHANGED <<unit, faults, position, attitude, cardvars, budget, station>>
  \/ /\ unit = "card" /\ Card!Next
     /\ UNCHANGED <<unit, faults, position, attitude, link, budget, station>>
  \/ /\ unit = "budget" /\ Budget!Next
     /\ UNCHANGED <<unit, faults, position, attitude, link, cardvars, station>>
  \/ /\ unit = "station" /\ Station!Next
     /\ UNCHANGED <<unit, faults, position, attitude, link, cardvars, budget>>

Spec == Init /\ [][Next]_vars

-----------------------------------------------------------------------------
(* Properties: those of the modules. *)

(* The component that runs keeps its types. *)
TypeOK ==
  CASE unit = "faults" -> Faults!TypeOK
    [] unit = "gps" -> Position!TypeOK
    [] unit = "heading" -> Attitude!TypeOK
    [] unit = "link" -> Link!TypeOK
    [] unit = "card" -> Card!TypeOK
    [] unit = "budget" -> Budget!TypeOK
    [] unit = "station" -> Station!TypeOK

(* An active fault shows the worst severity named since it became active,  *)
(* and is counted once an episode (fault_manager.cpp).                     *)
FaultsTruthful == Faults!FaultsTruthful

(* A position in a packet was measured within gps_fix_timeout_ms, unless   *)
(* its line was pieced together over passes (gps_parser.cpp, neo6m.cpp,    *)
(* controller.cpp).                                                        *)
PositionFresh == Position!PositionFresh

(* A heading called magnetic was set or steered by a calibrated field in   *)
(* this attitude solution, not long ago (orientation.cpp, controller.cpp). *)
HeadingEarned == Attitude!HeadingEarned

(* A frame that arrives whole is delivered, unless the reader is still     *)
(* within a damaged one, and that ends (framing.cpp, transport.py).        *)
Delivered == Link!Delivered

(* No sector outside the log file changes, and an acknowledged block is in *)
(* its own (fat_volume.cpp, sd_card.cpp, sd_logger.cpp).                   *)
CardKept == Card!CardKept

(* In an accepted configuration no packet is cut by the radio; if its      *)
(* fields are as wide as they are counted, none sheds its position or      *)
(* overruns its share of the channel, or a flight build's the slot of its  *)
(* pattern (config.cpp, controller.cpp).                                   *)
AcceptedFits == Budget!AcceptedFits

(* The station never reports more loss or restarts than there were, and    *)
(* its loss is exact while it could follow the vehicle (validator.py).     *)
LossHonest == Station!LossHonest
=============================================================================
