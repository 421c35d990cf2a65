------------------------------- MODULE Uplink -------------------------------
(***************************************************************************)
(* The command path, end to end: the console mints a command for the       *)
(* latest packet it heard, the bridge (firmware/ground-station,            *)
(* pico/main.cpp) holds it in an UplinkTimer until the gap after a packet, *)
(* and the vehicle (controller.cpp, pico_radio.cpp) reads it just before   *)
(* its next packet.  Both radios (sx1278.cpp) are half duplex: a frame is  *)
(* heard only by a receiver that was on from its first symbol to its last. *)
(*                                                                         *)
(* The two programs poll at their own pace; Tick moves their common time.  *)
(* What a poll takes depends on what it writes to the card (sd_logger.cpp, *)
(* at 30 ms a block in the worst case): a row after the start of a packet, *)
(* and, from an erase until all blocks are scrubbed, four blocks each.     *)
(* Abstracted: radios that fail (module Downlink); frames that are not the *)
(* operator's own commands, and the replay window (module Controller); the *)
(* shapes of packets, which all have one airtime and one max-rate slot;    *)
(* the framing between console and bridge; the three writes of an erase    *)
(* before its packet, counted with those after it.  Only the build with    *)
(* ground commands, after a clean power-on.                                *)
(***************************************************************************)
EXTENDS Naturals

CONSTANTS
  Period,          (* telemetry_period_ms                                  *)
  Slot,            (* a max-rate slot                                      *)
  Airtime,         (* of a packet                                          *)
  CommandAirtime,  (* of a command                                         *)
  AfterPacket,     (* kAfterPacketMs                                       *)
  MaxHold,         (* kMaxHoldMs                                           *)
  CommandWindow,   (* command_window_ms                                    *)
  VehicleGap,      (* bounds on the time from a poll of the vehicle to the *)
                   (* next: one that writes nothing to the card            *)
  RowGap,          (* one that starts a packet, and writes its row         *)
  ScrubGap,        (* one that scrubs four blocks                          *)
  EraseGap,        (* one that starts a packet and scrubs, erase included  *)
  BridgeGap,       (* bound on the time between two loops of the bridge    *)
  MaxCommands,     (* bound on the commands the operator gives             *)
  MaxPrompt,       (* bound on the packets shown while the password is     *)
                   (* being typed                                          *)
  MaxTime,         (* bound on the time                                    *)
  None             (* no frame                                             *)

Commands == [kind : {"erase_log", "max_rate"}, pn : Nat]

(* A poll that leaves the card alone fits kAfterPacketMs, and a row is     *)
(* written before its packet is off the air.  The sums leave room, after a *)
(* packet that a scrub delayed, for the gap, a command and the bridge's    *)
(* way out of transmitting it, before the next packet; a command is given  *)
(* up on only after one packet more than it has to wait for.               *)
ASSUME UplinkAssumption ==
  /\ {Period, Slot, Airtime, CommandAirtime, MaxHold, CommandWindow, VehicleGap,
      RowGap, ScrubGap, EraseGap, BridgeGap} \subseteq Nat \ {0}
  /\ {AfterPacket, MaxCommands, MaxPrompt, MaxTime} \subseteq Nat
  /\ None \notin Nat /\ None \notin Commands
  /\ Slot > Airtime
  /\ VehicleGap <= AfterPacket /\ VehicleGap <= ScrubGap
  /\ RowGap <= Airtime /\ RowGap < Period /\ EraseGap < Period
  /\ ScrubGap + Airtime + AfterPacket + 3 * BridgeGap + CommandAirtime <= Period
  /\ Period + ScrubGap + AfterPacket + 2 * BridgeGap <= MaxHold

VARIABLES
  now,
  (* the vehicle *)
  step,                    (* where its poll is                            *)
  polled_ms,               (* when it was last begun                       *)
  next_ms,                 (* telemetry_task_                              *)
  packet_number, last_command_pn,
  window_open, uplink_closed, max_rate, auto_max_rate,
  scrubbing,               (* does this poll scrub blocks?                 *)
  listening,               (* PicoRadio                                    *)
  receiving, tx_active, tx_was_receiving, tx_start_ms,   (* Sx1278         *)
  fifo,                    (* the frame its radio received and holds       *)
  in_full,                 (* has it received since the command began?     *)
  (* the bridge *)
  looped_ms,               (* when its loop was last begun                 *)
  timer,                   (* UplinkTimer                                  *)
  relaying,                (* the command being transmitted                *)
  relay_ms,
  in_gap,                  (* was it sent for the gap, not given up on?    *)
  card_busy,               (* history: did the vehicle scrub then?         *)
  arrived,                 (* the packet its radio received and holds      *)
  packet_in_full,          (* has it received since the packet began?      *)
  (* the console and the link *)
  console_pn,              (* the latest packet shown                      *)
  given,                   (* the commands given so far                    *)
  reliable,                (* are all frames heard in full heard at all?   *)
  awaited                  (* history: the last command that the timer took*)
                           (* and that names a newer packet than any before*)
                           (* it, since when, until it is obeyed; none that*)
                           (* a scrub may delay                            *)

schedule == <<next_ms, packet_number, last_command_pn, window_open,
              uplink_closed, max_rate, auto_max_rate>>
modem == <<listening, receiving, tx_active, tx_was_receiving, tx_start_ms>>
vehicle == <<step, polled_ms, schedule, scrubbing, modem>>
bridge == <<looped_ms, timer, relaying, relay_ms, in_gap, card_busy>>
air == <<fifo, in_full, arrived, packet_in_full>>
console == <<console_pn, given, reliable, awaited>>
vars == <<now, vehicle, bridge, air, console>>

-----------------------------------------------------------------------------
(* UplinkTimer. *)
Idle == [pending |-> None, heard |-> FALSE, queued_ms |-> 0, heard_ms |-> 0]
Waiting(t) == t.pending # None

(* hold(): refused while one is waiting. *)
Hold(t, command) ==
  IF command = None \/ Waiting(t) THEN t
  ELSE [t EXCEPT !.pending = command, !.heard = FALSE, !.queued_ms = now]

HeardPacket(t, packet) ==
  IF packet = None \/ ~Waiting(t) THEN t
  ELSE [t EXCEPT !.heard = TRUE, !.heard_ms = now]

(* mutant: no time is left for the vehicle to key its receiver *)
InGapAtOnce(t) == t.heard

InGap(t) == t.heard /\ now - t.heard_ms >= AfterPacket

(* mutant: a command waits for its gap forever *)
DueInGapOnly(t) == Waiting(t) /\ InGap(t)

Due(t) == Waiting(t) /\ (InGap(t) \/ now - t.queued_ms >= MaxHold)

-----------------------------------------------------------------------------
Init ==
  /\ now = 0
  /\ step = "idle" /\ polled_ms = 0
  /\ next_ms = 0 /\ packet_number = 0 /\ last_command_pn = 0
  /\ window_open = TRUE /\ uplink_closed = FALSE
  /\ max_rate = FALSE /\ auto_max_rate \in BOOLEAN /\ scrubbing = FALSE
  /\ listening = FALSE /\ receiving = FALSE
  /\ tx_active = FALSE /\ tx_was_receiving = FALSE /\ tx_start_ms = 0
  /\ fifo = None /\ in_full = FALSE
  /\ looped_ms = 0 /\ timer = Idle /\ relaying = None /\ relay_ms = 0
  /\ in_gap = FALSE /\ card_busy = FALSE
  /\ arrived = None /\ packet_in_full = FALSE
  /\ console_pn = 0 /\ given = 0 /\ reliable \in BOOLEAN
  /\ awaited = [command |-> None, since |-> 0, newest |-> 0]

(* A frame whose last symbol is sent now is received by a radio that heard *)
(* it in full, unless the link loses it.                                   *)
PacketEnds == tx_active /\ now + 1 = tx_start_ms + Airtime
CommandEnds == relaying # None /\ now + 1 = relay_ms + CommandAirtime

(* What the poll that is behind may take, its card writes included.        *)
PollGap ==
  IF polled_ms = tx_start_ms THEN IF scrubbing THEN EraseGap ELSE RowGap
  ELSE IF scrubbing THEN ScrubGap ELSE VehicleGap

Delivered(heard, lost) == heard /\ (lost => reliable)

Tick(lost) ==
  /\ step = "idle" /\ now < MaxTime
  /\ packet_number > 0 /\ now < polled_ms + PollGap
  /\ IF relaying = None THEN now < looped_ms + BridgeGap
     ELSE now < relay_ms + CommandAirtime + BridgeGap
  /\ now' = now + 1
  /\ arrived' = IF PacketEnds /\ Delivered(packet_in_full, lost)
                THEN packet_number ELSE arrived
  /\ fifo' = IF CommandEnds /\ Delivered(in_full, lost) THEN relaying ELSE fifo
  /\ UNCHANGED <<vehicle, bridge, in_full, packet_in_full, console>>

-----------------------------------------------------------------------------
(* The vehicle's poll. *)

(* mutant: only the driver's own memory of the receiver is gone *)
EndTransmitDeaf ==
  /\ tx_active' = FALSE /\ receiving' = FALSE /\ fifo' = None
  /\ UNCHANGED <<listening, tx_was_receiving, tx_start_ms>>

(* end_transmit(), which resumes the receiver it interrupted, and          *)
(* PicoRadio::poll_transmit(), which turns it on for one that listens.     *)
EndTransmit ==
  /\ tx_active' = FALSE
  /\ receiving' = (tx_was_receiving \/ listening)
  /\ fifo' = None
  /\ UNCHANGED <<listening, tx_was_receiving, tx_start_ms>>

(* A poll begins.  A scrub goes on, or it ended, or was abandoned, or the  *)
(* controller has stopped calling the logger.                              *)
ServiceTransmit ==
  /\ step = "idle" /\ (polled_ms < now \/ packet_number = 0)
  /\ polled_ms' = now
  /\ scrubbing' \in {scrubbing, FALSE}
  /\ IF tx_active /\ now >= tx_start_ms + Airtime THEN EndTransmit
     ELSE UNCHANGED <<modem, fifo>>
  /\ step' = "window"
  /\ UNCHANGED <<now, schedule, bridge, in_full, arrived, packet_in_full, console>>

CheckWindow ==
  /\ step = "window"
  /\ IF window_open /\ now >= CommandWindow
     THEN /\ window_open' = FALSE /\ uplink_closed' = TRUE
          /\ max_rate' = (max_rate \/ auto_max_rate)
     ELSE UNCHANGED <<window_open, uplink_closed, max_rate>>
  /\ step' = "telemetry"
  /\ UNCHANGED <<now, polled_ms, next_ms, packet_number, last_command_pn,
                 auto_max_rate, scrubbing, modem, bridge, air, console>>

IsDue == ~tx_active /\ now >= next_ms

NoPacket ==
  /\ step = "telemetry" /\ ~IsDue
  /\ step' = "idle"
  /\ UNCHANGED <<now, polled_ms, schedule, scrubbing, modem, bridge, air, console>>

(* PicoRadio::poll_receive(): the first one only turns the receiver on. *)
Received == IF listening /\ receiving THEN fifo ELSE None

Fresh(command) == command.pn > last_command_pn /\ command.pn <= packet_number + 1

(* mutant: the receiver is not turned off for the transmission *)
StartTransmitListening(was_receiving) ==
  /\ tx_active' = TRUE /\ tx_start_ms' = now
  /\ tx_was_receiving' = was_receiving /\ receiving' = was_receiving
  /\ fifo' = None /\ in_full' = FALSE
  /\ packet_in_full' = (relaying = None)

(* start_transmit(): out of RX, and the flags of what arrived are gone. *)
StartTransmit(was_receiving) ==
  /\ tx_active' = TRUE /\ tx_start_ms' = now
  /\ tx_was_receiving' = was_receiving /\ receiving' = FALSE
  /\ fifo' = None /\ in_full' = FALSE
  /\ packet_in_full' = (relaying = None)

DueAgain == IF next_ms + Period <= now THEN now + Period ELSE next_ms + Period

(* service_ground_commands() with the gates open: a fresh command counts   *)
(* as accepted; MAX_RATE closes the uplink and the window, and an erase    *)
(* starts a scrub, unless the logger is out of order.                      *)
ServiceGroundCommands ==
  LET command == Received
      obeyed == command # None /\ Fresh(command)
  IN /\ listening' = TRUE
     /\ \/ scrubbing' = scrubbing
        \/ obeyed /\ command.kind = "erase_log" /\ scrubbing' = TRUE
     /\ IF obeyed
        THEN /\ last_command_pn' = command.pn
             /\ awaited' = IF awaited.command = command \/ scrubbing'
                           THEN [awaited EXCEPT !.command = None] ELSE awaited
        ELSE UNCHANGED <<last_command_pn, awaited>>
     /\ IF obeyed /\ command.kind = "max_rate"
        THEN max_rate' = TRUE /\ uplink_closed' = TRUE /\ window_open' = FALSE
        ELSE UNCHANGED <<max_rate, uplink_closed, window_open>>

Emit ==
  /\ step = "telemetry" /\ IsDue
  /\ IF uplink_closed
     THEN UNCHANGED <<listening, last_command_pn, awaited, max_rate,
                      uplink_closed, window_open, scrubbing>>
     ELSE ServiceGroundCommands
  /\ packet_number' = packet_number + 1
  /\ StartTransmit(receiving \/ (listening' /\ ~listening))
  /\ next_ms' = IF max_rate' THEN now + Slot ELSE DueAgain
  /\ step' = "idle"
  /\ UNCHANGED <<now, polled_ms, auto_max_rate, bridge, arrived, console_pn,
                 given, reliable>>

-----------------------------------------------------------------------------
(* The bridge's loop: a command from the console goes into the timer, a    *)
(* packet is read and shown, and a command that is due is transmitted,     *)
(* which occupies the loop until it is done.                               *)
BridgeLoop(command) ==
  /\ relaying = None /\ looped_ms < now
  /\ looped_ms' = now
  /\ LET queued == Hold(timer, command)
         after == HeardPacket(queued, arrived)
     IN /\ IF Due(after)
           THEN /\ timer' = [after EXCEPT !.pending = None]
                /\ relaying' = after.pending /\ relay_ms' = now
                /\ in_gap' = InGap(after) /\ card_busy' = scrubbing
                /\ in_full' = receiving
                /\ packet_in_full' = FALSE
           ELSE /\ timer' = after
                /\ UNCHANGED <<relaying, relay_ms, in_gap, card_busy, in_full,
                               packet_in_full>>
        /\ awaited' =
             IF queued # timer /\ command.pn > awaited.newest
             THEN [command |-> IF scrubbing THEN None ELSE command,
                   since |-> now, newest |-> command.pn]
             ELSE awaited
  /\ console_pn' = IF arrived = None THEN console_pn ELSE arrived
  /\ arrived' = None
  /\ given' = IF command = None THEN given ELSE given + 1
  /\ UNCHANGED <<now, vehicle, fifo, reliable>>

(* sendVehicleCommand(): once a packet is shown; the number is the one     *)
(* shown when the password was asked for.                                  *)
Give(kind, pn) ==
  /\ given < MaxCommands /\ pn \in 1 .. console_pn /\ console_pn <= pn + MaxPrompt
  /\ BridgeLoop([kind |-> kind, pn |-> pn])

RelayEnds ==
  /\ relaying # None /\ now >= relay_ms + CommandAirtime
  /\ relaying' = None /\ in_gap' = FALSE /\ card_busy' = FALSE
  /\ looped_ms' = now
  /\ UNCHANGED <<now, vehicle, timer, relay_ms, air, console>>

Next ==
  \/ \E lost \in BOOLEAN : Tick(lost)
  \/ ServiceTransmit \/ CheckWindow \/ NoPacket \/ Emit
  \/ BridgeLoop(None)
  \/ \E kind \in {"erase_log", "max_rate"}, pn \in 1 .. packet_number : Give(kind, pn)
  \/ RelayEnds

Spec == Init /\ [][Next]_vars

-----------------------------------------------------------------------------
(* Properties. *)

(* With the types, what half duplex means: no radio receives while it      *)
(* transmits, and none holds a frame that a transmission has cleared.      *)
TypeOK ==
  /\ {now, polled_ms, next_ms, packet_number, last_command_pn, tx_start_ms,
      looped_ms, relay_ms, console_pn, given} \subseteq Nat
  /\ step \in {"idle", "window", "telemetry"}
  /\ {window_open, uplink_closed, max_rate, auto_max_rate, listening, receiving,
      scrubbing, tx_active, tx_was_receiving, in_full, in_gap, card_busy,
      packet_in_full, reliable}
       \subseteq BOOLEAN
  /\ {fifo, relaying, timer.pending, awaited.command} \subseteq Commands \cup {None}
  /\ arrived \in Nat \cup {None}
  /\ tx_active => ~receiving /\ fifo = None /\ ~in_full
  /\ relaying # None => arrived = None /\ ~packet_in_full

OnAir == relaying # None /\ now < relay_ms + CommandAirtime

(* "A command sent kAfterPacketMs after a packet is heard in full while    *)
(* the vehicle is listening, and is over long before the vehicle's next    *)
(* packet starts" (uplink_timer.hpp, of the schedule the command window    *)
(* runs on): while such a command is on the air the vehicle receives it    *)
(* and sends nothing.  Not so while an erase is being scrubbed, which is   *)
(* less than uplink_timer.hpp says of every command: kAfterPacketMs is 20  *)
(* "with room for a sensor read or an SD write in progress", and a poll that*)
(* scrubs takes four writes of up to 30 ms, through which the receiver stays*)
(* off.                                                                    *)
GapIsQuiet ==
  OnAir /\ in_gap /\ ~card_busy /\ ~max_rate => in_full /\ ~tx_active

(* A command is held no longer than kMaxHoldMs, whatever the bridge hears: *)
(* it "goes anyway" (uplink_timer.hpp).                                    *)
HeldInTime ==
  Waiting(timer) => now < timer.queued_ms + MaxHold + BridgeGap

(* The uplink works: on a link that loses nothing, a command that names a  *)
(* newer packet than the commands before it is obeyed just before the next *)
(* packet but one, unless the uplink closes first or the vehicle scrubs    *)
(* the card meanwhile.                                                     *)
ObeyedInTime ==
  reliable /\ awaited.command # None /\ ~uplink_closed =>
    now < awaited.since + 2 * Period - Airtime + ScrubGap

(* After MAX_RATE "the vehicle never enters RX again"                      *)
(* (max-rate-command.md).                                                  *)
NeverListensAgain ==
  [][max_rate /\ receiving' => receiving]_vars
=============================================================================
