---------------------------- MODULE UplinkProofs ----------------------------
(***************************************************************************)
(* Theorems of module Uplink, for every schedule, airtime, gap and hold    *)
(* that UplinkAssumption admits.                                           *)
(*                                                                         *)
(* None of the three timing properties is inductive.  What carries them is *)
(* where each clock stands against the start of the vehicle's last packet: *)
(* its next packet is due a period later, within a poll (Schedule); the    *)
(* bridge hears of the packet within a loop of its end, and sends in the   *)
(* gap within two (Gap), so the command is over, and the bridge back in    *)
(* its loop, before the next packet.  On a link that loses nothing every   *)
(* packet is therefore heard, no command is given up on, and a command is  *)
(* in the timer, on the air or with the vehicle until it is obeyed         *)
(* (Working).                                                              *)
(***************************************************************************)
EXTENDS Uplink, TLAPS

Timers == [pending : Commands \cup {None}, heard : BOOLEAN,
           queued_ms : Nat, heard_ms : Nat]

Typed ==
  /\ TypeOK
  /\ timer \in Timers
  /\ awaited \in [command : Commands \cup {None}, since : Nat, newest : Nat]

(* Both programs come round in time, and the bridge's timer is empty while *)
(* it transmits.                                                           *)
Polling ==
  /\ polled_ms <= now /\ now <= polled_ms + PollGap
  /\ step # "idle" => polled_ms = now
  /\ looped_ms <= now /\ relay_ms <= looped_ms
  /\ relaying = None => now <= looped_ms + BridgeGap
  /\ relaying # None =>
       ~Waiting(timer) /\ now <= relay_ms + CommandAirtime + BridgeGap
  /\ Waiting(timer) =>
       timer.queued_ms <= looped_ms /\ looped_ms < timer.queued_ms + MaxHold

(* The vehicle listens from its first slot on, and is on the air for no    *)
(* longer than an airtime and a poll.                                      *)
Receiver ==
  /\ packet_number = 0 => now = 0 /\ next_ms = 0 /\ ~uplink_closed /\ ~tx_active
  /\ packet_number > 0 => listening
  /\ listening /\ ~tx_active => receiving
  /\ tx_start_ms <= polled_ms
  /\ tx_active => polled_ms < tx_start_ms + Airtime
  /\ packet_number > 0 /\ now < tx_start_ms + Airtime => tx_active
  /\ max_rate => uplink_closed

(* Below the max rate, a packet starts within a poll of a period after the *)
(* one before it: within the longest that starts no packet, since a poll   *)
(* that does is over before the next is due.                               *)
Schedule ==
  packet_number > 0 /\ ~max_rate =>
    /\ next_ms <= tx_start_ms + Period
    /\ tx_start_ms + Period <= next_ms + ScrubGap
    /\ step = "idle" => polled_ms < next_ms
    /\ now < next_ms + ScrubGap

(* Below the max rate, a packet is read within a loop of its end, and a    *)
(* command sent for the gap is sent within two loops of AfterPacket after, *)
(* to a vehicle that receives unless it scrubs.                            *)
Gap ==
  ~max_rate =>
    /\ arrived # None =>
         looped_ms < tx_start_ms + Airtime /\ tx_start_ms + Airtime <= now
    /\ Waiting(timer) /\ timer.heard =>
         /\ tx_start_ms + Airtime <= timer.heard_ms
         /\ timer.heard_ms < tx_start_ms + Airtime + BridgeGap
         /\ timer.heard_ms <= looped_ms
         /\ looped_ms < timer.heard_ms + AfterPacket
    /\ OnAir /\ in_gap =>
         /\ tx_start_ms + Airtime + AfterPacket <= relay_ms
         /\ relay_ms < tx_start_ms + Airtime + AfterPacket + 2 * BridgeGap
         /\ ~card_busy => in_full /\ ~tx_active

(* No command is numbered past the newest one awaited, nor past the        *)
(* packets sent.                                                           *)
Numbers ==
  /\ console_pn <= packet_number
  /\ arrived # None => arrived <= packet_number
  /\ \A command \in {timer.pending, relaying, fifo} \ {None} :
       command.pn <= awaited.newest /\ command.pn <= packet_number
  /\ last_command_pn <= awaited.newest
  /\ awaited.command # None => awaited.command.pn = awaited.newest

(* Where the awaited command is, while the link works. *)
InTimer ==
  /\ timer.pending = awaited.command /\ timer.queued_ms = awaited.since
  /\ fifo # None => fifo.pn < awaited.newest
OnItsWay ==
  /\ relaying = awaited.command /\ OnAir /\ ~card_busy
  /\ next_ms + Airtime < awaited.since + 2 * Period
WithVehicle ==
  /\ fifo = awaited.command
  /\ next_ms + Airtime < awaited.since + 2 * Period

(* On a link that loses nothing, until the uplink closes: every command is *)
(* sent for a gap, every packet is heard, and neither overtakes the other. *)
Working ==
  reliable /\ ~uplink_closed =>
    /\ relaying # None =>
         /\ in_gap
         /\ tx_start_ms + Airtime + AfterPacket <= relay_ms
         /\ relay_ms < tx_start_ms + Airtime + AfterPacket + 2 * BridgeGap
    /\ packet_number > 0 /\ now < tx_start_ms + Airtime => packet_in_full
    /\ packet_number > 0 /\ tx_start_ms + Airtime <= now /\ arrived = None =>
         tx_start_ms + Airtime <= looped_ms
    /\ Waiting(timer) =>
         next_ms + Airtime < timer.queued_ms + 2 * Period /\ packet_number > 0
    /\ Waiting(timer) /\ ~timer.heard =>
         \/ now < tx_start_ms + Airtime
         \/ arrived # None
         \/ tx_start_ms + Airtime < timer.queued_ms
    /\ fifo # None =>
         /\ tx_start_ms + Airtime + AfterPacket <= relay_ms
         /\ relay_ms + CommandAirtime <= now
         /\ Waiting(timer) => ~timer.heard
    /\ awaited.command # None =>
         /\ ~scrubbing /\ last_command_pn < awaited.newest
         /\ InTimer \/ OnItsWay \/ WithVehicle

UplinkInv ==
  Typed /\ Polling /\ Receiver /\ Schedule /\ Gap /\ Numbers /\ Working

-----------------------------------------------------------------------------
LEMMA Margins ==
  /\ Period \in Nat /\ Slot \in Nat /\ Airtime \in Nat /\ CommandAirtime \in Nat
  /\ AfterPacket \in Nat /\ MaxHold \in Nat /\ CommandWindow \in Nat
  /\ VehicleGap \in Nat /\ RowGap \in Nat /\ ScrubGap \in Nat
  /\ EraseGap \in Nat
  /\ BridgeGap \in Nat
  /\ Period >= 1 /\ Slot >= 1 /\ Airtime >= 1 /\ CommandAirtime >= 1
  /\ MaxHold >= 1 /\ CommandWindow >= 1 /\ VehicleGap >= 1 /\ BridgeGap >= 1
  /\ RowGap >= 1 /\ ScrubGap >= 1 /\ EraseGap >= 1
  /\ VehicleGap <= AfterPacket /\ VehicleGap <= ScrubGap
  /\ RowGap <= Airtime /\ RowGap < Period /\ EraseGap < Period
  /\ ScrubGap + Airtime + AfterPacket + 3 * BridgeGap + CommandAirtime <= Period
  /\ Period + ScrubGap + AfterPacket + 2 * BridgeGap <= MaxHold
<1>1. \A n \in Nat \ {0} : n \in Nat /\ n >= 1
  OBVIOUS
<1> QED
  BY <1>1, UplinkAssumption DEF UplinkAssumption

(* What a poll may take, before a step and after it.                       *)
LEMMA Gaps ==
  /\ PollGap \in Nat /\ PollGap >= 1
  /\ PollGap' \in Nat /\ PollGap' >= 1
  /\ polled_ms # tx_start_ms => PollGap <= ScrubGap
  /\ polled_ms # tx_start_ms /\ ~scrubbing => PollGap = VehicleGap
  /\ polled_ms = tx_start_ms => PollGap < Period
  /\ polled_ms = tx_start_ms /\ ~scrubbing => PollGap = RowGap
<1>1. /\ PollGap \in {VehicleGap, RowGap, ScrubGap, EraseGap}
      /\ PollGap' \in {VehicleGap, RowGap, ScrubGap, EraseGap}
  BY DEF PollGap
<1>2. \A g \in {VehicleGap, RowGap, ScrubGap, EraseGap} : g \in Nat /\ g >= 1
  BY Margins
<1>3. polled_ms # tx_start_ms => PollGap \in {VehicleGap, ScrubGap}
  BY DEF PollGap
<1>4. polled_ms = tx_start_ms => PollGap \in {RowGap, EraseGap}
  BY DEF PollGap
<1>5. /\ polled_ms # tx_start_ms /\ ~scrubbing => PollGap = VehicleGap
      /\ polled_ms = tx_start_ms /\ ~scrubbing => PollGap = RowGap
  BY DEF PollGap
<1>6. \A g \in {VehicleGap, ScrubGap} : g <= ScrubGap
  BY Margins
<1>7. \A g \in {RowGap, EraseGap} : g < Period
  BY Margins
<1> QED
  BY <1>1, <1>2, <1>3, <1>4, <1>5, <1>6, <1>7

LEMMA Frames == None \notin Nat /\ None \notin Commands
  BY UplinkAssumption DEF UplinkAssumption

(* The types, one by one. *)
LEMMA Types ==
  ASSUME Typed
  PROVE  /\ now \in Nat /\ polled_ms \in Nat /\ next_ms \in Nat
         /\ packet_number \in Nat /\ last_command_pn \in Nat
         /\ tx_start_ms \in Nat /\ looped_ms \in Nat /\ relay_ms \in Nat
         /\ console_pn \in Nat /\ given \in Nat
         /\ step \in {"idle", "window", "telemetry"}
         /\ window_open \in BOOLEAN /\ uplink_closed \in BOOLEAN
         /\ max_rate \in BOOLEAN /\ auto_max_rate \in BOOLEAN
         /\ listening \in BOOLEAN /\ receiving \in BOOLEAN
         /\ tx_active \in BOOLEAN /\ tx_was_receiving \in BOOLEAN
         /\ in_full \in BOOLEAN /\ in_gap \in BOOLEAN
         /\ packet_in_full \in BOOLEAN /\ reliable \in BOOLEAN
         /\ scrubbing \in BOOLEAN /\ card_busy \in BOOLEAN
         /\ fifo \in Commands \cup {None} /\ relaying \in Commands \cup {None}
         /\ timer \in Timers /\ timer.pending \in Commands \cup {None}
         /\ timer.heard \in BOOLEAN
         /\ timer.queued_ms \in Nat /\ timer.heard_ms \in Nat
         /\ awaited \in [command : Commands \cup {None}, since : Nat, newest :
              Nat]
         /\ awaited.command \in Commands \cup {None}
         /\ awaited.since \in Nat /\ awaited.newest \in Nat
         /\ arrived \in Nat \cup {None}
         /\ tx_active => ~receiving /\ fifo = None /\ ~in_full
         /\ relaying # None => arrived = None /\ ~packet_in_full
<1>1. timer \in Timers
  BY DEF Typed
<1>2. /\ timer.pending \in Commands \cup {None} /\ timer.heard \in BOOLEAN
      /\ timer.queued_ms \in Nat /\ timer.heard_ms \in Nat
  BY <1>1 DEF Timers
<1>3. awaited \in [command : Commands \cup {None}, since : Nat, newest : Nat]
  BY DEF Typed
<1>4. /\ awaited.command \in Commands \cup {None}
      /\ awaited.since \in Nat /\ awaited.newest \in Nat
  BY <1>3
<1>5. /\ now \in Nat /\ polled_ms \in Nat /\ next_ms \in Nat
      /\ packet_number \in Nat /\ last_command_pn \in Nat
      /\ tx_start_ms \in Nat /\ looped_ms \in Nat /\ relay_ms \in Nat
      /\ console_pn \in Nat /\ given \in Nat
  BY DEF Typed, TypeOK
<1>6. /\ window_open \in BOOLEAN /\ uplink_closed \in BOOLEAN
      /\ max_rate \in BOOLEAN /\ auto_max_rate \in BOOLEAN
      /\ listening \in BOOLEAN /\ receiving \in BOOLEAN
      /\ tx_active \in BOOLEAN /\ tx_was_receiving \in BOOLEAN
      /\ in_full \in BOOLEAN /\ in_gap \in BOOLEAN
      /\ packet_in_full \in BOOLEAN /\ reliable \in BOOLEAN
      /\ scrubbing \in BOOLEAN /\ card_busy \in BOOLEAN
  BY DEF Typed, TypeOK
<1>7. /\ step \in {"idle", "window", "telemetry"}
      /\ fifo \in Commands \cup {None} /\ relaying \in Commands \cup {None}
      /\ arrived \in Nat \cup {None}
      /\ tx_active => ~receiving /\ fifo = None /\ ~in_full
      /\ relaying # None => arrived = None /\ ~packet_in_full
  BY DEF Typed, TypeOK
<1> QED
  BY <1>1, <1>2, <1>3, <1>4, <1>5, <1>6, <1>7

LEMMA InvInit ==
  ASSUME Init
  PROVE  UplinkInv
<1>1. Idle \in Timers /\ ~Waiting(Idle)
  BY DEF Idle, Timers, Waiting
<1>2. Typed
  <2>1. awaited \in [command : Commands \cup {None}, since : Nat, newest : Nat]
    BY DEF Init
  <2>2. TypeOK
    <3>1. timer.pending = None /\ awaited.command = None
      BY DEF Init, Idle
    <3>2. {now, polled_ms, next_ms, packet_number, last_command_pn, tx_start_ms,
           looped_ms, relay_ms, console_pn, given} \subseteq Nat
      BY DEF Init
    <3>3. {window_open, uplink_closed, max_rate, auto_max_rate, listening,
            receiving,
           scrubbing, tx_active, tx_was_receiving, in_full, in_gap, card_busy,
           packet_in_full, reliable}
            \subseteq BOOLEAN
      <4>1. auto_max_rate \in BOOLEAN /\ reliable \in BOOLEAN
        BY DEF Init
      <4> QED
        BY <4>1, Zenon DEF Init
    <3>4. {fifo, relaying, timer.pending,
            awaited.command} \subseteq Commands \cup {None}
      BY <3>1 DEF Init
    <3> QED
      BY <3>2, <3>3, <3>4 DEF Init, TypeOK
  <2> QED
    BY <1>1, <2>1, <2>2 DEF Typed, Init
<1>3. Polling
  BY <1>1, Margins, Gaps DEF Polling, Init
<1>4. Receiver /\ Schedule
  BY Margins DEF Receiver, Schedule, Init
<1>5. Gap
  BY <1>1 DEF Gap, Init, OnAir
<1>6. Numbers
  <2>1. timer.pending = None /\ awaited.command = None /\ awaited.newest = 0
    BY DEF Init, Idle
  <2> QED
    BY <2>1 DEF Numbers, Init
<1>7. Working
  <2>1. awaited.command = None
    BY DEF Init
  <2> QED
    BY <1>1, <2>1 DEF Working, Init
<1> QED
  BY <1>2, <1>3, <1>4, <1>5, <1>6, <1>7 DEF UplinkInv

(* Typed, put together again after a step. *)
LEMMA TypedAgain ==
  ASSUME {now, polled_ms, next_ms, packet_number, last_command_pn, tx_start_ms,
          looped_ms, relay_ms, console_pn, given}' \subseteq Nat,
         step' \in {"idle", "window", "telemetry"},
         window_open' \in BOOLEAN, uplink_closed' \in BOOLEAN,
         max_rate' \in BOOLEAN, auto_max_rate' \in BOOLEAN,
         listening' \in BOOLEAN, receiving' \in BOOLEAN,
         tx_active' \in BOOLEAN, tx_was_receiving' \in BOOLEAN,
         in_full' \in BOOLEAN, in_gap' \in BOOLEAN,
         packet_in_full' \in BOOLEAN, reliable' \in BOOLEAN,
         scrubbing' \in BOOLEAN, card_busy' \in BOOLEAN,
         fifo' \in Commands \cup {None}, relaying' \in Commands \cup {None},
         arrived' \in Nat \cup {None},
         tx_active' => ~receiving' /\ fifo' = None /\ ~in_full',
         relaying' # None => arrived' = None /\ ~packet_in_full',
         timer' \in Timers,
         awaited' \in [command : Commands \cup {None}, since : Nat, newest :
           Nat]
  PROVE  Typed'
<1>1. {window_open, uplink_closed, max_rate, auto_max_rate, listening,
        receiving,
       scrubbing, tx_active, tx_was_receiving, in_full, in_gap, card_busy,
       packet_in_full, reliable}'
         \subseteq BOOLEAN
  OBVIOUS
<1>2. timer'.pending \in Commands \cup {None}
  BY DEF Timers
<1>3. awaited'.command \in Commands \cup {None}
  OBVIOUS
<1>4. {fifo, relaying, timer.pending,
        awaited.command}' \subseteq Commands \cup {None}
  BY <1>2, <1>3
<1> QED
  BY <1>1, <1>4 DEF Typed, TypeOK

(* Where the clocks stand: below the max rate nothing is due before the    *)
(* gap after a packet is over.                                             *)
LEMMA NotYetDue ==
  ASSUME UplinkInv, packet_number > 0, ~max_rate, ~tx_active
  PROVE  /\ arrived # None => now < next_ms
         /\ Waiting(timer) /\ timer.heard => now < next_ms
         /\ OnAir /\ in_gap => now < next_ms
         /\ reliable /\ ~uplink_closed /\ relaying # None => now < next_ms
<1> USE Margins, Types DEF UplinkInv
<1>1. tx_start_ms + Period <= next_ms + ScrubGap
  BY DEF Schedule
<1>2. ASSUME arrived # None
      PROVE  now < next_ms
  <2>1. looped_ms < tx_start_ms + Airtime /\ now <= looped_ms + BridgeGap
    BY <1>2 DEF Gap, Polling
  <2> QED
    BY <1>1, <2>1
<1>3. ASSUME Waiting(timer), timer.heard
      PROVE  now < next_ms
  <2>1. /\ timer.heard_ms < tx_start_ms + Airtime + BridgeGap
        /\ looped_ms < timer.heard_ms + AfterPacket
        /\ now <= looped_ms + BridgeGap
    BY <1>3 DEF Gap, Polling
  <2> QED
    BY <1>1, <2>1
<1>4. ASSUME OnAir, in_gap
      PROVE  now < next_ms
  <2>1. /\ relay_ms < tx_start_ms + Airtime + AfterPacket + 2 * BridgeGap
        /\ now < relay_ms + CommandAirtime
    BY <1>4 DEF Gap, OnAir
  <2> QED
    BY <1>1, <2>1
<1>5. ASSUME reliable, ~uplink_closed, relaying # None
      PROVE  now < next_ms
  <2>1. /\ relay_ms < tx_start_ms + Airtime + AfterPacket + 2 * BridgeGap
        /\ now <= relay_ms + CommandAirtime + BridgeGap
    BY <1>5 DEF Working, Polling
  <2> QED
    BY <1>1, <2>1
<1> QED
  BY <1>2, <1>3, <1>4, <1>5

-----------------------------------------------------------------------------
(* Time passes. *)
LEMMA TickStep ==
  ASSUME UplinkInv, NEW lost \in BOOLEAN, Tick(lost)
  PROVE  UplinkInv'
<1> USE DEF UplinkInv
<1>1. /\ now' = now + 1 /\ step = "idle" /\ packet_number > 0
      /\ now < polled_ms + PollGap
      /\ relaying = None => now < looped_ms + BridgeGap
      /\ relaying # None => now < relay_ms + CommandAirtime + BridgeGap
      /\ arrived' = IF PacketEnds /\ Delivered(packet_in_full, lost)
                    THEN packet_number ELSE arrived
      /\ fifo' = IF CommandEnds /\ Delivered(in_full,
           lost) THEN relaying ELSE fifo
  BY DEF Tick
<1>2. UNCHANGED <<step, polled_ms, next_ms, packet_number, last_command_pn,
                  window_open, uplink_closed, max_rate, auto_max_rate,
                    listening,
                  receiving, tx_active, tx_was_receiving, tx_start_ms,
                    looped_ms,
                  timer, relaying, relay_ms, in_gap, in_full, packet_in_full,
                  console_pn, given, reliable, awaited, scrubbing, card_busy>>
  BY DEF Tick, vehicle, schedule, modem, bridge, console
<1>3. now' \in Nat /\ now' = now + 1
  BY <1>1, Types
<1>4. \/ arrived' = arrived
      \/ /\ packet_in_full /\ tx_active /\ now + 1 = tx_start_ms + Airtime
         /\ arrived' = packet_number
  BY <1>1 DEF PacketEnds, Delivered
<1>5. \/ fifo' = fifo
      \/ /\ in_full /\ relaying # None /\ now + 1 = relay_ms + CommandAirtime
         /\ fifo' = relaying
  BY <1>1 DEF CommandEnds, Delivered
<1>6. Typed'
  <2>1. arrived' \in Nat \cup {None} /\ fifo' \in Commands \cup {None}
    BY <1>4, <1>5, Types
  <2>2. tx_active' => ~receiving' /\ fifo' = None /\ ~in_full'
    BY <1>2, <1>5, Types
  <2>3. relaying' # None => arrived' = None /\ ~packet_in_full'
    BY <1>2, <1>4, Types
  <2> QED
    BY <1>2, <1>3, <2>1, <2>2, <2>3, Types, TypedAgain
<1>7. Polling'
  <2>1. /\ polled_ms <= now + 1 /\ now + 1 <= polled_ms + PollGap
        /\ looped_ms <= now + 1
        /\ relaying = None => now + 1 <= looped_ms + BridgeGap
        /\ relaying # None => now + 1 <= relay_ms + CommandAirtime + BridgeGap
    BY <1>1, Types, Margins, Gaps DEF Polling
  <2>2. PollGap' = PollGap
    BY <1>2 DEF PollGap
  <2> QED
    BY <1>1, <1>2, <2>1, <2>2 DEF Polling, Waiting
<1>8. Receiver'
  <2>1. now + 1 < tx_start_ms + Airtime => now < tx_start_ms + Airtime
    BY Types, Margins
  <2> QED
    BY <1>1, <1>2, <2>1, Types DEF Receiver
<1>9. Schedule'
  <2>1. ~max_rate => now + 1 < next_ms + ScrubGap
    <3> SUFFICES ASSUME ~max_rate
                 PROVE  now + 1 < next_ms + ScrubGap
      OBVIOUS
    <3>1. polled_ms < next_ms /\ tx_start_ms + Period <= next_ms + ScrubGap
      BY <1>1 DEF Schedule
    <3>2. CASE polled_ms = tx_start_ms
      <4>1. PollGap < Period /\ now < tx_start_ms + PollGap
        BY <1>1, <3>2, Gaps
      <4> QED
        BY <3>1, <4>1, Types, Margins, Gaps
    <3>3. CASE polled_ms # tx_start_ms
      <4>1. PollGap <= ScrubGap
        BY <3>3, Gaps
      <4> QED
        BY <1>1, <3>1, <4>1, Types, Margins, Gaps
    <3> QED
      BY <3>2, <3>3
  <2> QED
    BY <1>1, <1>2, <2>1, Types DEF Schedule
<1>10. Gap'
  <2>1. OnAir' => OnAir
    <3>1. now + 1 < relay_ms + CommandAirtime => now < relay_ms + CommandAirtime
      BY Types, Margins
    <3> QED
      BY <1>2, <1>3, <3>1 DEF OnAir
  <2>2. arrived' # None /\ ~max_rate =>
          looped_ms < tx_start_ms + Airtime /\ tx_start_ms + Airtime <= now + 1
    <3>1. CASE arrived' = arrived
      <4>1. tx_start_ms + Airtime <= now => tx_start_ms + Airtime <= now + 1
        BY Types, Margins
      <4> QED
        BY <3>1, <4>1 DEF Gap
    <3>2. CASE now + 1 = tx_start_ms + Airtime
      BY <3>2, Types, Margins DEF Polling
    <3> QED
      BY <1>4, <3>1, <3>2
  <2> QED
    BY <1>2, <1>3, <2>1, <2>2 DEF Gap, Waiting
<1>11. Numbers'
  <2>1. arrived' # None => arrived' <= packet_number'
    BY <1>2, <1>4, Types DEF Numbers
  <2>2. {timer.pending, relaying, fifo}' \subseteq {timer.pending, relaying,
          fifo}
    BY <1>2, <1>5
  <2> QED
    BY <1>2, <2>1, <2>2 DEF Numbers
<1>12. Working'
  <2> SUFFICES ASSUME reliable', ~uplink_closed'
               PROVE  Working'
    BY DEF Working
  <2>0. reliable /\ ~uplink_closed /\ ~max_rate
    BY <1>2 DEF Receiver
  <2>1. relaying' # None =>
          /\ in_gap'
          /\ (tx_start_ms + Airtime + AfterPacket <= relay_ms)'
          /\ (relay_ms < tx_start_ms + Airtime + AfterPacket + 2 * BridgeGap)'
    BY <1>2, <2>0 DEF Working
  <2>2. packet_number' > 0 /\ now' < tx_start_ms' + Airtime => packet_in_full'
    <3>1. now + 1 < tx_start_ms + Airtime => now < tx_start_ms + Airtime
      BY Types, Margins
    <3> QED
      BY <1>2, <1>3, <2>0, <3>1 DEF Working
  <2>3. tx_start_ms + Airtime <= now + 1 /\ arrived' = None =>
          tx_start_ms + Airtime <= looped_ms
    <3>1. CASE tx_start_ms + Airtime <= now
      <4>1. arrived' = None => arrived = None
        BY <1>4, Frames, Types
      <4> QED
        BY <1>1, <2>0, <3>1, <4>1 DEF Working
    <3>2. CASE ~(tx_start_ms + Airtime <= now)
      <4>1. now < tx_start_ms + Airtime
        BY <3>2, Types, Margins
      <4>2. tx_active /\ packet_in_full
        BY <1>1, <2>0, <4>1 DEF Receiver, Working
      <4>3. tx_start_ms + Airtime <= now + 1 => now + 1 = tx_start_ms + Airtime
        BY <4>1, Types, Margins
      <4>4. tx_start_ms + Airtime <= now + 1 => arrived' = packet_number
        BY <1>1, <2>0, <4>2, <4>3 DEF PacketEnds, Delivered
      <4> QED
        BY <4>4, Frames, Types
    <3> QED
      BY <3>1, <3>2
  <2>4. Waiting(timer)' => (next_ms + Airtime < timer.queued_ms + 2 * Period /\
          packet_number > 0)'
    BY <1>2, <2>0 DEF Working, Waiting
  <2>5. Waiting(timer)' /\ ~timer'.heard =>
          \/ now' < tx_start_ms' + Airtime
          \/ arrived' # None
          \/ tx_start_ms' + Airtime < timer'.queued_ms
    <3> SUFFICES ASSUME Waiting(timer), ~timer.heard, arrived' = None,
                        ~(now + 1 < tx_start_ms + Airtime)
                 PROVE  tx_start_ms + Airtime < timer.queued_ms
      BY <1>2, <1>3 DEF Waiting
    <3>1. arrived = None
      BY <1>4, Frames, Types
    <3>2. tx_start_ms + Airtime <= looped_ms
      BY <2>3, Types, Margins
    <3>3. ~(now < tx_start_ms + Airtime)
      BY <3>2, Types, Margins DEF Polling
    <3> QED
      BY <2>0, <3>1, <3>3 DEF Working
  <2>6. fifo' # None =>
          /\ (tx_start_ms + Airtime + AfterPacket <= relay_ms)'
          /\ (relay_ms + CommandAirtime <= now)'
          /\ Waiting(timer)' => ~timer'.heard
    <3>1. CASE fifo' = fifo
      <4>1. relay_ms + CommandAirtime <= now =>
              relay_ms + CommandAirtime <= now + 1
        BY Types, Margins
      <4> QED
        BY <1>2, <1>3, <2>0, <3>1, <4>1 DEF Working, Waiting
    <3>2. CASE relaying # None /\ now + 1 = relay_ms + CommandAirtime
      <4>1. relay_ms + CommandAirtime <= now + 1
        BY <3>2, Types, Margins
      <4> QED
        BY <1>2, <1>3, <2>0, <3>2, <4>1 DEF Working, Polling, Waiting
    <3> QED
      BY <1>5, <3>1, <3>2
  <2>7. awaited'.command # None =>
          /\ ~scrubbing' /\ last_command_pn' < awaited'.newest
          /\ InTimer' \/ OnItsWay' \/ WithVehicle'
    <3> SUFFICES ASSUME awaited.command # None
                 PROVE  InTimer' \/ OnItsWay' \/ WithVehicle'
      BY <1>2, <2>0 DEF Working
    <3>1. CASE InTimer
      <4>1. Waiting(timer) /\ relaying = None
        BY <3>1 DEF InTimer, Waiting, Polling
      <4> QED
        BY <1>2, <1>5, <3>1, <4>1 DEF InTimer
    <3>2. CASE OnItsWay
      <4>1. in_gap /\ in_full
        BY <2>0, <3>2 DEF OnItsWay, OnAir, Working, Gap
      <4>2. CASE now + 1 = relay_ms + CommandAirtime
        <5>1. fifo' = relaying
          BY <1>1, <2>0, <3>2, <4>1, <4>2 DEF CommandEnds, Delivered, OnItsWay,
               OnAir
        <5> QED
          BY <1>2, <3>2, <5>1 DEF OnItsWay, WithVehicle
      <4>3. CASE now + 1 # relay_ms + CommandAirtime
        <5>1. now < relay_ms + CommandAirtime
          BY <3>2 DEF OnItsWay, OnAir
        <5>2. now + 1 < relay_ms + CommandAirtime
          BY <4>3, <5>1, Types, Margins
        <5> QED
          BY <1>2, <1>3, <3>2, <5>2 DEF OnItsWay, OnAir
      <4> QED
        BY <4>2, <4>3
    <3>3. CASE WithVehicle
      <4>1. ~(now + 1 = relay_ms + CommandAirtime)
        <5>1. relay_ms + CommandAirtime <= now
          BY <2>0, <3>3 DEF WithVehicle, Working
        <5> QED
          BY <5>1, Types, Margins
      <4>2. fifo' = fifo
        BY <1>5, <4>1
      <4> QED
        BY <1>2, <3>3, <4>2 DEF WithVehicle
    <3> QED
      BY <2>0, <3>1, <3>2, <3>3 DEF Working
  <2> QED
    BY <1>1, <1>2, <1>3, <2>1, <2>2, <2>3, <2>4, <2>5, <2>6, <2>7 DEF Working
<1> QED
  BY <1>6, <1>7, <1>8, <1>9, <1>10, <1>11, <1>12

-----------------------------------------------------------------------------
(* The vehicle's poll. *)
LEMMA ServiceTransmitStep ==
  ASSUME UplinkInv, ServiceTransmit
  PROVE  UplinkInv'
<1> USE DEF UplinkInv
<1>1. /\ polled_ms' = now /\ step' = "window"
      /\ UNCHANGED <<now, next_ms, packet_number, last_command_pn, window_open,
                     uplink_closed, max_rate, auto_max_rate, looped_ms, timer,
                     relaying, relay_ms, in_gap, in_full, arrived,
                       packet_in_full,
                     console_pn, given, reliable, awaited, card_busy>>
      /\ scrubbing' = scrubbing \/ scrubbing' = FALSE
  BY DEF ServiceTransmit, schedule, bridge, console
<1>10. scrubbing' \in BOOLEAN /\ (~scrubbing => ~scrubbing')
  <2>1. CASE scrubbing' = scrubbing
    BY <2>1, Types
  <2>2. CASE scrubbing' = FALSE
    BY <2>2
  <2> QED
    BY <1>1, <2>1, <2>2
<1>2. /\ UNCHANGED <<listening, tx_was_receiving, tx_start_ms, fifo>>
      /\ \/ /\ tx_active /\ now >= tx_start_ms + Airtime
            /\ tx_active' = FALSE /\ receiving' =
                 (tx_was_receiving \/ listening)
         \/ /\ ~(tx_active /\ now >= tx_start_ms + Airtime)
            /\ UNCHANGED <<tx_active, receiving>>
  BY Types DEF ServiceTransmit, EndTransmit, modem
<1>0. ~(now >= tx_start_ms + Airtime) <=> now < tx_start_ms + Airtime
  BY Types, Margins
<1>3. Typed'
  <2>1. (tx_was_receiving \/ listening) \in BOOLEAN
    OBVIOUS
  <2>2. /\ tx_active' \in BOOLEAN /\ receiving' \in BOOLEAN
        /\ tx_active' => ~receiving' /\ fifo' = None /\ ~in_full'
    <3>1. CASE tx_active' = FALSE /\ receiving' =
                 (tx_was_receiving \/ listening)
      BY <2>1, <3>1
    <3>2. CASE UNCHANGED <<tx_active, receiving>>
      BY <1>1, <1>2, <3>2, Types
    <3> QED
      BY <1>2, <3>1, <3>2
  <2> QED
    BY <1>1, <1>2, <1>10, <2>2, Types, TypedAgain
<1>4. Polling'
  <2>1. now <= now /\ now <= now + PollGap'
    BY Types, Gaps
  <2> QED
    BY <1>1, <2>1 DEF Polling, Waiting
<1>5. Receiver'
  <2>1. tx_start_ms <= now
    BY Types DEF Receiver, Polling
  <2>2. tx_active' => tx_active /\ now < tx_start_ms + Airtime
    BY <1>0, <1>2, Zenon
  <2>3. now < tx_start_ms + Airtime /\ tx_active => tx_active'
    BY <1>0, <1>2, Zenon
  <2>4. listening' /\ ~tx_active' => receiving'
    BY <1>2, Zenon DEF Receiver
  <2>5. packet_number = 0 => ~tx_active'
    BY <2>2 DEF Receiver
  <2> QED
    BY <1>1, <1>2, <2>1, <2>2, <2>3, <2>4, <2>5 DEF Receiver
<1>6. Schedule'
  BY <1>1, <1>2 DEF Schedule
<1>7. Gap'
  BY <1>1, <1>2 DEF Gap, Waiting, OnAir
<1>8. Numbers'
  BY <1>1, <1>2 DEF Numbers
<1>9. Working'
  BY <1>1, <1>2, <1>10 DEF Working, Waiting, InTimer, OnItsWay, WithVehicle,
       OnAir
<1> QED
  BY <1>3, <1>4, <1>5, <1>6, <1>7, <1>8, <1>9

LEMMA CheckWindowStep ==
  ASSUME UplinkInv, CheckWindow
  PROVE  UplinkInv'
<1> USE DEF UplinkInv
<1>1. /\ step # "idle" /\ step' = "telemetry"
      /\ UNCHANGED <<now, polled_ms, next_ms, packet_number, last_command_pn,
                     auto_max_rate, listening, receiving, tx_active,
                     tx_was_receiving, tx_start_ms, looped_ms, timer, relaying,
                     relay_ms, in_gap, fifo, in_full, arrived, packet_in_full,
                     console_pn, given, reliable, awaited, scrubbing,
                       card_busy>>
  BY DEF CheckWindow, modem, bridge, air, console
<1>2. \/ /\ now >= CommandWindow /\ window_open' = FALSE /\ uplink_closed' =
              TRUE
         /\ max_rate' = (max_rate \/ auto_max_rate)
      \/ UNCHANGED <<window_open, uplink_closed, max_rate>>
  BY DEF CheckWindow
<1>3. /\ window_open' \in BOOLEAN /\ uplink_closed' \in BOOLEAN
      /\ max_rate' \in BOOLEAN
      /\ uplink_closed => uplink_closed'
      /\ max_rate => max_rate' /\ (max_rate' => uplink_closed')
  <2>1. CASE /\ uplink_closed' = TRUE /\ window_open' = FALSE
             /\ max_rate' = (max_rate \/ auto_max_rate)
    <3>1. (max_rate \/ auto_max_rate) \in BOOLEAN
      OBVIOUS
    <3> QED
      BY <2>1, <3>1
  <2>2. CASE UNCHANGED <<window_open, uplink_closed, max_rate>>
    BY <2>2, Types DEF Receiver
  <2> QED
    BY <1>2, <2>1, <2>2
<1>4. Typed'
  BY <1>1, <1>3, Types, TypedAgain
<1>5. Polling'
  BY <1>1 DEF Polling, PollGap, Waiting
<1>6. Receiver'
  <2>1. packet_number = 0 => ~uplink_closed'
    <3>1. packet_number = 0 => ~(now >= CommandWindow) /\ ~uplink_closed
      BY Margins DEF Receiver
    <3> QED
      BY <1>2, <3>1
  <2>2. max_rate' => uplink_closed'
    BY <1>2, Zenon DEF Receiver
  <2>3. /\ packet_number' = 0 =>
             now' = 0 /\ next_ms' = 0 /\ ~uplink_closed' /\ ~tx_active'
        /\ packet_number' > 0 => listening'
        /\ listening' /\ ~tx_active' => receiving'
    BY <1>1, <2>1 DEF Receiver
  <2>4. /\ tx_start_ms' <= polled_ms'
        /\ tx_active' => polled_ms' < tx_start_ms' + Airtime
        /\ packet_number' > 0 /\ now' < tx_start_ms' + Airtime => tx_active'
    BY <1>1 DEF Receiver
  <2> QED
    BY <2>2, <2>3, <2>4 DEF Receiver
<1>7. Schedule' /\ Gap'
  BY <1>1, <1>3 DEF Schedule, Gap, Waiting, OnAir
<1>8. Numbers'
  BY <1>1 DEF Numbers
<1>9. Working'
  BY <1>1, <1>3 DEF Working, Waiting, InTimer, OnItsWay, WithVehicle, OnAir
<1> QED
  BY <1>4, <1>5, <1>6, <1>7, <1>8, <1>9

LEMMA NoPacketStep ==
  ASSUME UplinkInv, NoPacket
  PROVE  UplinkInv'
<1> USE DEF UplinkInv
<1>1. /\ step # "idle" /\ step' = "idle" /\ ~IsDue
      /\ UNCHANGED <<now, polled_ms, next_ms, packet_number, last_command_pn,
                     window_open, uplink_closed, max_rate, auto_max_rate,
                     listening, receiving, tx_active, tx_was_receiving,
                     tx_start_ms, looped_ms, timer, relaying, relay_ms, in_gap,
                     fifo, in_full, arrived, packet_in_full, console_pn, given,
                     reliable, awaited, scrubbing, card_busy>>
  BY DEF NoPacket, schedule, modem, bridge, air, console
<1>2. Typed'
  BY <1>1, Types, TypedAgain
<1>3. Polling' /\ Receiver'
  BY <1>1 DEF Polling, PollGap, Receiver, Waiting
<1>4. Schedule'
  <2>1. packet_number > 0 /\ ~max_rate => polled_ms < next_ms
    <3> SUFFICES ASSUME packet_number > 0, ~max_rate
                 PROVE  polled_ms < next_ms
      OBVIOUS
    <3>1. tx_start_ms + Period <= next_ms + ScrubGap
      BY DEF Schedule
    <3>2. CASE tx_active
      <4>1. polled_ms < tx_start_ms + Airtime
        BY <3>2 DEF Receiver
      <4> QED
        BY <3>1, <4>1, Types, Margins
    <3>3. CASE ~tx_active
      BY <1>1, <3>3, Types DEF IsDue, Polling
    <3> QED
      BY <3>2, <3>3
  <2> QED
    BY <1>1, <2>1 DEF Schedule
<1>5. Gap'
  BY <1>1 DEF Gap, Waiting, OnAir
<1>6. Numbers'
  BY <1>1 DEF Numbers
<1>7. Working'
  BY <1>1 DEF Working, Waiting, InTimer, OnItsWay, WithVehicle, OnAir
<1> QED
  BY <1>2, <1>3, <1>4, <1>5, <1>6, <1>7

(* Nothing of the bridge's is under way when a packet is due below the max *)
(* rate, and the packet is due no longer than a poll.                      *)
LEMMA DueIsQuiet ==
  ASSUME UplinkInv, ~max_rate, IsDue
  PROVE  /\ arrived = None
         /\ ~(Waiting(timer) /\ timer.heard)
         /\ ~(OnAir /\ in_gap)
         /\ reliable /\ ~uplink_closed => relaying = None
         /\ next_ms <= now /\ now < next_ms + ScrubGap
         /\ DueAgain = next_ms + Period
<1> USE DEF UplinkInv
<1>1. ~tx_active /\ next_ms <= now /\ ~(now < next_ms)
  BY Types DEF IsDue
<1>2. CASE packet_number > 0
  <2>1. now < next_ms + ScrubGap
    BY <1>2 DEF Schedule
  <2>2. DueAgain = next_ms + Period
    <3>1. ~(next_ms + Period <= now)
      BY <2>1, Types, Margins
    <3> QED
      BY <3>1 DEF DueAgain
  <2> QED
    BY <1>1, <1>2, <2>1, <2>2, NotYetDue
<1>3. CASE packet_number = 0
  <2>1. now = 0 /\ next_ms = 0 /\ looped_ms = 0 /\ relay_ms = 0
    BY <1>3, Types DEF Receiver, Polling
  <2>2. /\ ~(tx_start_ms + Airtime <= 0)
        /\ ~(tx_start_ms + Airtime + AfterPacket <= 0)
        /\ 0 < 0 + ScrubGap /\ ~(0 + Period <= 0)
    BY Types, Margins
  <2>3. arrived = None
    BY <2>1, <2>2 DEF Gap
  <2>4. ~(Waiting(timer) /\ timer.heard)
    <3>1. Waiting(timer) /\ timer.heard =>
            tx_start_ms + Airtime <= timer.heard_ms /\ timer.heard_ms <= 0
      BY <2>1 DEF Gap
    <3> QED
      BY <3>1, <2>2, Types, Margins
  <2>5. ~(OnAir /\ in_gap) /\ (reliable /\ ~uplink_closed => relaying = None)
    BY <2>1, <2>2 DEF Gap, Working
  <2> QED
    BY <1>1, <2>1, <2>2, <2>3, <2>4, <2>5 DEF DueAgain
<1> QED
  BY <1>2, <1>3, Types

(* What the command slot makes of the frame the radio holds. *)
Obeys ==
  /\ ~uplink_closed /\ listening /\ receiving /\ fifo # None
  /\ fifo.pn > last_command_pn /\ fifo.pn <= packet_number + 1
  /\ last_command_pn' = fifo.pn
  /\ awaited' = IF awaited.command = fifo \/ scrubbing'
                THEN [awaited EXCEPT !.command = None] ELSE awaited

LEMMA EmitOutcome ==
  ASSUME UplinkInv, Emit
  PROVE  /\ step # "idle" /\ IsDue /\ step' = "idle"
         /\ UNCHANGED <<now, polled_ms, auto_max_rate, looped_ms, timer,
              relaying,
                        relay_ms, in_gap, card_busy, arrived, console_pn, given,
                        reliable>>
         /\ packet_number' = packet_number + 1
         /\ tx_active' = TRUE /\ tx_start_ms' = now /\ receiving' = FALSE
         /\ fifo' = None /\ in_full' = FALSE
         /\ packet_in_full' = (relaying = None)
         /\ tx_was_receiving' \in BOOLEAN
         /\ next_ms' = IF max_rate' THEN now + Slot ELSE DueAgain
         /\ listening' \in BOOLEAN
         /\ listening \/ ~uplink_closed => listening'
         /\ window_open' \in BOOLEAN /\ uplink_closed' \in BOOLEAN
         /\ max_rate' \in BOOLEAN
         /\ uplink_closed => uplink_closed'
         /\ max_rate => max_rate'
         /\ max_rate' => uplink_closed'
         /\ scrubbing' \in BOOLEAN
         /\ Obeys \/ UNCHANGED <<last_command_pn, awaited, scrubbing>>
         /\ ~uplink_closed /\ listening /\ receiving /\ fifo # None
            /\ fifo.pn > last_command_pn /\ fifo.pn <= packet_number + 1 =>
                 Obeys
<1> USE DEF UplinkInv
<1>1. /\ step # "idle" /\ IsDue /\ step' = "idle"
      /\ UNCHANGED <<now, polled_ms, auto_max_rate, looped_ms, timer, relaying,
                     relay_ms, in_gap, card_busy, arrived, console_pn, given,
                     reliable>>
      /\ packet_number' = packet_number + 1
      /\ tx_active' = TRUE /\ tx_start_ms' = now /\ receiving' = FALSE
      /\ fifo' = None /\ in_full' = FALSE
      /\ packet_in_full' = (relaying = None)
      /\ next_ms' = IF max_rate' THEN now + Slot ELSE DueAgain
  BY DEF Emit, StartTransmit, bridge
<1>2. tx_was_receiving' = (receiving \/ (listening' /\ ~listening))
  BY DEF Emit, StartTransmit
<1>3. tx_was_receiving' \in BOOLEAN
  <2>1. (receiving \/ (listening' /\ ~listening)) \in BOOLEAN
    OBVIOUS
  <2> QED
    BY <1>2, <2>1
<1>4. CASE uplink_closed
  <2>1. UNCHANGED <<listening, last_command_pn, awaited, max_rate,
          uplink_closed,
                    window_open, scrubbing>>
    BY <1>4 DEF Emit
  <2> QED
    BY <1>1, <1>3, <1>4, <2>1, Types
<1>5. CASE ~uplink_closed
  <2>1. ServiceGroundCommands
    BY <1>5 DEF Emit
  <2>2. listening' = TRUE /\ ~max_rate /\ scrubbing' \in BOOLEAN
    BY <1>5, <2>1, Types DEF ServiceGroundCommands, Receiver
  <2>3. CASE /\ listening /\ receiving /\ fifo # None
             /\ fifo.pn > last_command_pn /\ fifo.pn <= packet_number + 1
    <3>1. Received = fifo /\ Fresh(fifo)
      BY <2>3 DEF Received, Fresh
    <3>2. Obeys
      BY <1>5, <2>1, <2>3, <3>1 DEF Obeys, ServiceGroundCommands
    <3>3. \/ /\ max_rate' = TRUE /\ uplink_closed' = TRUE /\ window_open' =
                  FALSE
          \/ UNCHANGED <<max_rate, uplink_closed, window_open>>
      BY <2>1 DEF ServiceGroundCommands
    <3>4. /\ window_open' \in BOOLEAN /\ uplink_closed' \in BOOLEAN
          /\ max_rate' \in BOOLEAN /\ (max_rate' => uplink_closed')
      <4>1. CASE /\ max_rate' = TRUE /\ uplink_closed' = TRUE
                 /\ window_open' = FALSE
        BY <4>1
      <4>2. CASE UNCHANGED <<max_rate, uplink_closed, window_open>>
        BY <2>2, <4>2, Types
      <4> QED
        BY <3>3, <4>1, <4>2
    <3> QED
      BY <1>1, <1>3, <1>5, <2>2, <3>2, <3>4
  <2>4. CASE ~(/\ listening /\ receiving /\ fifo # None
               /\ fifo.pn > last_command_pn /\ fifo.pn <= packet_number + 1)
    <3>1. ~(Received # None /\ Fresh(Received))
      BY <2>4 DEF Received, Fresh
    <3>2. UNCHANGED <<last_command_pn, awaited, max_rate, uplink_closed,
            window_open,
                      scrubbing>>
      BY <2>1, <3>1 DEF ServiceGroundCommands
    <3> QED
      BY <1>1, <1>3, <1>5, <2>2, <2>4, <3>2, Types
  <2> QED
    BY <2>3, <2>4
<1> QED
  BY <1>4, <1>5

LEMMA EmitStep ==
  ASSUME UplinkInv, Emit
  PROVE  UplinkInv'
<1> USE DEF UplinkInv
<1>1. /\ step # "idle" /\ IsDue /\ step' = "idle"
      /\ UNCHANGED <<now, polled_ms, auto_max_rate, looped_ms, timer, relaying,
                     relay_ms, in_gap, card_busy, arrived, console_pn, given,
                     reliable>>
      /\ packet_number' = packet_number + 1
      /\ tx_active' = TRUE /\ tx_start_ms' = now /\ receiving' = FALSE
      /\ fifo' = None /\ in_full' = FALSE
      /\ packet_in_full' = (relaying = None)
      /\ tx_was_receiving' \in BOOLEAN
      /\ next_ms' = IF max_rate' THEN now + Slot ELSE DueAgain
  BY EmitOutcome
<1>2. /\ listening' \in BOOLEAN /\ (listening \/ ~uplink_closed => listening')
      /\ window_open' \in BOOLEAN /\ uplink_closed' \in BOOLEAN
      /\ max_rate' \in BOOLEAN
      /\ uplink_closed => uplink_closed'
      /\ max_rate => max_rate'
      /\ max_rate' => uplink_closed'
      /\ scrubbing' \in BOOLEAN
      /\ Obeys \/ UNCHANGED <<last_command_pn, awaited, scrubbing>>
  BY EmitOutcome
<1>3. now \in Nat /\ now + Slot \in Nat /\ DueAgain \in Nat
                  /\ packet_number + 1 \in Nat
      /\ packet_number + 1 > 0 /\ now < now + Airtime /\ ~(now + Airtime <= now)
      /\ polled_ms = now
  <2>1. now + Period \in Nat /\ next_ms + Period \in Nat
    BY Types, Margins
  <2> QED
    BY <1>1, <2>1, Types, Margins DEF DueAgain, Polling
<1>4. /\ last_command_pn' \in Nat /\ last_command_pn' <= awaited.newest
      /\ awaited' \in [command : Commands \cup {None}, since : Nat, newest :
           Nat]
      /\ awaited'.newest = awaited.newest /\ awaited'.since = awaited.since
      /\ awaited'.command # None =>
           /\ awaited'.command = awaited.command
           /\ scrubbing' => scrubbing
  <2>1. CASE Obeys
    <3>1. fifo \in Commands /\ fifo.pn \in Nat /\ fifo.pn <= awaited.newest
      <4>1. fifo \in Commands
        BY <2>1, Types DEF Obeys
      <4> QED
        BY <2>1, <4>1 DEF Obeys, Numbers, Commands
    <3>2. last_command_pn' = fifo.pn
      BY <2>1 DEF Obeys
    <3>3. CASE awaited.command = fifo \/ scrubbing'
      BY <2>1, <3>1, <3>2, <3>3, Types DEF Obeys
    <3>4. CASE ~(awaited.command = fifo \/ scrubbing')
      BY <2>1, <3>1, <3>2, <3>4, Types DEF Obeys
    <3> QED
      BY <3>3, <3>4
  <2>2. CASE UNCHANGED <<last_command_pn, awaited, scrubbing>>
    BY <2>2, Types DEF Numbers
  <2> QED
    BY <1>2, <2>1, <2>2
<1>5. Typed'
  <2>1. next_ms' \in Nat
    BY <1>1, <1>2, <1>3
  <2>2. relaying' # None => arrived' = None /\ ~packet_in_full'
    BY <1>1, Types
  <2>3. (relaying = None) \in BOOLEAN
    OBVIOUS
  <2>4. packet_in_full' \in BOOLEAN
    BY <1>1, <2>3
  <2> QED
    BY <1>1, <1>2, <1>3, <1>4, <2>1, <2>2, <2>4, Types, TypedAgain
<1>6. Polling'
  <2>1. now <= now + PollGap' /\ now <= now
    BY Types, Gaps
  <2> QED
    BY <1>1, <1>3, <2>1 DEF Polling, Waiting
<1>7. Receiver'
  <2>1. listening'
    <3>1. packet_number > 0 \/ ~uplink_closed
      BY Types DEF Receiver
    <3> QED
      BY <1>2, <3>1 DEF Receiver
  <2>2. packet_number' # 0
    BY <1>1, Types
  <2>3. now <= now
    BY <1>3
  <2> QED
    BY <1>1, <1>2, <1>3, <2>1, <2>2, <2>3 DEF Receiver
<1>8. Schedule'
  <2> SUFFICES ASSUME ~max_rate'
               PROVE  /\ next_ms' <= now + Period
                      /\ now + Period <= next_ms' + ScrubGap
                      /\ now < next_ms' /\ now < next_ms' + ScrubGap
    BY <1>1, <1>3 DEF Schedule
  <2>1. next_ms' = next_ms + Period /\ next_ms <= now
                                    /\ now < next_ms + ScrubGap
    BY <1>1, <1>2, DueIsQuiet
  <2>2. /\ next_ms + Period <= now + Period
        /\ now + Period <= next_ms + Period + ScrubGap
        /\ now < next_ms + Period /\ now < next_ms + Period + ScrubGap
    BY <2>1, Types, Margins
  <2> QED
    BY <2>1, <2>2
<1>9. Gap'
  <2>1. ~max_rate' => /\ arrived' = None
                      /\ ~(Waiting(timer)' /\ timer'.heard)
                      /\ ~(OnAir' /\ in_gap')
    BY <1>1, <1>2, DueIsQuiet DEF Waiting, OnAir
  <2> QED
    BY <2>1 DEF Gap
<1>10. Numbers'
  <2>1. \A command \in {timer.pending, relaying, fifo}' \ {None} :
          command.pn <= awaited'.newest /\ command.pn <= packet_number'
    <3> SUFFICES ASSUME NEW command \in {timer.pending, relaying} \ {None}
                 PROVE  command.pn <= awaited.newest /\ command.pn <=
                   packet_number + 1
      BY <1>1, <1>4
    <3>1. command \in Commands
      BY Types
    <3>2. command.pn \in Nat /\ command.pn <= awaited.newest
          /\ command.pn <= packet_number
      BY <3>1 DEF Numbers, Commands
    <3> QED
      BY <3>2, Types
  <2>2. console_pn <= packet_number + 1 /\ (arrived # None =>
          arrived <= packet_number + 1)
    BY Types DEF Numbers
  <2>3. awaited'.command # None => awaited'.command.pn = awaited'.newest
    BY <1>4 DEF Numbers
  <2> QED
    BY <1>1, <1>4, <2>1, <2>2, <2>3 DEF Numbers
<1>11. Working'
  <2> SUFFICES ASSUME reliable', ~uplink_closed'
               PROVE  Working'
    BY DEF Working
  <2>0. reliable /\ ~uplink_closed /\ ~max_rate /\ ~max_rate'
    BY <1>1, <1>2 DEF Receiver
  <2>1. /\ arrived' = None /\ relaying' = None /\ fifo' = None
        /\ packet_in_full'
        /\ Waiting(timer)' => ~timer'.heard
        /\ next_ms' = next_ms + Period
        /\ next_ms <= now
    BY <1>1, <2>0, DueIsQuiet DEF Waiting
  <2>2. Waiting(timer) => next_ms' + Airtime < timer.queued_ms + 2 * Period
    <3> SUFFICES ASSUME Waiting(timer)
                 PROVE  next_ms + Period + Airtime < timer.queued_ms + 2 * Period
      BY <2>1
    <3>1. packet_number > 0
      BY <2>0 DEF Working
    <3>2. ~tx_active /\ ~(now < tx_start_ms + Airtime)
      BY <1>1, <3>1 DEF IsDue, Receiver
    <3>3. tx_start_ms + Airtime < timer.queued_ms
      BY <1>1, <2>0, <2>1, <3>2 DEF Working, Waiting
    <3>4. next_ms <= tx_start_ms + Period
      BY <2>0, <3>1 DEF Schedule
    <3> QED
      BY <3>3, <3>4, Types, Margins
  <2>3. awaited'.command # None =>
          /\ ~scrubbing' /\ last_command_pn' < awaited'.newest
          /\ InTimer'
    <3> SUFFICES ASSUME awaited'.command # None
                 PROVE  /\ ~scrubbing' /\ last_command_pn' < awaited.newest
                        /\ InTimer'
      BY <1>4
    <3>1. awaited'.command = awaited.command /\ awaited.command # None
      BY <1>4
    <3>2. /\ ~scrubbing /\ last_command_pn < awaited.newest
          /\ InTimer \/ OnItsWay \/ WithVehicle
      BY <2>0, <3>1 DEF Working
    <3>3. ~OnItsWay
      BY <1>1, <2>1, <3>1 DEF OnItsWay
    <3>4. ~WithVehicle
      <4> SUFFICES ASSUME WithVehicle
                   PROVE  FALSE
        OBVIOUS
      <4>1. fifo # None /\ fifo \in Commands /\ fifo = awaited.command
        BY <3>1, Types DEF WithVehicle
      <4>2. fifo.pn = awaited.newest /\ fifo.pn <= packet_number
                                     /\ fifo.pn \in Nat
        BY <4>1 DEF Numbers, Commands
      <4>3. fifo.pn > last_command_pn /\ fifo.pn <= packet_number + 1
        BY <3>2, <4>2, Types
      <4>4. packet_number > 0
        <5>1. tx_start_ms + Airtime + AfterPacket <= relay_ms /\ relay_ms <= now
          BY <2>0, <4>1, Types DEF Working, Polling
        <5>2. now # 0
          BY <5>1, Types, Margins
        <5> QED
          BY <5>2, Types DEF Receiver
      <4>5. listening /\ receiving
        BY <1>1, <4>4 DEF Receiver, IsDue
      <4>6. Obeys
        BY <2>0, <4>1, <4>3, <4>5, EmitOutcome
      <4>7. awaited'.command = None
        BY <4>1, <4>6, Types DEF Obeys
      <4> QED
        BY <4>7
    <3>5. InTimer
      BY <3>2, <3>3, <3>4
    <3>6. last_command_pn' < awaited.newest
      BY <1>2, <3>2, <3>5 DEF InTimer, Obeys
    <3>7. ~scrubbing'
      BY <1>4, <3>2
    <3>8. InTimer'
      BY <1>1, <1>4, <3>1, <3>5 DEF InTimer
    <3> QED
      BY <3>6, <3>7, <3>8
  <2> QED
    BY <1>1, <1>3, <2>1, <2>2, <2>3 DEF Working, Waiting
<1> QED
  BY <1>5, <1>6, <1>7, <1>8, <1>9, <1>10, <1>11

-----------------------------------------------------------------------------
(* The bridge's loop. *)

(* What the timer holds once a command, if any, was put into it, and once  *)
(* the packet the radio holds, if any, was read.                           *)
LEMMA TimerOutcome ==
  ASSUME UplinkInv, NEW command \in Commands \cup {None},
         NEW queued, queued = Hold(timer, command),
         NEW after, after = HeardPacket(queued, arrived)
  PROVE  /\ queued \in Timers /\ after \in Timers
         /\ \/ queued = timer
            \/ /\ ~Waiting(timer) /\ Waiting(queued) /\ command # None
               /\ queued.pending = command /\ ~queued.heard
               /\ queued.queued_ms = now
         /\ after.pending = queued.pending /\ after.queued_ms = queued.queued_ms
         /\ IF arrived # None /\ Waiting(queued)
            THEN after.heard /\ after.heard_ms = now
            ELSE after = queued
<1> USE Types DEF UplinkInv
<1>1. /\ queued \in Timers
      /\ \/ queued = timer
         \/ /\ ~Waiting(timer) /\ Waiting(queued) /\ command # None
            /\ queued.pending = command /\ ~queued.heard
            /\ queued.queued_ms = now
  <2>1. CASE command = None \/ Waiting(timer)
    BY <2>1 DEF Hold
  <2>2. CASE command # None /\ ~Waiting(timer)
    <3>1. queued = [timer EXCEPT !.pending = command, !.heard = FALSE,
            !.queued_ms = now]
      BY <2>2 DEF Hold
    <3>2. /\ queued \in Timers /\ queued.pending = command /\ ~queued.heard
          /\ queued.queued_ms = now
      BY <3>1 DEF Timers
    <3> QED
      BY <2>2, <3>2 DEF Waiting
  <2> QED
    BY <2>1, <2>2
<1>2. /\ after \in Timers
      /\ after.pending = queued.pending /\ after.queued_ms = queued.queued_ms
      /\ IF arrived # None /\ Waiting(queued)
         THEN after.heard /\ after.heard_ms = now
         ELSE after = queued
  <2>1. CASE arrived # None /\ Waiting(queued)
    <3>1. after = [queued EXCEPT !.heard = TRUE, !.heard_ms = now]
      BY <2>1 DEF HeardPacket
    <3> QED
      BY <1>1, <2>1, <3>1 DEF Timers
  <2>2. CASE ~(arrived # None /\ Waiting(queued))
    BY <1>1, <2>2 DEF HeardPacket
  <2> QED
    BY <2>1, <2>2
<1> QED
  BY <1>1, <1>2

(* A command leaves for the gap only if it waited before this loop, heard  *)
(* the packet in an earlier one, and the vehicle has come to listen since. *)
LEMMA GapOutcome ==
  ASSUME UplinkInv, ~max_rate, relaying = None, looped_ms < now,
         NEW command \in Commands \cup {None},
         NEW queued, queued = Hold(timer, command),
         NEW after, after = HeardPacket(queued, arrived),
         Waiting(after), InGap(after)
  PROVE  /\ queued = timer /\ Waiting(timer) /\ timer.heard /\ arrived = None
         /\ after = timer
         /\ tx_start_ms + Airtime + AfterPacket <= now
         /\ now < tx_start_ms + Airtime + AfterPacket + 2 * BridgeGap
         /\ ~scrubbing => receiving /\ ~tx_active
<1> USE DEF UplinkInv
<1>1. after.heard /\ now - after.heard_ms >= AfterPacket
  BY DEF InGap
<1>2. Waiting(queued)
  BY TimerOutcome DEF Waiting
<1>3. ~(arrived # None)
  <2> SUFFICES ASSUME arrived # None
               PROVE  FALSE
    OBVIOUS
  <2>1. after.heard_ms = now
    BY <1>2, TimerOutcome
  <2>2. ~(now - now >= AfterPacket)
    BY Types, Margins
  <2> QED
    BY <1>1, <2>1, <2>2
<1>4. after = queued
  BY <1>3, TimerOutcome
<1>5. queued = timer
  BY <1>1, <1>4, TimerOutcome
<1>6. Waiting(timer) /\ timer.heard /\ now - timer.heard_ms >= AfterPacket
  BY <1>1, <1>2, <1>4, <1>5
<1>7. /\ tx_start_ms + Airtime <= timer.heard_ms
      /\ timer.heard_ms < tx_start_ms + Airtime + BridgeGap
      /\ looped_ms < timer.heard_ms + AfterPacket
      /\ now <= looped_ms + BridgeGap
  BY <1>6 DEF Gap, Polling
<1>8. /\ tx_start_ms + Airtime + AfterPacket <= now
      /\ now < tx_start_ms + Airtime + AfterPacket + 2 * BridgeGap
  BY <1>6, <1>7, Types, Margins
<1>9. ASSUME ~scrubbing
      PROVE  ~tx_active
  <2>1. now <= polled_ms + PollGap
    BY DEF Polling
  <2>2. polled_ms # tx_start_ms
    <3> SUFFICES ASSUME polled_ms = tx_start_ms
                 PROVE  FALSE
      OBVIOUS
    <3>1. now <= tx_start_ms + RowGap
      BY <1>9, <2>1, Gaps
    <3> QED
      BY <1>8, <3>1, Types, Margins
  <2>3. now <= polled_ms + VehicleGap
    BY <1>9, <2>1, <2>2, Gaps
  <2>4. ~(polled_ms < tx_start_ms + Airtime)
    BY <1>8, <2>3, Types, Margins
  <2> QED
    BY <2>4 DEF Receiver
<1>10. ~scrubbing => receiving
  <2>1. now # 0 /\ packet_number > 0
    BY Types DEF Receiver
  <2> QED
    BY <1>9, <2>1 DEF Receiver
<1> QED
  BY <1>3, <1>4, <1>5, <1>6, <1>8, <1>9, <1>10

(* On a link that loses nothing, no command is held for MaxHold.           *)
LEMMA NeverGivenUp ==
  ASSUME UplinkInv, reliable, ~uplink_closed, relaying = None,
         NEW command \in Commands \cup {None},
         NEW queued, queued = Hold(timer, command),
         NEW after, after = HeardPacket(queued, arrived),
         Due(after)
  PROVE  InGap(after)
<1> USE DEF UplinkInv
<1>0. Waiting(after) /\ Waiting(queued) /\ after.queued_ms = queued.queued_ms
  BY TimerOutcome DEF Due, Waiting
<1>1. now < queued.queued_ms + MaxHold
  <2>1. CASE queued = timer
    <3>1. Waiting(timer) /\ packet_number > 0 /\ ~max_rate
      BY <1>0, <2>1 DEF Working, Receiver
    <3>2. /\ next_ms + Airtime < timer.queued_ms + 2 * Period
          /\ tx_start_ms + Period <= next_ms + ScrubGap
          /\ next_ms <= tx_start_ms + Period
          /\ now < next_ms + ScrubGap
          /\ now <= looped_ms + BridgeGap
      BY <3>1 DEF Working, Schedule, Polling
    <3>3. tx_start_ms + Airtime < timer.queued_ms + Period + ScrubGap
      BY <3>2, Types, Margins
    <3>4. CASE timer.heard
      <4>1. /\ timer.heard_ms < tx_start_ms + Airtime + BridgeGap
            /\ looped_ms < timer.heard_ms + AfterPacket
        BY <3>1, <3>4 DEF Gap
      <4> QED
        BY <2>1, <3>2, <3>3, <4>1, Types, Margins
    <3>5. CASE ~timer.heard
      <4>1. \/ now < tx_start_ms + Airtime
            \/ arrived # None
            \/ tx_start_ms + Airtime < timer.queued_ms
        BY <3>1, <3>5 DEF Working
      <4>2. CASE now < tx_start_ms + Airtime
        BY <2>1, <3>3, <4>2, Types, Margins
      <4>3. CASE arrived # None
        <5>1. looped_ms < tx_start_ms + Airtime
          BY <3>1, <4>3 DEF Gap
        <5> QED
          BY <2>1, <3>2, <3>3, <5>1, Types, Margins
      <4>4. CASE tx_start_ms + Airtime < timer.queued_ms
        BY <2>1, <3>2, <4>4, Types, Margins
      <4> QED
        BY <4>1, <4>2, <4>3, <4>4
    <3> QED
      BY <3>4, <3>5, Types
  <2>2. CASE queued.queued_ms = now
    BY <2>2, Types, Margins
  <2> QED
    BY <2>1, <2>2, TimerOutcome
<1>2. queued.queued_ms \in Nat
  BY TimerOutcome DEF Timers
<1>3. ~(now - queued.queued_ms >= MaxHold)
  BY <1>1, <1>2, Types, Margins
<1> QED
  BY <1>0, <1>3 DEF Due

LEMMA BridgeStep ==
  ASSUME UplinkInv, NEW command \in Commands \cup {None},
         command # None => command.pn <= packet_number,
         BridgeLoop(command)
  PROVE  UplinkInv'
<1> USE DEF UplinkInv
<1> DEFINE queued == Hold(timer, command)
           after == HeardPacket(queued, arrived)
<1>1. /\ relaying = None /\ looped_ms < now /\ looped_ms' = now
      /\ arrived' = None
      /\ console_pn' = IF arrived = None THEN console_pn ELSE arrived
      /\ given' = IF command = None THEN given ELSE given + 1
      /\ UNCHANGED <<now, step, polled_ms, next_ms, packet_number,
           last_command_pn,
                     window_open, uplink_closed, max_rate, auto_max_rate,
                     listening, receiving, tx_active, tx_was_receiving,
                     tx_start_ms, fifo, reliable, scrubbing>>
  BY DEF BridgeLoop, vehicle, schedule, modem
<1>2. \/ /\ Due(after)
         /\ timer' = [after EXCEPT !.pending = None]
         /\ relaying' = after.pending /\ relay_ms' = now
         /\ in_gap' = InGap(after) /\ card_busy' = scrubbing
         /\ in_full' = receiving /\ packet_in_full' = FALSE
      \/ /\ ~Due(after) /\ timer' = after
         /\ UNCHANGED <<relaying, relay_ms, in_gap, card_busy, in_full,
                        packet_in_full>>
  BY DEF BridgeLoop
<1>3. \/ /\ queued # timer /\ command.pn > awaited.newest
         /\ awaited' = [command |-> IF scrubbing THEN None ELSE command,
                        since |-> now, newest |-> command.pn]
      \/ /\ ~(queued # timer /\ command.pn > awaited.newest)
         /\ awaited' = awaited
  BY DEF BridgeLoop
<1>4. /\ queued \in Timers /\ after \in Timers
      /\ \/ queued = timer
         \/ /\ ~Waiting(timer) /\ Waiting(queued) /\ command # None
            /\ queued.pending = command /\ ~queued.heard
            /\ queued.queued_ms = now
      /\ after.pending = queued.pending /\ after.queued_ms = queued.queued_ms
      /\ IF arrived # None /\ Waiting(queued)
         THEN after.heard /\ after.heard_ms = now
         ELSE after = queued
  BY TimerOutcome
<1>5. Waiting(after) /\ InGap(after) /\ ~max_rate =>
        /\ queued = timer /\ Waiting(timer) /\ timer.heard /\ arrived = None
        /\ after = timer
        /\ tx_start_ms + Airtime + AfterPacket <= now
        /\ now < tx_start_ms + Airtime + AfterPacket + 2 * BridgeGap
        /\ ~scrubbing => receiving /\ ~tx_active
  BY <1>1, GapOutcome
<1>6. reliable /\ ~uplink_closed /\ Due(after) => InGap(after)
  BY <1>1, NeverGivenUp
<1>7. /\ after.pending \in Commands \cup {None} /\ after.heard \in BOOLEAN
      /\ after.queued_ms \in Nat /\ after.heard_ms \in Nat
  BY <1>4 DEF Timers
<1>8. InGap(after) \in BOOLEAN /\ (Due(after) => Waiting(after))
  BY DEF InGap, Due
<1>9. packet_number > 0
  BY <1>1, Types DEF Receiver
<1> HIDE DEF queued, after
<1>10. /\ relaying' # None => Due(after)
       /\ Waiting(timer)' => ~Due(after) /\ timer' = after /\ Waiting(after)
       /\ timer' \in Timers
  <2>1. CASE Due(after) /\ timer' = [after EXCEPT !.pending = None]
    <3>1. timer' \in Timers /\ timer'.pending = None
      BY <1>4, <2>1 DEF Timers
    <3> QED
      BY <2>1, <3>1 DEF Waiting
  <2>2. CASE ~Due(after) /\ timer' = after /\ relaying' = relaying
    BY <1>1, <1>4, <2>2 DEF Waiting
  <2> QED
    BY <1>2, <2>1, <2>2
<1>11. command # None => command \in Commands /\ command.pn \in Nat
  BY DEF Commands
<1>12. /\ awaited' \in [command : Commands \cup {None}, since : Nat, newest :
            Nat]
       /\ awaited.newest <= awaited'.newest
       /\ queued # timer => command.pn <= awaited'.newest
       /\ awaited'.command # None => awaited'.command.pn = awaited'.newest
  <2>1. CASE queued # timer /\ command.pn > awaited.newest
    <3>1. command \in Commands /\ command.pn \in Nat
      BY <1>4, <1>11, <2>1
    <3>2. \E c \in {command, None} :
            awaited' = [command |-> c, since |-> now, newest |-> command.pn]
      BY <1>3, <2>1
    <3>3. command.pn <= command.pn /\ awaited.newest <= command.pn
      BY <2>1, <3>1, Types
    <3> QED
      BY <3>1, <3>2, <3>3, Types
  <2>2. CASE ~(queued # timer /\ command.pn > awaited.newest)
    <3>1. awaited' = awaited
      BY <1>3, <2>2
    <3>2. queued # timer => command.pn <= awaited.newest
      BY <1>4, <1>11, <2>2, Types
    <3>3. awaited.newest <= awaited.newest
      BY Types
    <3> QED
      BY <3>1, <3>2, <3>3, Types DEF Numbers
  <2> QED
    BY <2>1, <2>2
<1>13. Typed'
  <2>1. /\ relaying' \in Commands \cup {None} /\ relay_ms' \in Nat
        /\ in_gap' \in BOOLEAN /\ in_full' \in BOOLEAN
        /\ packet_in_full' \in BOOLEAN
        /\ card_busy' \in BOOLEAN
        /\ relaying' # None => ~packet_in_full'
        /\ tx_active => ~in_full'
    <3>1. CASE /\ relaying' = after.pending /\ relay_ms' = now
               /\ in_gap' = InGap(after) /\ card_busy' = scrubbing
               /\ in_full' = receiving /\ packet_in_full' = FALSE
      BY <1>7, <1>8, <3>1, Types
    <3>2. CASE UNCHANGED <<relaying, relay_ms, in_gap, card_busy, in_full,
                           packet_in_full>>
      BY <1>1, <3>2, Types
    <3> QED
      BY <1>2, <3>1, <3>2
  <2>2. console_pn' \in Nat /\ given' \in Nat
    <3>1. given + 1 \in Nat
      BY Types
    <3> QED
      BY <1>1, <3>1, Types
  <2> QED
    BY <1>1, <1>10, <1>12, <2>1, <2>2, Types, TypedAgain
<1>14. Polling'
  <2>1. relay_ms' <= now
    <3>1. relay_ms <= now /\ now <= now
      BY Types DEF Polling
    <3> QED
      BY <1>2, <3>1
  <2>2. relaying' # None => ~Waiting(timer)' /\ now <=
          relay_ms' + CommandAirtime + BridgeGap
    <3>1. now <= now + CommandAirtime + BridgeGap
      BY Types, Margins
    <3> QED
      BY <1>2, <1>10, <3>1
  <2>3. Waiting(timer)' => timer'.queued_ms <=
          now /\ now < timer'.queued_ms + MaxHold
    <3> SUFFICES ASSUME Waiting(after), ~Due(after)
                 PROVE  after.queued_ms <=
                   now /\ now < after.queued_ms + MaxHold
      BY <1>10
    <3>1. ~(now - after.queued_ms >= MaxHold)
      BY DEF Due
    <3>2. after.queued_ms <= now
      <4>1. CASE queued = timer
        <5>1. Waiting(timer) /\ after.queued_ms = timer.queued_ms
          BY <1>4, <4>1 DEF Waiting
        <5>2. timer.queued_ms <= looped_ms
          BY <5>1 DEF Polling
        <5> QED
          BY <1>1, <5>1, <5>2, Types
      <4>2. CASE queued.queued_ms = now
        BY <1>4, <4>2, Types
      <4> QED
        BY <1>4, <4>1, <4>2
    <3> QED
      BY <1>7, <3>1, <3>2, Types, Margins
  <2>4. now <= now /\ now <= now + BridgeGap
    BY Types, Margins
  <2>5. PollGap' = PollGap
    BY <1>1 DEF PollGap
  <2> QED
    BY <1>1, <2>1, <2>2, <2>3, <2>4, <2>5 DEF Polling
<1>15. Receiver' /\ Schedule'
  BY <1>1 DEF Receiver, Schedule
<1>16. Gap'
  <2> SUFFICES ASSUME ~max_rate
               PROVE  /\ Waiting(timer)' /\ timer'.heard =>
                           /\ tx_start_ms + Airtime <= timer'.heard_ms
                           /\ timer'.heard_ms < tx_start_ms + Airtime + BridgeGap
                           /\ timer'.heard_ms <= now
                           /\ now < timer'.heard_ms + AfterPacket
                      /\ OnAir' /\ in_gap' =>
                           /\ tx_start_ms + Airtime + AfterPacket <= relay_ms'
                           /\ relay_ms' <
                                tx_start_ms + Airtime + AfterPacket + 2 * BridgeGap
                           /\ ~card_busy' => in_full' /\ ~tx_active
    BY <1>1 DEF Gap
  <2>1. ASSUME Waiting(after), ~Due(after), after.heard
        PROVE  /\ tx_start_ms + Airtime <= after.heard_ms
               /\ after.heard_ms < tx_start_ms + Airtime + BridgeGap
               /\ after.heard_ms <= now
               /\ now < after.heard_ms + AfterPacket
    <3>1. Waiting(queued)
      BY <1>4, <2>1 DEF Waiting
    <3>2. CASE arrived # None
      <4>1. after.heard_ms = now
        BY <1>4, <3>1, <3>2
      <4>2. /\ looped_ms < tx_start_ms + Airtime /\ tx_start_ms + Airtime <= now
            /\ now <= looped_ms + BridgeGap
        BY <1>1, <3>2 DEF Gap, Polling
      <4> QED
        BY <4>1, <4>2, Types, Margins
    <3>3. CASE arrived = None
      <4>1. after = timer /\ Waiting(timer) /\ timer.heard
        BY <1>4, <2>1, <3>1, <3>3
      <4>2. ~(now - timer.heard_ms >= AfterPacket)
        BY <2>1, <4>1 DEF Due, InGap
      <4>3. /\ tx_start_ms + Airtime <= timer.heard_ms
            /\ timer.heard_ms < tx_start_ms + Airtime + BridgeGap
            /\ timer.heard_ms <= looped_ms
        BY <4>1 DEF Gap
      <4> QED
        BY <1>1, <4>1, <4>2, <4>3, Types, Margins
    <3> QED
      BY <3>2, <3>3
  <2>2. ASSUME OnAir', in_gap'
        PROVE  /\ tx_start_ms + Airtime + AfterPacket <= relay_ms'
               /\ relay_ms' < tx_start_ms + Airtime + AfterPacket + 2 * BridgeGap
               /\ ~card_busy' => in_full' /\ ~tx_active
    <3>1. Due(after)
      BY <1>10, <2>2 DEF OnAir
    <3>2. InGap(after) /\ relay_ms' = now /\ in_full' = receiving
          /\ card_busy' = scrubbing
      BY <1>2, <2>2, <3>1
    <3> QED
      BY <1>5, <1>8, <3>1, <3>2
  <2> QED
    BY <1>10, <2>1, <2>2
<1>17. Numbers'
  <2>1. console_pn' <= packet_number
    BY <1>1, Types DEF Numbers
  <2>2. \A c \in {timer.pending, relaying, fifo}' \ {None} :
          c.pn <= awaited'.newest /\ c.pn <= packet_number
    <3>1. {timer.pending, relaying, fifo}' \ {None} \subseteq {after.pending,
            fifo} \ {None}
      <4>1. CASE Due(after)
        <5>1. timer' = [after EXCEPT !.pending = None] /\ relaying' =
                after.pending
          BY <1>2, <4>1
        <5>2. timer'.pending = None
          BY <1>4, <5>1 DEF Timers
        <5> QED
          BY <1>1, <5>1, <5>2
      <4>2. CASE ~Due(after)
        BY <1>1, <1>2, <4>2
      <4> QED
        BY <4>1, <4>2
    <3> SUFFICES ASSUME NEW c \in {after.pending, fifo} \ {None}
                 PROVE  c.pn <= awaited'.newest /\ c.pn <= packet_number
      BY <3>1
    <3>2. CASE c \in {timer.pending, fifo}
      <4>1. c \in Commands
        BY <3>2, Types
      <4>2. c.pn \in Nat /\ c.pn <= awaited.newest /\ c.pn <= packet_number
        BY <3>2, <4>1 DEF Numbers, Commands
      <4>3. awaited'.newest \in Nat
        BY <1>12
      <4> QED
        BY <1>12, <4>2, <4>3, Types
    <3>3. CASE queued # timer /\ c = command
      BY <1>12, <3>3
    <3> QED
      BY <1>4, <3>2, <3>3
  <2>3. last_command_pn <= awaited'.newest
    <3>1. awaited'.newest \in Nat
      BY <1>12
    <3> QED
      BY <1>12, <3>1, Types DEF Numbers
  <2> QED
    BY <1>1, <1>12, <2>1, <2>2, <2>3 DEF Numbers
<1>18. Working'
  <2> SUFFICES ASSUME reliable', ~uplink_closed'
               PROVE  Working'
    BY DEF Working
  <2>0. reliable /\ ~uplink_closed /\ ~max_rate
    BY <1>1 DEF Receiver
  <2>1. Due(after) =>
          /\ queued = timer /\ Waiting(timer) /\ timer.heard /\ arrived = None
          /\ after = timer
          /\ tx_start_ms + Airtime + AfterPacket <= now
          /\ now < tx_start_ms + Airtime + AfterPacket + 2 * BridgeGap
    BY <1>5, <1>6, <1>8, <2>0
  <2>2. relaying' # None =>
          /\ in_gap'
          /\ tx_start_ms + Airtime + AfterPacket <= relay_ms'
          /\ relay_ms' < tx_start_ms + Airtime + AfterPacket + 2 * BridgeGap
    BY <1>2, <1>6, <1>10, <2>0, <2>1
  <2>3. now < tx_start_ms + Airtime => packet_in_full'
    <3> SUFFICES ASSUME now < tx_start_ms + Airtime
                 PROVE  packet_in_full'
      OBVIOUS
    <3>1. ~(tx_start_ms + Airtime + AfterPacket <= now)
      BY Types, Margins
    <3>2. ~Due(after)
      BY <2>1, <3>1
    <3> QED
      BY <1>2, <1>9, <2>0, <3>2 DEF Working
  <2>4. Waiting(timer)' => next_ms + Airtime < timer'.queued_ms + 2 * Period
    <3> SUFFICES ASSUME Waiting(after)
                 PROVE  next_ms + Airtime < after.queued_ms + 2 * Period
      BY <1>10
    <3>1. CASE queued = timer
      BY <1>4, <2>0, <3>1 DEF Working, Waiting
    <3>2. CASE queued.queued_ms = now
      <4>1. next_ms <= tx_start_ms + Period /\ tx_start_ms <= now
        BY <1>9, <2>0, Types DEF Schedule, Receiver, Polling
      <4>2. next_ms + Airtime < now + 2 * Period
        BY <4>1, Types, Margins
      <4> QED
        BY <1>4, <3>2, <4>2
    <3> QED
      BY <1>4, <3>1, <3>2
  <2>5. Waiting(timer)' /\ ~timer'.heard =>
          now < tx_start_ms + Airtime \/ tx_start_ms + Airtime < timer'.queued_ms
    <3> SUFFICES ASSUME Waiting(after), ~after.heard,
                          ~(now < tx_start_ms + Airtime)
                 PROVE  tx_start_ms + Airtime < after.queued_ms
      BY <1>10
    <3>1. after = queued /\ arrived = None
      BY <1>4 DEF Waiting
    <3>2. CASE queued = timer
      BY <2>0, <3>1, <3>2 DEF Working
    <3>3. CASE queued.queued_ms = now
      <4>1. tx_start_ms + Airtime <= now
        BY Types, Margins
      <4>2. tx_start_ms + Airtime <= looped_ms
        BY <1>9, <2>0, <3>1, <4>1 DEF Working
      <4>3. tx_start_ms + Airtime < now
        BY <1>1, <4>2, Types, Margins
      <4> QED
        BY <3>1, <3>3, <4>3
    <3> QED
      BY <1>4, <3>2, <3>3
  <2>6. fifo # None =>
          /\ tx_start_ms + Airtime + AfterPacket <= relay_ms
          /\ relay_ms + CommandAirtime <= now
          /\ ~Due(after) /\ (Waiting(after) => ~after.heard)
    <3> SUFFICES ASSUME fifo # None
                 PROVE  /\ tx_start_ms + Airtime + AfterPacket <= relay_ms
                        /\ relay_ms + CommandAirtime <= now
                        /\ ~Due(after) /\ (Waiting(after) => ~after.heard)
      OBVIOUS
    <3>1. /\ tx_start_ms + Airtime + AfterPacket <= relay_ms
          /\ relay_ms + CommandAirtime <= now
          /\ Waiting(timer) => ~timer.heard
      BY <2>0 DEF Working
    <3>2. ~(looped_ms < tx_start_ms + Airtime)
      <4>1. relay_ms <= looped_ms
        BY DEF Polling
      <4> QED
        BY <3>1, <4>1, Types, Margins
    <3>3. arrived = None
      BY <2>0, <3>2 DEF Gap
    <3>4. Waiting(after) => ~after.heard
      BY <1>4, <3>1, <3>3 DEF Waiting
    <3> QED
      BY <2>1, <3>1, <3>4
  <2>7. awaited'.command # None =>
          /\ ~scrubbing /\ last_command_pn < awaited'.newest
          /\ InTimer' \/ OnItsWay' \/ WithVehicle'
    <3>1. CASE queued # timer /\ command.pn > awaited.newest
      <4> SUFFICES ASSUME awaited'.command # None
                   PROVE  /\ ~scrubbing /\ last_command_pn < awaited'.newest
                          /\ InTimer' \/ OnItsWay' \/ WithVehicle'
        OBVIOUS
      <4>0. ~scrubbing
        BY <1>3, <3>1
      <4>1. awaited' = [command |-> command, since |-> now,
              newest |-> command.pn]
        BY <1>3, <3>1, <4>0
      <4>2. /\ awaited'.command = command /\ awaited'.since = now
            /\ awaited'.newest = command.pn
        BY <4>1
      <4>3. command.pn \in Nat /\ queued.pending = command
                               /\ queued.queued_ms = now
        BY <1>4, <1>11, <3>1
      <4>4. ~Due(after) /\ timer' = after
        BY <1>2, <2>1, <3>1
      <4>5. last_command_pn < command.pn
        BY <3>1, <4>3, Types DEF Numbers
      <4>6. fifo # None => fifo.pn < command.pn
        <5> SUFFICES ASSUME fifo # None
                     PROVE  fifo.pn < command.pn
          OBVIOUS
        <5>1. fifo \in Commands
          BY Types
        <5>2. fifo.pn \in Nat /\ fifo.pn <= awaited.newest
          BY <5>1 DEF Numbers, Commands
        <5> QED
          BY <3>1, <4>3, <5>2, Types
      <4>7. InTimer'
        BY <1>1, <1>4, <4>2, <4>3, <4>4, <4>6 DEF InTimer
      <4> QED
        BY <4>0, <4>2, <4>5, <4>7
    <3>2. CASE ~(queued # timer /\ command.pn > awaited.newest)
      <4> SUFFICES ASSUME awaited.command # None
                   PROVE  /\ ~scrubbing /\ last_command_pn < awaited.newest
                          /\ InTimer' \/ OnItsWay' \/ WithVehicle'
        BY <1>3, <3>2
      <4>0. awaited' = awaited
        BY <1>3, <3>2
      <4>1. /\ ~scrubbing /\ last_command_pn < awaited.newest
            /\ InTimer \/ OnItsWay \/ WithVehicle
        BY <2>0 DEF Working
      <4>2. ~OnItsWay
        BY <1>1 DEF OnItsWay
      <4>3. CASE InTimer
        <5>1. Waiting(timer)
          BY <4>3 DEF InTimer, Waiting
        <5>2. after.pending = awaited.command /\ after.queued_ms = awaited.since
          BY <1>4, <4>3, <5>1 DEF InTimer
        <5>3. CASE ~Due(after)
          <6>1. timer' = after
            BY <1>2, <5>3
          <6> QED
            BY <1>1, <4>0, <4>1, <4>3, <5>2, <6>1 DEF InTimer
        <5>4. CASE Due(after)
          <6>1. relaying' = after.pending /\ relay_ms' = now /\ ~card_busy'
            BY <1>2, <4>1, <5>4
          <6>2. next_ms + Airtime < awaited.since + 2 * Period
            BY <2>0, <4>3, <5>1 DEF Working, InTimer
          <6>3. now < now + CommandAirtime
            BY Types, Margins
          <6> QED
            BY <1>1, <4>0, <4>1, <5>2, <6>1, <6>2, <6>3 DEF OnItsWay, OnAir
        <5> QED
          BY <5>3, <5>4
      <4>4. CASE WithVehicle
        BY <1>1, <4>0, <4>1, <4>4 DEF WithVehicle
      <4> QED
        BY <4>1, <4>2, <4>3, <4>4
    <3> QED
      BY <3>1, <3>2
  <2>8. fifo' # None =>
          /\ tx_start_ms + Airtime + AfterPacket <= relay_ms'
          /\ relay_ms' + CommandAirtime <= now
          /\ Waiting(timer)' => ~timer'.heard
    BY <1>1, <1>2, <1>10, <2>6
  <2> QED
    BY <1>1, <1>9, <2>2, <2>3, <2>4, <2>5, <2>7, <2>8 DEF Working
<1> QED
  BY <1>13, <1>14, <1>15, <1>16, <1>17, <1>18

LEMMA RelayEndsStep ==
  ASSUME UplinkInv, RelayEnds
  PROVE  UplinkInv'
<1> USE DEF UplinkInv
<1>1. /\ relaying # None /\ now >= relay_ms + CommandAirtime
      /\ relaying' = None /\ in_gap' = FALSE /\ card_busy' = FALSE
      /\ looped_ms' = now
      /\ UNCHANGED <<now, step, polled_ms, next_ms, packet_number,
           last_command_pn,
                     window_open, uplink_closed, max_rate, auto_max_rate,
                       listening,
                     receiving, tx_active, tx_was_receiving, tx_start_ms, timer,
                     relay_ms, fifo, in_full, arrived, packet_in_full,
                       console_pn,
                     given, reliable, awaited, scrubbing>>
  BY DEF RelayEnds, vehicle, schedule, modem, air, console
<1>2. ~Waiting(timer) /\ arrived = None /\ ~OnAir
  <2>1. ~(now < relay_ms + CommandAirtime)
    BY <1>1, Types, Margins
  <2> QED
    BY <1>1, <2>1, Types DEF Polling, OnAir
<1>3. Typed'
  <2>1. /\ in_gap' \in BOOLEAN /\ card_busy' \in BOOLEAN
        /\ relaying' \in Commands \cup {None}
        /\ relaying' # None => arrived' = None /\ ~packet_in_full'
        /\ tx_active' => ~receiving' /\ fifo' = None /\ ~in_full'
    BY <1>1, Types
  <2> QED
    BY <1>1, <2>1, Types, TypedAgain
<1>4. Polling'
  <2>1. relay_ms <= now /\ now <= now /\ now <= now + BridgeGap
    BY Types, Margins DEF Polling
  <2>2. PollGap' = PollGap
    BY <1>1 DEF PollGap
  <2> QED
    BY <1>1, <1>2, <2>1, <2>2 DEF Polling, Waiting
<1>5. Receiver' /\ Schedule'
  BY <1>1 DEF Receiver, Schedule
<1>6. Gap'
  BY <1>1, <1>2 DEF Gap, Waiting, OnAir
<1>7. Numbers'
  BY <1>1 DEF Numbers
<1>8. Working'
  <2> SUFFICES ASSUME reliable, ~uplink_closed
               PROVE  Working'
    BY <1>1 DEF Working
  <2>1. awaited.command # None => ~OnItsWay
    BY <1>2 DEF OnItsWay
  <2>2. awaited'.command # None =>
          /\ ~scrubbing' /\ last_command_pn' < awaited'.newest
          /\ InTimer' \/ OnItsWay' \/ WithVehicle'
    BY <1>1, <2>1 DEF Working, InTimer, WithVehicle
  <2> QED
    BY <1>1, <1>2, <2>2 DEF Working, Waiting
<1> QED
  BY <1>3, <1>4, <1>5, <1>6, <1>7, <1>8

-----------------------------------------------------------------------------
LEMMA InvStep ==
  ASSUME UplinkInv, [Next]_vars
  PROVE  UplinkInv'
<1>1. ASSUME NEW lost \in BOOLEAN, Tick(lost)
      PROVE  UplinkInv'
  BY <1>1, TickStep
<1>2. CASE ServiceTransmit \/ CheckWindow \/ NoPacket \/ Emit
  BY <1>2, ServiceTransmitStep, CheckWindowStep, NoPacketStep, EmitStep
<1>3. CASE BridgeLoop(None)
  BY <1>3, BridgeStep
<1>4. ASSUME NEW kind \in {"erase_log", "max_rate"},
               NEW pn \in 1 .. packet_number,
             Give(kind, pn)
      PROVE  UplinkInv'
  <2>1. pn \in Nat /\ pn <= packet_number
    BY Types DEF UplinkInv
  <2>2. [kind |-> kind, pn |-> pn] \in Commands
    BY <2>1 DEF Commands
  <2>3. BridgeLoop([kind |-> kind, pn |-> pn])
    BY <1>4 DEF Give
  <2> QED
    BY <2>1, <2>2, <2>3, BridgeStep
<1>5. CASE RelayEnds
  BY <1>5, RelayEndsStep
<1>6. CASE UNCHANGED vars
  <2>1. UNCHANGED <<now, step, polled_ms, next_ms, packet_number,
          last_command_pn,
                    window_open, uplink_closed, max_rate, auto_max_rate,
                      listening,
                    receiving, tx_active, tx_was_receiving, tx_start_ms,
                      looped_ms,
                    timer, relaying, relay_ms, in_gap, fifo, in_full, arrived,
                    packet_in_full, console_pn, given, reliable, awaited,
                      scrubbing,
                    card_busy>>
    BY <1>6 DEF vars, vehicle, schedule, modem, bridge, air, console
  <2>2. Typed'
    BY <2>1, Types, TypedAgain DEF UplinkInv
  <2>3. Polling' /\ Receiver' /\ Schedule' /\ Gap'
    BY <2>1 DEF UplinkInv, Polling, PollGap, Receiver, Schedule, Gap, Waiting,
         OnAir
  <2>4. Numbers' /\ Working'
    BY <2>1 DEF UplinkInv, Numbers, Working, Waiting, OnAir, InTimer, OnItsWay,
                WithVehicle
  <2> QED
    BY <2>2, <2>3, <2>4 DEF UplinkInv
<1> QED
  BY <1>1, <1>2, <1>3, <1>4, <1>5, <1>6 DEF Next

LEMMA Inductive == Spec => []UplinkInv
<1>1. Init => UplinkInv
  BY InvInit
<1>2. UplinkInv /\ [Next]_vars => UplinkInv'
  BY InvStep
<1> QED
  BY <1>1, <1>2, PTL DEF Spec

(* Both radios are half duplex: neither receives while it transmits nor    *)
(* holds a frame its transmission has cleared (sx1278.cpp).                *)
THEOREM UplinkTyped == Spec => []TypeOK
<1>1. UplinkInv => TypeOK
  BY DEF UplinkInv, Typed
<1> QED
  BY <1>1, Inductive, PTL

(* Below the max rate, the vehicle receives a command sent for the gap     *)
(* from its first symbol on and sends nothing while it is on the air       *)
(* (uplink_timer.hpp), unless it was scrubbing the card when the command   *)
(* was sent: a packet and a command never meet.                            *)
THEOREM GapStaysQuiet == Spec => []GapIsQuiet
<1>1. UplinkInv => GapIsQuiet
  BY DEF UplinkInv, Gap, GapIsQuiet
<1> QED
  BY <1>1, Inductive, PTL

(* The bridge holds a command no longer than kMaxHoldMs and a loop,        *)
(* whatever it hears or does not hear (uplink_timer.hpp).                  *)
THEOREM GoesAnyway == Spec => []HeldInTime
<1>1. UplinkInv => HeldInTime
  <2> SUFFICES ASSUME UplinkInv, Waiting(timer)
               PROVE  now < timer.queued_ms + MaxHold + BridgeGap
    BY DEF HeldInTime
  <2>1. /\ looped_ms < timer.queued_ms + MaxHold
        /\ now <= looped_ms + BridgeGap
    BY DEF UplinkInv, Polling
  <2> QED
    BY <2>1, Types, Margins DEF UplinkInv
<1> QED
  BY <1>1, Inductive, PTL

(* On a link that loses nothing a command that names a newer packet than   *)
(* those before it is obeyed just before the next packet but one, unless   *)
(* the uplink closes or a scrub comes in between (controller.cpp,          *)
(* uplink_timer.hpp).                                                      *)
THEOREM CommandsObeyed == Spec => []ObeyedInTime
<1>1. UplinkInv => ObeyedInTime
  <2> SUFFICES ASSUME UplinkInv, reliable, awaited.command # None,
                        ~uplink_closed
               PROVE  now < awaited.since + 2 * Period - Airtime + ScrubGap
    BY DEF ObeyedInTime
  <2>1. packet_number > 0 /\ next_ms + Airtime < awaited.since + 2 * Period
    <3>1. CASE InTimer
      BY <3>1 DEF UplinkInv, Working, InTimer, Waiting
    <3>2. CASE ~InTimer
      <4>1. OnItsWay \/ WithVehicle
        BY <3>2 DEF UplinkInv, Working
      <4>2. next_ms + Airtime < awaited.since + 2 * Period
        BY <4>1 DEF OnItsWay, WithVehicle
      <4>3. relay_ms >= tx_start_ms + Airtime + AfterPacket
        BY <4>1, Types DEF UplinkInv, Working, OnItsWay, WithVehicle
      <4>4. now # 0
        BY <4>3, Types, Margins DEF UplinkInv, Polling
      <4> QED
        BY <4>2, <4>4, Types DEF UplinkInv, Receiver
    <3> QED
      BY <3>1, <3>2
  <2>2. now < next_ms + ScrubGap
    BY <2>1, Types DEF UplinkInv, Schedule, Receiver
  <2> QED
    BY <2>1, <2>2, Types, Margins DEF UplinkInv
<1> QED
  BY <1>1, Inductive, PTL
=============================================================================
