------------------------------ MODULE Downlink ------------------------------
(***************************************************************************)
(* The telemetry of the flight loop: the telemetry task (scheduler.cpp),   *)
(* emit_telemetry(), start_with_recovery(), service_transmit() and         *)
(* note_tx_failure() (controller.cpp), over the radio driver               *)
(* (pico_radio.cpp), which sends a packet on its own once it is started.   *)
(*                                                                         *)
(* One poll is: look at the packet on the air, let the command window run  *)
(* out, send a packet if one is due, look again.  Abstracted: the contents *)
(* of a packet, of which only the shape (rich or lean) counts; the faults  *)
(* reported; the rest of the poll, which is module Controller.             *)
(*                                                                         *)
(* The environment: in each poll the radio and the mandatory sensors work, *)
(* or they may do anything the driver can report.                          *)
(***************************************************************************)
EXTENDS Naturals

CONSTANTS
  Period,          (* telemetry_period_ms                                  *)
  RichSlot,        (* kMaxRateRichSlotMs                                   *)
  LeanSlot,        (* kMaxRateLeanSlotMs                                   *)
  LeanPerRich,     (* kMaxRateLeanPerRich                                  *)
  RichAirtime, LeanAirtime,   (* how long a packet is on the air           *)
  TxTimeout,       (* kTxTimeoutMs                                         *)
  ClaimSlack,      (* the millisecond check_transmit() gives a claim that  *)
                   (* comes early; 0 on a clock of coarser units           *)
  Backoff,         (* radio_recovery_backoff_ms                            *)
  RadioFailures,   (* radio_max_consecutive_failures                       *)
  SdFailures,      (* sd_max_failures                                      *)
  MaxGap,          (* bound on the time from one poll to the next          *)
  MaxTime          (* bound on the mission time                            *)

(* The slots outlast the airtimes (asserted in link_profile.hpp), the      *)
(* timeout outlasts both, and a run of failures long enough for a          *)
(* re-initialisation takes longer than the back-off: at the max rate, and  *)
(* when the rate is engaged within a run whose first packet was late.  The *)
(* shipped values give 4 * 296 >= 1000 and 700 + 3 * 296 >= 1000 + 588,    *)
(* so they allow a poll to be 588 ms late.  Only ReinitSpaced needs the    *)
(* last two lines.                                                         *)
ASSUME DownlinkAssumption ==
  /\ {Period, RichSlot, LeanSlot, RichAirtime, LeanAirtime, TxTimeout, Backoff,
      LeanPerRich, RadioFailures, SdFailures, MaxGap} \subseteq Nat \ {0}
  /\ MaxTime \in Nat /\ ClaimSlack \in Nat
  /\ RichSlot > RichAirtime /\ LeanSlot > LeanAirtime
  /\ TxTimeout > RichAirtime /\ TxTimeout > LeanAirtime
  /\ LeanSlot <= RichSlot /\ LeanSlot <= Period
  /\ (RadioFailures - 1) * LeanSlot >= Backoff
  /\ Period + (RadioFailures - 2) * LeanSlot >= Backoff + MaxGap - 1

VARIABLES
  now,                     (* the mission clock of the poll                *)
  pc,                      (* the next step of the poll                    *)
  next_ms, period_ms,      (* telemetry_task_                              *)
  packet_number,
  packets_sent, packets_tx_failed,
  tx_in_flight,
  tx_start_ms, tx_rich,    (* the packet last given to the radio           *)
  radio_healthy,           (* PicoRadio.healthy_                           *)
  radio_retry_after_ms, radio_consecutive_failures,
  max_rate, max_rate_slot,
  logger_enabled, sd_consecutive_failures,
  working, working_since,  (* environment: do they work, and since when?   *)
  quiet_until,   (* history: the back-off of the last re-initialisation    *)
  reserved,      (* history: the slot of the last packet, 0 at the         *)
                 (* command rate                                           *)
  leans,         (* history: lean packets since the last rich one          *)
  last_sent_ms,  (* history: when a packet was last seen to be sent        *)
  on_air         (* history: the number of the last packet on the air      *)

task == <<next_ms, period_ms>>
counters == <<packet_number, packets_sent, packets_tx_failed>>
onair == <<tx_in_flight, tx_start_ms, tx_rich, on_air, reserved>>
radio == <<radio_healthy, radio_retry_after_ms, radio_consecutive_failures,
           quiet_until>>
rate == <<max_rate, max_rate_slot, leans>>
logger == <<logger_enabled, sd_consecutive_failures>>
environment == <<working, working_since>>
vars == <<now, pc, task, counters, onair, radio, rate, logger, environment,
          last_sent_ms>>

(* What the environment may answer in this poll. *)
Answers == IF working THEN {TRUE} ELSE BOOLEAN

-----------------------------------------------------------------------------
(* The mission clock starts at 0 with the first poll. *)
Init ==
  /\ now = 0 /\ pc = "service"
  /\ next_ms = 0 /\ period_ms = Period
  /\ packet_number = 0 /\ packets_sent = 0 /\ packets_tx_failed = 0
  /\ tx_in_flight = FALSE /\ tx_start_ms = 0 /\ tx_rich = FALSE
  /\ radio_healthy \in BOOLEAN
  /\ radio_retry_after_ms = 0 /\ radio_consecutive_failures = 0
  /\ max_rate \in BOOLEAN /\ max_rate_slot = 0
  /\ logger_enabled \in BOOLEAN /\ sd_consecutive_failures = 0
  /\ working \in BOOLEAN /\ working_since = 0
  /\ quiet_until = 0 /\ reserved = 0 /\ leans = LeanPerRich
  /\ last_sent_ms = 0 /\ on_air = 0

BeginPoll(gap, works) ==
  /\ pc = "idle" /\ now + gap <= MaxTime
  /\ now' = now + gap
  /\ working' = works
  /\ working_since' = IF works /\ working THEN working_since ELSE now + gap
  /\ pc' = "service"
  /\ UNCHANGED <<task, counters, onair, radio, rate, logger, last_sent_ms>>

-----------------------------------------------------------------------------
(* Would one more failure end the run that note_tx_failure() counts? *)
Exhausted == radio_consecutive_failures + 1 >= RadioFailures

(* mutant: the back-off is not armed by the re-initialisation *)
FailureWithoutBackoff(healthy, reinit_ok) ==
  /\ radio_healthy' = IF Exhausted THEN reinit_ok ELSE healthy
  /\ UNCHANGED radio_retry_after_ms
  /\ radio_consecutive_failures' =
       IF Exhausted THEN 0 ELSE radio_consecutive_failures + 1

(* note_tx_failure(): one bounded re-initialisation after a run of         *)
(* failures.                                                               *)
NoteTxFailure(healthy, reinit_ok) ==
  /\ radio_healthy' = IF Exhausted THEN reinit_ok ELSE healthy
  /\ radio_retry_after_ms' = IF Exhausted THEN now + Backoff ELSE radio_retry_after_ms
  /\ radio_consecutive_failures' =
       IF Exhausted THEN 0 ELSE radio_consecutive_failures + 1

Elapsed == now - tx_start_ms
Airtime == IF tx_rich THEN RichAirtime ELSE LeanAirtime

(* check_transmit(): done before half the airtime is a lie of the line.    *)
ImpossiblyFast == Elapsed + ClaimSlack < Airtime \div 2
ClaimedDone == IF ImpossiblyFast THEN "failed" ELSE "sent"

(* mutant: a transmission that hangs is never given up *)
OutcomesWithoutTimeout ==
  IF working /\ working_since <= tx_start_ms
  THEN IF Elapsed >= Airtime THEN {"sent"} ELSE {"busy"}
  ELSE {"busy", ClaimedDone}

(* poll_transmit(): a radio that has worked since the packet was started   *)
(* sends it in its airtime.  Another may hang until the timeout, or claim  *)
(* to be done at any time, which before half the airtime gives it away and *)
(* after it does not.                                                      *)
Outcomes ==
  IF working /\ working_since <= tx_start_ms
  THEN IF Elapsed >= Airtime THEN {"sent"} ELSE {"busy"}
  ELSE {IF Elapsed < TxTimeout THEN "busy" ELSE "failed", ClaimedDone}

(* mutant: the failure that triggers a re-initialisation is not counted *)
FailedUncounted(reinit_ok) ==
  /\ tx_in_flight' = FALSE
  /\ packets_tx_failed' = IF Exhausted THEN packets_tx_failed ELSE packets_tx_failed + 1
  /\ NoteTxFailure(radio_healthy, reinit_ok)
  /\ quiet_until' = IF Exhausted THEN now + Backoff ELSE quiet_until
  /\ UNCHANGED <<packets_sent, last_sent_ms>>

TxFailed(reinit_ok) ==
  /\ tx_in_flight' = FALSE
  /\ packets_tx_failed' = packets_tx_failed + 1
  /\ NoteTxFailure(radio_healthy, reinit_ok)
  /\ quiet_until' = IF Exhausted THEN now + Backoff ELSE quiet_until
  /\ UNCHANGED <<packets_sent, last_sent_ms>>

TxSent ==
  /\ tx_in_flight' = FALSE
  /\ packets_sent' = packets_sent + 1
  /\ radio_retry_after_ms' = 0 /\ radio_consecutive_failures' = 0
  /\ last_sent_ms' = now
  /\ UNCHANGED <<packets_tx_failed, radio_healthy, quiet_until>>

(* service_transmit(), called before the sensors are read and again after  *)
(* a packet was started.                                                   *)
ServiceTransmit(outcome, reinit_ok) ==
  /\ pc \in {"service", "settle"}
  /\ \/ /\ tx_in_flight /\ outcome \in Outcomes
        /\ \/ outcome = "sent" /\ TxSent
           \/ outcome = "failed" /\ TxFailed(reinit_ok)
           \/ outcome = "busy"
              /\ UNCHANGED <<tx_in_flight, counters, radio, last_sent_ms>>
     \/ /\ ~tx_in_flight /\ outcome = "idle"
        /\ UNCHANGED <<tx_in_flight, counters, radio, last_sent_ms>>
  /\ pc' = IF pc = "service" THEN "window" ELSE "idle"
  /\ UNCHANGED <<now, task, packet_number, tx_start_ms, tx_rich, on_air,
                 reserved, rate, logger, environment>>

-----------------------------------------------------------------------------
(* The command window runs out, and engages the max rate.  Engaging it     *)
(* starts the pattern at its rich packet.                                  *)
WindowTimeout(engages) ==
  /\ pc = "window"
  /\ IF engages /\ ~max_rate
     THEN max_rate' = TRUE /\ max_rate_slot' = 0 /\ leans' = LeanPerRich
     ELSE UNCHANGED rate
  /\ pc' = "telemetry"
  /\ UNCHANGED <<now, task, counters, onair, radio, logger, environment,
                 last_sent_ms>>

(* PeriodicTask::due() when it fires: a task that fell behind by more than *)
(* a period is re-anchored.                                                *)
DueAgain == IF next_ms + period_ms <= now THEN now + period_ms ELSE next_ms + period_ms

IsDue == ~tx_in_flight /\ now >= next_ms

NoPacket ==
  /\ pc = "telemetry" /\ ~IsDue
  /\ pc' = "idle"
  /\ UNCHANGED <<now, task, counters, onair, radio, rate, logger, environment,
                 last_sent_ms>>

(* The mandatory data is not valid: nothing is sent and no number used. *)
Suppress ==
  /\ pc = "telemetry" /\ IsDue /\ ~working
  /\ next_ms' = DueAgain
  /\ pc' = "settle"
  /\ UNCHANGED <<now, period_ms, counters, onair, radio, rate, logger,
                 environment, last_sent_ms>>

(* start_with_recovery() and the count of a packet it could not start:     *)
(* within the back-off nothing is tried; a radio that is down is           *)
(* re-initialised; one that is up may still refuse the packet.             *)
StartWithRecovery(rich, reinit_ok, keyed) ==
  LET held == now < radio_retry_after_ms
      up == radio_healthy \/ reinit_ok
      starts == ~held /\ up /\ keyed
      refused == ~held /\ up /\ ~keyed
  IN /\ IF starts
        THEN /\ tx_in_flight' = TRUE /\ tx_start_ms' = now /\ tx_rich' = rich
             /\ on_air' = packet_number + 1
             /\ UNCHANGED packets_tx_failed
        ELSE /\ packets_tx_failed' = packets_tx_failed + 1
             /\ UNCHANGED <<tx_in_flight, tx_start_ms, tx_rich, on_air>>
     /\ IF refused
        THEN NoteTxFailure(TRUE, reinit_ok)
        ELSE /\ radio_healthy' = (radio_healthy \/ starts)
             /\ radio_retry_after_ms' =
                  IF ~held /\ ~up THEN now + Backoff ELSE radio_retry_after_ms
             /\ UNCHANGED radio_consecutive_failures
     /\ quiet_until' = IF ~held /\ (~radio_healthy \/ (refused /\ Exhausted))
                       THEN now + Backoff ELSE quiet_until

(* mutant: at the max rate the task keeps the period it has *)
AdvanceWithoutReschedule(rich, slot, at_max) ==
  /\ next_ms' = DueAgain
  /\ UNCHANGED period_ms
  /\ max_rate_slot' = IF at_max THEN (slot + 1) % (LeanPerRich + 1) ELSE slot

(* mutant: the pattern has one slot too few *)
AdvanceShortPattern(rich, slot, at_max) ==
  IF at_max
  THEN LET length == IF rich THEN RichSlot ELSE LeanSlot
       IN /\ next_ms' = now + length /\ period_ms' = length
          /\ max_rate_slot' = (slot + 1) % LeanPerRich
  ELSE /\ next_ms' = DueAgain /\ max_rate_slot' = slot
       /\ UNCHANGED period_ms

(* mutant: the slots are counted on and on *)
AdvanceWithoutWrap(rich, slot, at_max) ==
  /\ next_ms' = DueAgain
  /\ UNCHANGED period_ms
  /\ max_rate_slot' = IF at_max THEN slot + 1 ELSE slot

(* When the next packet is due: at the max rate one slot of this packet's  *)
(* shape from now, whether or not it could be started.                     *)
Advance(rich, slot, at_max) ==
  IF at_max
  THEN LET length == IF rich THEN RichSlot ELSE LeanSlot
       IN /\ next_ms' = now + length /\ period_ms' = length
          /\ max_rate_slot' = (slot + 1) % (LeanPerRich + 1)
  ELSE /\ next_ms' = DueAgain /\ max_rate_slot' = slot
       /\ UNCHANGED period_ms

(* The row on the card: a run of failures retires the logger for good. *)
AppendRow(written) ==
  IF ~logger_enabled THEN UNCHANGED logger
  ELSE /\ sd_consecutive_failures' = IF written THEN 0 ELSE sd_consecutive_failures + 1
       /\ logger_enabled' = (sd_consecutive_failures' < SdFailures)

(* emit_telemetry(): command says that it obeyed MAX_RATE on this packet,  *)
(* whose shape was already chosen.                                         *)
Emit(command, reinit_ok, keyed, written) ==
  /\ pc = "telemetry" /\ IsDue
  /\ command => ~max_rate
  /\ LET rich == ~max_rate \/ max_rate_slot = 0
         at_max == max_rate \/ command
     IN /\ packet_number' = packet_number + 1
        /\ max_rate' = at_max
        /\ StartWithRecovery(rich, reinit_ok, keyed)
        /\ Advance(rich, IF command THEN 0 ELSE max_rate_slot, at_max)
        /\ leans' = IF rich THEN 0 ELSE leans + 1
        /\ reserved' = IF tx_start_ms' = now /\ tx_in_flight'
                       THEN IF ~at_max THEN 0 ELSE IF rich THEN RichSlot ELSE LeanSlot
                       ELSE reserved
  /\ AppendRow(written)
  /\ pc' = "settle"
  /\ UNCHANGED <<now, packets_sent, environment, last_sent_ms>>

Next ==
  \/ \E gap \in 1 .. MaxGap, works \in BOOLEAN : BeginPoll(gap, works)
  \/ \E outcome \in {"busy", "sent", "failed", "idle"}, reinit_ok \in Answers :
       ServiceTransmit(outcome, reinit_ok)
  \/ \E engages \in BOOLEAN : WindowTimeout(engages)
  \/ NoPacket
  \/ Suppress
  \/ \E command, written \in BOOLEAN, reinit_ok, keyed \in Answers :
       Emit(command, reinit_ok, keyed, written)

Spec == Init /\ [][Next]_vars

-----------------------------------------------------------------------------
(* Properties. *)

TypeOK ==
  /\ {now, next_ms, period_ms, packet_number, packets_sent, packets_tx_failed,
      tx_start_ms, radio_retry_after_ms, radio_consecutive_failures,
      sd_consecutive_failures, working_since, quiet_until, reserved, leans,
      last_sent_ms, on_air} \subseteq Nat
  /\ {tx_in_flight, tx_rich, radio_healthy, max_rate, logger_enabled, working}
       \subseteq BOOLEAN
  /\ pc \in {"idle", "service", "window", "telemetry", "settle"}
  /\ max_rate_slot \in 0 .. LeanPerRich

(* Every packet number used is accounted for exactly once, whatever became *)
(* of the packet: refused, held back, lost on the air, still there or sent.*)
EveryNumberCounted ==
  packet_number = packets_sent + packets_tx_failed + (IF tx_in_flight THEN 1 ELSE 0)

(* The radio is never re-initialised again within the back-off: the        *)
(* "spacing between bounded re-init attempts" (config.hpp), over the two   *)
(* places that re-initialise it and whatever each attempt yields.          *)
ReinitSpaced ==
  [][quiet_until' # quiet_until => now >= quiet_until]_vars

(* At the max rate a packet is on the air no sooner than the slot of the   *)
(* one before it has passed, so the gap the receivers need is kept after a *)
(* late poll, a suppressed packet and a refused one alike.                 *)
SlotsKept ==
  [][tx_in_flight' /\ ~tx_in_flight => now >= tx_start_ms + reserved]_vars

(* At the max rate the optional sensors ride on every (LeanPerRich + 1)th  *)
(* number, no more and no less often, however the rate came to be engaged  *)
(* and through suppressed and failed packets.                              *)
PatternKept ==
  max_rate => (max_rate_slot = 0 <=> leans >= LeanPerRich)

(* Once the radio and the sensors work, packets are sent, and go on being  *)
(* sent: whatever state the failures left (a packet hung, a back-off begun,*)
(* a radio down), it takes at most what is left of a timeout, a back-off   *)
(* and of the wait that began in it, and an airtime, each seen by the next *)
(* poll.                                                                   *)
Larger(a, b) == IF a >= b THEN a ELSE b
LongestWait == Larger(Period, Larger(RichSlot, LeanSlot))
LongestAirtime == Larger(RichAirtime, LeanAirtime)

RecoveryTime ==
  (TxTimeout - 1) + Backoff + (LongestWait - 1) + LongestAirtime + 3 * (MaxGap - 1)

SendsInTime ==
  working =>
    \/ now <= working_since + RecoveryTime
    \/ now <= last_sent_ms + RecoveryTime

(* "Packet numbering is strictly sequential over transmitted packets [...] *)
(* with no gaps that would be indistinguishable from radio loss"           *)
(* (software-architecture.md).                                             *)
SentWithoutGaps ==
  [][on_air' # on_air => on_air' = on_air + 1]_vars
=============================================================================
