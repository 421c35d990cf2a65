--------------------------- MODULE DownlinkProofs ---------------------------
(***************************************************************************)
(* Proofs about Downlink, for every period, slot, pattern, back-off and    *)
(* failure limit that DownlinkAssumption admits, and every behaviour of    *)
(* the radio.  The invariants are stacked, each on the one before it:      *)
(*   DownlinkInv  types of the variables it reads (Typed), the account of  *)
(*                the packet numbers, the slot of the last packet against  *)
(*                the next due time (SlotReserved), and the position in    *)
(*                the pattern against the packets counted (InPattern);     *)
(*   TypeInv      the types of the other variables;                        *)
(*   TimingInv    how late, in each state of the loop, the back-off, the   *)
(*                next due time and a packet on the air can be since the   *)
(*                radio works again (Timely, Recovering);                  *)
(*   SpacingInv   what holds the next re-initialisation back while it is   *)
(*                too early for one: the back-off itself, or the due time  *)
(*                of the packets that have yet to fail (Spacing).          *)
(***************************************************************************)
EXTENDS Downlink, TLAPS

Typed ==
  /\ now \in Nat /\ next_ms \in Nat /\ period_ms \in Nat
  /\ packet_number \in Nat /\ packets_sent \in Nat /\ packets_tx_failed \in Nat
  /\ tx_in_flight \in BOOLEAN /\ tx_start_ms \in Nat /\ reserved \in Nat
  /\ max_rate \in BOOLEAN /\ max_rate_slot \in 0 .. LeanPerRich
  /\ leans \in Nat

(* The task is not due again before the slot of the last packet is over.   *)
SlotReserved == next_ms >= tx_start_ms + reserved

(* Slot 0 is reached with the lean packets all sent, slot s > 0 with s - 1 *)
(* of them.                                                                *)
InPattern ==
  max_rate => IF max_rate_slot = 0 THEN leans >= LeanPerRich
              ELSE leans + 1 = max_rate_slot

DownlinkInv == Typed /\ EveryNumberCounted /\ SlotReserved /\ InPattern

-----------------------------------------------------------------------------
(* The constants, one by one. *)
LEMMA Constants ==
  /\ Period \in Nat /\ Period > 0
  /\ RichSlot \in Nat /\ RichSlot > 0
  /\ LeanSlot \in Nat /\ LeanSlot > 0
  /\ LeanPerRich \in Nat /\ LeanPerRich > 0
  /\ MaxGap \in Nat
BY DownlinkAssumption DEF DownlinkAssumption

(* The slots are counted round: after the last lean one comes the rich one.*)
LEMMA NextSlot ==
  ASSUME NEW s \in 0 .. LeanPerRich
  PROVE  (s + 1) % (LeanPerRich + 1) = IF s = LeanPerRich THEN 0 ELSE s + 1
<1>1. LeanPerRich \in Nat /\ LeanPerRich > 0
  BY Constants
<1>2. CASE s = LeanPerRich
  BY <1>1, <1>2
<1>3. CASE s # LeanPerRich
  BY <1>1, <1>3
<1> QED
  BY <1>2, <1>3

(* A task that fires is due again after now. *)
LEMMA DueAgainLater ==
  ASSUME Typed, now >= next_ms
  PROVE  DueAgain \in Nat /\ DueAgain >= now /\ DueAgain >= next_ms
BY DEF Typed, DueAgain

LEMMA InitHolds == Init => DownlinkInv
<1> SUFFICES ASSUME Init PROVE DownlinkInv
  OBVIOUS
<1>1. Typed
  <2>1. /\ now = 0 /\ next_ms = 0 /\ period_ms = Period
        /\ packet_number = 0 /\ packets_sent = 0 /\ packets_tx_failed = 0
        /\ tx_in_flight = FALSE /\ tx_start_ms = 0 /\ reserved = 0
        /\ max_rate \in BOOLEAN /\ max_rate_slot = 0 /\ leans = LeanPerRich
    BY DEF Init
  <2>2. tx_in_flight \in BOOLEAN /\ max_rate \in BOOLEAN
    BY <2>1
  <2>3. 0 \in Nat /\ 0 \in 0 .. LeanPerRich
    BY Constants
  <2> QED
    BY <2>1, <2>2, <2>3, Constants, Zenon DEF Typed
<1>2. EveryNumberCounted
  BY DEF Init, EveryNumberCounted
<1>3. SlotReserved
  BY DEF Init, SlotReserved
<1>4. InPattern
  BY Constants DEF Init, InPattern
<1> QED
  BY <1>1, <1>2, <1>3, <1>4 DEF DownlinkInv

-----------------------------------------------------------------------------
(* What the invariant reads. *)
read == <<now, next_ms, period_ms, packet_number, packets_sent, packets_tx_failed,
          tx_in_flight, tx_start_ms, reserved, max_rate, max_rate_slot, leans>>

LEMMA ReadUnchanged ==
  ASSUME DownlinkInv, UNCHANGED read
  PROVE  DownlinkInv'
BY DEF DownlinkInv, read, Typed, EveryNumberCounted, SlotReserved, InPattern

LEMMA BeginPollKeeps ==
  ASSUME DownlinkInv, NEW gap \in 1 .. MaxGap, NEW works \in BOOLEAN,
         BeginPoll(gap, works)
  PROVE  DownlinkInv'
<1>1. now' \in Nat
  <2>1. now + gap \in Nat
    BY Constants DEF DownlinkInv, Typed
  <2> QED
    BY <2>1 DEF BeginPoll
<1>2. UNCHANGED <<next_ms, period_ms, packet_number, packets_sent,
                  packets_tx_failed, tx_in_flight, tx_start_ms, reserved,
                  max_rate, max_rate_slot, leans>>
  BY DEF BeginPoll, task, counters, onair, rate
<1> QED
  BY <1>1, <1>2 DEF DownlinkInv, Typed, EveryNumberCounted, SlotReserved, InPattern

(* service_transmit() either leaves the account alone, or moves the packet *)
(* in flight to one of the two counters.                                   *)
LEMMA ServiceTransmitKeeps ==
  ASSUME DownlinkInv, NEW outcome \in {"busy", "sent", "failed", "idle"},
         NEW reinit_ok \in BOOLEAN, ServiceTransmit(outcome, reinit_ok)
  PROVE  DownlinkInv'
<1>1. UNCHANGED <<now, next_ms, period_ms, packet_number, tx_start_ms, reserved,
                  max_rate, max_rate_slot, leans>>
  BY DEF ServiceTransmit, task, rate
<1>2. \/ UNCHANGED <<tx_in_flight, packets_sent, packets_tx_failed>>
      \/ /\ tx_in_flight /\ tx_in_flight' = FALSE
         /\ packets_sent' = packets_sent + 1
         /\ packets_tx_failed' = packets_tx_failed
      \/ /\ tx_in_flight /\ tx_in_flight' = FALSE
         /\ packets_sent' = packets_sent
         /\ packets_tx_failed' = packets_tx_failed + 1
  BY DEF ServiceTransmit, TxSent, TxFailed, counters
<1>3. Typed' /\ EveryNumberCounted'
  <2>1. CASE UNCHANGED <<tx_in_flight, packets_sent, packets_tx_failed>>
    BY <1>1, <2>1 DEF DownlinkInv, Typed, EveryNumberCounted
  <2>2. CASE /\ tx_in_flight /\ tx_in_flight' = FALSE
             /\ packets_sent' = packets_sent + 1
             /\ packets_tx_failed' = packets_tx_failed
    <3>1. packet_number = packets_sent + 1 + packets_tx_failed
          /\ packets_sent + 1 \in Nat
      BY <2>2 DEF DownlinkInv, Typed, EveryNumberCounted
    <3>2. packet_number' = packets_sent' + packets_tx_failed'
      BY <1>1, <2>2, <3>1
    <3>3. packets_sent' + packets_tx_failed' + 0 = packets_sent' + packets_tx_failed'
      BY <1>1, <2>2, <3>1 DEF DownlinkInv, Typed
    <3> QED
      BY <1>1, <2>2, <3>1, <3>2, <3>3 DEF DownlinkInv, Typed, EveryNumberCounted
  <2>3. CASE /\ tx_in_flight /\ tx_in_flight' = FALSE
             /\ packets_sent' = packets_sent
             /\ packets_tx_failed' = packets_tx_failed + 1
    <3>1. packet_number = packets_sent + (packets_tx_failed + 1)
          /\ packets_tx_failed + 1 \in Nat
      BY <2>3 DEF DownlinkInv, Typed, EveryNumberCounted
    <3>2. packet_number' = packets_sent' + packets_tx_failed'
      BY <1>1, <2>3, <3>1
    <3>3. packets_sent' + packets_tx_failed' + 0 = packets_sent' + packets_tx_failed'
      BY <1>1, <2>3, <3>1 DEF DownlinkInv, Typed
    <3> QED
      BY <1>1, <2>3, <3>1, <3>2, <3>3 DEF DownlinkInv, Typed, EveryNumberCounted
  <2> QED
    BY <1>2, <2>1, <2>2, <2>3
<1>4. SlotReserved' /\ InPattern'
  BY <1>1 DEF DownlinkInv, SlotReserved, InPattern
<1> QED
  BY <1>3, <1>4 DEF DownlinkInv

(* Engaging the rate starts the pattern at its rich slot. *)
LEMMA WindowTimeoutKeeps ==
  ASSUME DownlinkInv, NEW engages \in BOOLEAN, WindowTimeout(engages)
  PROVE  DownlinkInv'
<1>1. UNCHANGED <<now, next_ms, period_ms, packet_number, packets_sent,
                  packets_tx_failed, tx_in_flight, tx_start_ms, reserved>>
  BY DEF WindowTimeout, task, counters, onair
<1>2. \/ UNCHANGED <<max_rate, max_rate_slot, leans>>
      \/ max_rate' = TRUE /\ max_rate_slot' = 0 /\ leans' = LeanPerRich
  BY DEF WindowTimeout, rate
<1>3. (max_rate' \in BOOLEAN /\ max_rate_slot' \in 0 .. LeanPerRich /\ leans' \in Nat)
      /\ InPattern'
  <2>1. CASE UNCHANGED <<max_rate, max_rate_slot, leans>>
    BY <2>1 DEF DownlinkInv, Typed, InPattern
  <2>2. CASE max_rate' = TRUE /\ max_rate_slot' = 0 /\ leans' = LeanPerRich
    <3>1. 0 \in 0 .. LeanPerRich /\ LeanPerRich \in Nat /\ LeanPerRich >= LeanPerRich
      BY Constants
    <3> QED
      BY <2>2, <3>1 DEF InPattern
  <2> QED
    BY <1>2, <2>1, <2>2
<1> QED
  BY <1>1, <1>3 DEF DownlinkInv, Typed, EveryNumberCounted, SlotReserved

LEMMA SuppressKeeps ==
  ASSUME DownlinkInv, Suppress
  PROVE  DownlinkInv'
<1>1. now >= next_ms /\ next_ms' = DueAgain
  BY DEF Suppress, IsDue
<1>2. UNCHANGED <<now, period_ms, packet_number, packets_sent,
                  packets_tx_failed, tx_in_flight, tx_start_ms, reserved,
                  max_rate, max_rate_slot, leans>>
  BY DEF Suppress, counters, onair, rate
<1>3. Typed
  BY DEF DownlinkInv
<1>4. DueAgain \in Nat /\ DueAgain >= next_ms
  BY <1>1, <1>3, DueAgainLater
<1>5. Typed'
  BY <1>1, <1>2, <1>3, <1>4 DEF Typed
<1>6. SlotReserved'
  <2>1. DueAgain >= tx_start_ms + reserved
    BY <1>3, <1>4 DEF DownlinkInv, SlotReserved, Typed
  <2> QED
    BY <1>1, <1>2, <2>1 DEF SlotReserved
<1>7. EveryNumberCounted' /\ InPattern'
  BY <1>2 DEF DownlinkInv, EveryNumberCounted, InPattern
<1> QED
  BY <1>5, <1>6, <1>7 DEF DownlinkInv

-----------------------------------------------------------------------------
(* A packet that is built is started, or counted as failed. *)
LEMMA StartedOrFailed ==
  ASSUME NEW rich \in BOOLEAN, NEW reinit_ok \in BOOLEAN, NEW keyed \in BOOLEAN,
         StartWithRecovery(rich, reinit_ok, keyed)
  PROVE  \/ /\ tx_in_flight' = TRUE /\ tx_start_ms' = now
            /\ packets_tx_failed' = packets_tx_failed
         \/ /\ UNCHANGED <<tx_in_flight, tx_start_ms>>
            /\ packets_tx_failed' = packets_tx_failed + 1
BY DEF StartWithRecovery

(* The next due time leaves room for the slot of this packet, at the max   *)
(* rate, and is not in the past at the command rate.                       *)
LEMMA AdvanceReserves ==
  ASSUME Typed, now >= next_ms, NEW rich \in BOOLEAN, NEW at_max \in BOOLEAN,
         NEW slot \in 0 .. LeanPerRich, Advance(rich, slot, at_max)
  PROVE  /\ next_ms' \in Nat /\ period_ms' \in Nat
         /\ next_ms' >= next_ms
         /\ next_ms' >= now + (IF ~at_max THEN 0 ELSE IF rich THEN RichSlot ELSE LeanSlot)
         /\ max_rate_slot' =
              IF at_max THEN IF slot = LeanPerRich THEN 0 ELSE slot + 1 ELSE slot
<1>1. CASE at_max
  <2> DEFINE length == IF rich THEN RichSlot ELSE LeanSlot
  <2>1. length \in Nat
    BY Constants
  <2>2. next_ms' = now + length /\ period_ms' = length
        /\ max_rate_slot' = (slot + 1) % (LeanPerRich + 1)
    BY <1>1 DEF Advance
  <2>3. now + length \in Nat /\ now + length >= next_ms /\ now + length >= now + length
    BY <2>1 DEF Typed
  <2>4. (slot + 1) % (LeanPerRich + 1) = IF slot = LeanPerRich THEN 0 ELSE slot + 1
    BY NextSlot
  <2> QED
    BY <1>1, <2>1, <2>2, <2>3, <2>4
<1>2. CASE ~at_max
  <2>1. next_ms' = DueAgain /\ max_rate_slot' = slot /\ period_ms' = period_ms
    BY <1>2 DEF Advance
  <2>2. DueAgain \in Nat /\ DueAgain >= now + 0 /\ DueAgain >= next_ms
    BY DueAgainLater DEF Typed
  <2> QED
    BY <1>2, <2>1, <2>2 DEF Typed
<1> QED
  BY <1>1, <1>2

(* emit_telemetry() uses one number, gives it to the radio or to the       *)
(* failures, and takes the next step of the pattern.                       *)
LEMMA EmitKeeps ==
  ASSUME DownlinkInv, NEW command \in BOOLEAN, NEW reinit_ok \in BOOLEAN,
         NEW keyed \in BOOLEAN, NEW written \in BOOLEAN,
         Emit(command, reinit_ok, keyed, written)
  PROVE  DownlinkInv'
<1> DEFINE rich == ~max_rate \/ max_rate_slot = 0
           at_max == max_rate \/ command
           slot == IF command THEN 0 ELSE max_rate_slot
           span == IF ~at_max THEN 0 ELSE IF rich THEN RichSlot ELSE LeanSlot
<1>1. Typed
  BY DEF DownlinkInv
<1>2. /\ ~tx_in_flight /\ now >= next_ms /\ (command => ~max_rate)
      /\ now' = now /\ packets_sent' = packets_sent
      /\ packet_number' = packet_number + 1
      /\ max_rate' = at_max
      /\ leans' = IF rich THEN 0 ELSE leans + 1
      /\ StartWithRecovery(rich, reinit_ok, keyed)
      /\ Advance(rich, slot, at_max)
      /\ reserved' = IF tx_start_ms' = now /\ tx_in_flight' THEN span ELSE reserved
  BY DEF Emit, IsDue
<1>3. rich \in BOOLEAN /\ at_max \in BOOLEAN /\ slot \in 0 .. LeanPerRich
      /\ span \in Nat
  <2>1. 0 \in 0 .. LeanPerRich /\ 0 \in Nat /\ RichSlot \in Nat /\ LeanSlot \in Nat
    BY Constants
  <2>2. slot \in 0 .. LeanPerRich
    BY <1>1, <2>1 DEF Typed
  <2>3. span \in Nat
    BY <2>1
  <2> QED
    BY <2>2, <2>3
<1> HIDE DEF rich, at_max, slot, span
<1>4. /\ next_ms' \in Nat /\ period_ms' \in Nat /\ next_ms' >= next_ms
      /\ next_ms' >= now + span
      /\ max_rate_slot' =
           IF at_max THEN IF slot = LeanPerRich THEN 0 ELSE slot + 1 ELSE slot
  BY <1>1, <1>2, <1>3, AdvanceReserves DEF span
<1>5. \/ /\ tx_in_flight' = TRUE /\ tx_start_ms' = now
         /\ packets_tx_failed' = packets_tx_failed
      \/ /\ UNCHANGED <<tx_in_flight, tx_start_ms>>
         /\ packets_tx_failed' = packets_tx_failed + 1
  BY <1>2, <1>3, StartedOrFailed
<1>6. Typed'
  <2>1. packet_number + 1 \in Nat /\ packets_tx_failed + 1 \in Nat /\ leans + 1 \in Nat
        /\ 0 \in Nat
    BY <1>1 DEF Typed
  <2>2. /\ packet_number' \in Nat /\ packets_sent' \in Nat /\ packets_tx_failed' \in Nat
        /\ tx_in_flight' \in BOOLEAN /\ tx_start_ms' \in Nat /\ now' \in Nat
    BY <1>1, <1>2, <1>5, <2>1 DEF Typed
  <2>3. reserved' \in Nat
    BY <1>1, <1>2, <1>3 DEF Typed
  <2>4. leans' \in Nat /\ max_rate' \in BOOLEAN
    BY <1>2, <1>3, <2>1
  <2>5. max_rate_slot' \in 0 .. LeanPerRich
    <3>1. 0 \in 0 .. LeanPerRich
          /\ (slot # LeanPerRich => slot + 1 \in 0 .. LeanPerRich)
      BY <1>3, Constants
    <3> QED
      BY <1>3, <1>4, <3>1
  <2> QED
    BY <1>4, <2>2, <2>3, <2>4, <2>5 DEF Typed
<1>7. EveryNumberCounted'
  <2>1. packet_number = packets_sent + packets_tx_failed
    BY <1>1, <1>2 DEF DownlinkInv, EveryNumberCounted, Typed
  <2>2. packet_number + 1 = packets_sent + packets_tx_failed + 1
        /\ packet_number + 1 = packets_sent + (packets_tx_failed + 1) + 0
    BY <1>1, <2>1 DEF Typed
  <2>3. CASE /\ tx_in_flight' = TRUE /\ tx_start_ms' = now
             /\ packets_tx_failed' = packets_tx_failed
    BY <1>2, <2>2, <2>3 DEF EveryNumberCounted
  <2>4. CASE /\ UNCHANGED <<tx_in_flight, tx_start_ms>>
             /\ packets_tx_failed' = packets_tx_failed + 1
    BY <1>2, <2>2, <2>4 DEF EveryNumberCounted
  <2> QED
    BY <1>5, <2>3, <2>4
<1>8. SlotReserved'
  <2>1. CASE /\ tx_in_flight' = TRUE /\ tx_start_ms' = now
             /\ packets_tx_failed' = packets_tx_failed
    <3>1. reserved' = span
      BY <1>2, <2>1
    <3> QED
      BY <1>4, <2>1, <3>1 DEF SlotReserved
  <2>2. CASE /\ UNCHANGED <<tx_in_flight, tx_start_ms>>
             /\ packets_tx_failed' = packets_tx_failed + 1
    <3>1. reserved' = reserved
      BY <1>2, <2>2
    <3>2. \A n \in Nat : n >= next_ms => n >= tx_start_ms + reserved
      BY <1>1 DEF DownlinkInv, SlotReserved, Typed
    <3> QED
      BY <1>4, <2>2, <3>1, <3>2 DEF SlotReserved
  <2> QED
    BY <1>5, <2>1, <2>2
<1>9. InPattern'
  <2>1. CASE command
    <3>1. rich /\ at_max /\ slot = 0 /\ LeanPerRich > 0 /\ LeanPerRich # 0
      BY <1>2, <2>1, Constants DEF rich, at_max, slot
    <3>2. leans' = 0 /\ max_rate_slot' = 0 + 1
      BY <1>2, <1>4, <3>1
    <3> QED
      BY <3>2 DEF InPattern
  <2>2. CASE ~command /\ max_rate /\ max_rate_slot = 0
    <3>1. rich /\ at_max /\ slot = 0 /\ LeanPerRich > 0 /\ LeanPerRich # 0
      BY <2>2, Constants DEF rich, at_max, slot
    <3>2. leans' = 0 /\ max_rate_slot' = 0 + 1
      BY <1>2, <1>4, <3>1
    <3> QED
      BY <3>2 DEF InPattern
  <2>3. CASE ~command /\ max_rate /\ max_rate_slot # 0
    <3>1. ~rich /\ at_max /\ slot = max_rate_slot /\ slot # 0 /\ leans + 1 = slot
      BY <2>3 DEF rich, at_max, slot, DownlinkInv, InPattern
    <3>2. leans' = slot /\ slot + 1 # 0 /\ slot >= slot
      BY <1>2, <1>3, <3>1
    <3> QED
      BY <1>4, <3>1, <3>2 DEF InPattern
  <2>4. CASE ~command /\ ~max_rate
    BY <1>2, <2>4 DEF at_max, InPattern
  <2> QED
    BY <2>1, <2>2, <2>3, <2>4
<1> QED
  BY <1>6, <1>7, <1>8, <1>9 DEF DownlinkInv

-----------------------------------------------------------------------------
LEMMA NextKeeps == DownlinkInv /\ [Next]_vars => DownlinkInv'
<1> SUFFICES ASSUME DownlinkInv, [Next]_vars PROVE DownlinkInv'
  OBVIOUS
<1>1. CASE \E gap \in 1 .. MaxGap, works \in BOOLEAN : BeginPoll(gap, works)
  BY <1>1, BeginPollKeeps
<1>2. CASE \E outcome \in {"busy", "sent", "failed", "idle"}, reinit_ok \in Answers :
             ServiceTransmit(outcome, reinit_ok)
  BY <1>2, ServiceTransmitKeeps DEF Answers
<1>3. CASE \E engages \in BOOLEAN : WindowTimeout(engages)
  BY <1>3, WindowTimeoutKeeps
<1>4. CASE NoPacket
  BY <1>4, ReadUnchanged DEF NoPacket, read, task, counters, onair, rate
<1>5. CASE Suppress
  BY <1>5, SuppressKeeps
<1>6. CASE \E command, written \in BOOLEAN, reinit_ok, keyed \in Answers :
             Emit(command, reinit_ok, keyed, written)
  BY <1>6, EmitKeeps DEF Answers
<1>7. CASE UNCHANGED vars
  BY <1>7, ReadUnchanged DEF vars, read, task, counters, onair, rate
<1> QED
  BY <1>1, <1>2, <1>3, <1>4, <1>5, <1>6, <1>7 DEF Next

(* The inductive invariant holds in every reachable state. *)
LEMMA Invariant == Spec => []DownlinkInv
<1> QED
  BY InitHolds, NextKeeps, PTL DEF Spec

(* Every packet number used is accounted for exactly once: it is sent, it  *)
(* has failed, or it is the one on the air (emit_telemetry,                *)
(* service_transmit).                                                      *)
THEOREM NumbersCounted == Spec => []EveryNumberCounted
<1>1. DownlinkInv => EveryNumberCounted
  BY DEF DownlinkInv
<1> QED
  BY <1>1, Invariant, PTL

(* At the max rate every (LeanPerRich + 1)th number is a rich packet, no   *)
(* more and no less often.                                                 *)
THEOREM RichInTurn == Spec => []PatternKept
<1>1. DownlinkInv => PatternKept
  <2> SUFFICES ASSUME DownlinkInv, max_rate
               PROVE  max_rate_slot = 0 <=> leans >= LeanPerRich
    BY DEF PatternKept
  <2>1. max_rate_slot # 0 => leans + 1 = max_rate_slot
    BY DEF DownlinkInv, InPattern
  <2>2. max_rate_slot # 0 => ~(leans >= LeanPerRich)
    BY <2>1, Constants DEF DownlinkInv, Typed
  <2> QED
    BY <2>2 DEF DownlinkInv, InPattern
<1> QED
  BY <1>1, Invariant, PTL

(* At the max rate a packet is on the air no sooner than the slot of the   *)
(* one before it has passed, whatever the polls and the radio do.          *)
THEOREM SlotIsKept == Spec => SlotsKept
<1>1. DownlinkInv /\ [Next]_vars =>
        [tx_in_flight' /\ ~tx_in_flight => now >= tx_start_ms + reserved]_vars
  <2> SUFFICES ASSUME DownlinkInv, Next, tx_in_flight', ~tx_in_flight
               PROVE  now >= tx_start_ms + reserved
    OBVIOUS
  <2>1. PICK command, written \in BOOLEAN, reinit_ok, keyed \in Answers :
          Emit(command, reinit_ok, keyed, written)
    BY DEF Next, BeginPoll, ServiceTransmit, WindowTimeout, NoPacket, Suppress,
       onair, TxSent, TxFailed
  <2>2. now >= next_ms
    BY <2>1 DEF Emit, IsDue
  <2> QED
    BY <2>2 DEF DownlinkInv, SlotReserved, Typed
<1> QED
  BY <1>1, Invariant, PTL DEF Spec, SlotsKept

-----------------------------------------------------------------------------
(* Typing, of the variables that the account of the numbers does not read. *)
TypedRest ==
  /\ pc \in {"idle", "service", "window", "telemetry", "settle"}
  /\ tx_rich \in BOOLEAN /\ radio_healthy \in BOOLEAN
  /\ logger_enabled \in BOOLEAN /\ working \in BOOLEAN
  /\ radio_retry_after_ms \in Nat /\ radio_consecutive_failures \in Nat
  /\ sd_consecutive_failures \in Nat /\ working_since \in Nat
  /\ quiet_until \in Nat /\ last_sent_ms \in Nat /\ on_air \in Nat

TypeInv == DownlinkInv /\ TypedRest

LEMMA Durations ==
  /\ Period \in Nat /\ Period > 0 /\ TxTimeout \in Nat /\ TxTimeout > 0
  /\ Backoff \in Nat /\ Backoff > 0 /\ MaxGap \in Nat /\ MaxGap > 0
  /\ RichAirtime \in Nat /\ RichAirtime > 0 /\ RichAirtime < TxTimeout
  /\ LeanAirtime \in Nat /\ LeanAirtime > 0 /\ LeanAirtime < TxTimeout
BY DownlinkAssumption DEF DownlinkAssumption

LEMMA InitTyped == Init => TypeInv
<1> SUFFICES ASSUME Init PROVE TypeInv
  OBVIOUS
<1>1. DownlinkInv
  BY InitHolds
<1>2. TypedRest
  BY DEF Init, TypedRest
<1> QED
  BY <1>1, <1>2 DEF TypeInv

(* note_tx_failure() *)
LEMMA FailureNoted ==
  ASSUME TypedRest, now \in Nat, NEW healthy \in BOOLEAN, NEW reinit_ok \in BOOLEAN,
         NoteTxFailure(healthy, reinit_ok)
  PROVE  /\ radio_healthy' \in BOOLEAN /\ radio_consecutive_failures' \in Nat
         /\ radio_retry_after_ms' \in {radio_retry_after_ms, now + Backoff}
<1>1. radio_consecutive_failures + 1 \in Nat /\ 0 \in Nat
  BY DEF TypedRest
<1>2. CASE Exhausted
  BY <1>1, <1>2 DEF NoteTxFailure
<1>3. CASE ~Exhausted
  BY <1>1, <1>3 DEF NoteTxFailure
<1> QED
  BY <1>2, <1>3

(* service_transmit(): nothing, a packet sent, or one that failed.         *)
ServicedSent ==
  /\ radio_retry_after_ms' = 0 /\ radio_consecutive_failures' = 0
  /\ last_sent_ms' = now /\ UNCHANGED <<radio_healthy, quiet_until>>

ServicedFailed ==
  /\ radio_healthy' \in BOOLEAN /\ radio_consecutive_failures' \in Nat
  /\ radio_retry_after_ms' \in {radio_retry_after_ms, now + Backoff}
  /\ quiet_until' \in {quiet_until, now + Backoff} /\ UNCHANGED last_sent_ms

LEMMA Serviced ==
  ASSUME TypedRest, now \in Nat, NEW outcome \in {"busy", "sent", "failed", "idle"},
         NEW reinit_ok \in BOOLEAN, ServiceTransmit(outcome, reinit_ok)
  PROVE  \/ /\ ~tx_in_flight \/ (tx_in_flight /\ "busy" \in Outcomes)
            /\ UNCHANGED <<tx_in_flight, radio_healthy, radio_retry_after_ms,
                           radio_consecutive_failures, quiet_until, last_sent_ms>>
         \/ /\ tx_in_flight /\ "sent" \in Outcomes /\ tx_in_flight' = FALSE
            /\ ServicedSent
         \/ /\ tx_in_flight /\ "failed" \in Outcomes /\ tx_in_flight' = FALSE
            /\ ServicedFailed
<1>1. CASE tx_in_flight /\ outcome \in Outcomes /\ outcome = "sent" /\ TxSent
  BY <1>1 DEF TxSent, ServicedSent
<1>2. CASE tx_in_flight /\ outcome \in Outcomes /\ outcome = "failed" /\ TxFailed(reinit_ok)
  <2>1. NoteTxFailure(radio_healthy, reinit_ok) /\ radio_healthy \in BOOLEAN
    BY <1>2 DEF TxFailed, TypedRest
  <2> QED
    BY <1>2, <2>1, FailureNoted DEF TxFailed, ServicedFailed
<1>3. CASE /\ \/ tx_in_flight /\ outcome \in Outcomes /\ outcome = "busy"
              \/ ~tx_in_flight
           /\ UNCHANGED <<tx_in_flight, counters, radio, last_sent_ms>>
  BY <1>3 DEF radio
<1> QED
  BY <1>1, <1>2, <1>3 DEF ServiceTransmit

(* start_with_recovery(): what it does to the radio. *)
LEMMA Started ==
  ASSUME TypedRest, now \in Nat, packet_number \in Nat, NEW rich \in BOOLEAN,
         NEW reinit_ok \in BOOLEAN, NEW keyed \in BOOLEAN,
         StartWithRecovery(rich, reinit_ok, keyed)
  PROVE  /\ tx_rich' \in BOOLEAN /\ on_air' \in Nat /\ quiet_until' \in Nat
         /\ radio_healthy' \in BOOLEAN /\ radio_consecutive_failures' \in Nat
         /\ radio_retry_after_ms' \in {radio_retry_after_ms, now + Backoff}
<1> DEFINE held == now < radio_retry_after_ms
           up == radio_healthy \/ reinit_ok
           starts == ~held /\ up /\ keyed
           refused == ~held /\ up /\ ~keyed
<1>1. tx_rich' \in BOOLEAN /\ on_air' \in Nat
  <2>1. packet_number + 1 \in Nat
    OBVIOUS
  <2>2. \/ tx_rich' = rich /\ on_air' = packet_number + 1
        \/ UNCHANGED <<tx_rich, on_air>>
    BY DEF StartWithRecovery
  <2> QED
    BY <2>1, <2>2 DEF TypedRest
<1>2. quiet_until' \in Nat
  <2>1. quiet_until' \in {quiet_until, now + Backoff} /\ now + Backoff \in Nat
    BY Durations DEF StartWithRecovery
  <2> QED
    BY <2>1 DEF TypedRest
<1>3. CASE refused
  <2>1. NoteTxFailure(TRUE, reinit_ok)
    BY <1>3 DEF StartWithRecovery
  <2> QED
    BY <1>1, <1>2, <2>1, FailureNoted
<1>4. CASE ~refused
  <2>1. /\ radio_healthy' = (radio_healthy \/ starts)
        /\ radio_retry_after_ms' = IF ~held /\ ~up THEN now + Backoff ELSE radio_retry_after_ms
        /\ UNCHANGED radio_consecutive_failures
    BY <1>4 DEF StartWithRecovery
  <2> HIDE DEF starts
  <2>2. radio_healthy' \in BOOLEAN
    BY <2>1, Zenon
  <2> QED
    BY <1>1, <1>2, <2>1, <2>2 DEF TypedRest
<1> QED
  BY <1>3, <1>4

LEMMA RowAppended ==
  ASSUME TypedRest, NEW written \in BOOLEAN, AppendRow(written)
  PROVE  logger_enabled' \in BOOLEAN /\ sd_consecutive_failures' \in Nat
<1>1. sd_consecutive_failures + 1 \in Nat /\ 0 \in Nat
  BY DEF TypedRest
<1>2. CASE ~logger_enabled
  BY <1>2 DEF AppendRow, logger, TypedRest
<1>3. CASE logger_enabled
  <2>1. /\ sd_consecutive_failures' = IF written THEN 0 ELSE sd_consecutive_failures + 1
        /\ logger_enabled' = (sd_consecutive_failures' < SdFailures)
    BY <1>3 DEF AppendRow
  <2> QED
    BY <1>1, <2>1
<1> QED
  BY <1>2, <1>3

LEMMA NextTyped == TypeInv /\ [Next]_vars => TypeInv'
<1> SUFFICES ASSUME TypeInv, [Next]_vars PROVE TypeInv'
  OBVIOUS
<1>a. DownlinkInv' /\ TypedRest /\ now \in Nat /\ packet_number \in Nat
      /\ 0 \in Nat /\ now + Backoff \in Nat
  BY NextKeeps, Durations DEF TypeInv, DownlinkInv, Typed
<1> USE DEF TypeInv
<1>1. ASSUME NEW gap \in 1 .. MaxGap, NEW works \in BOOLEAN, BeginPoll(gap, works)
      PROVE  TypeInv'
  <2>1. /\ pc' = "service" /\ working' = works
        /\ working_since' = (IF works /\ working THEN working_since ELSE now + gap)
        /\ UNCHANGED <<tx_rich, on_air, radio_healthy, radio_retry_after_ms,
                       radio_consecutive_failures, quiet_until, logger_enabled,
                       sd_consecutive_failures, last_sent_ms>>
    BY <1>1 DEF BeginPoll, onair, radio, logger
  <2>2. now + gap \in Nat
    BY <1>a, Durations
  <2> QED
    BY <1>a, <2>1, <2>2 DEF TypedRest
<1>2. ASSUME NEW outcome \in {"busy", "sent", "failed", "idle"},
             NEW reinit_ok \in BOOLEAN, ServiceTransmit(outcome, reinit_ok)
      PROVE  TypeInv'
  <2>1. /\ pc' \in {"window", "idle"}
        /\ UNCHANGED <<tx_rich, on_air, logger_enabled, sd_consecutive_failures,
                       working, working_since>>
    BY <1>2 DEF ServiceTransmit, logger, environment
  <2>2. /\ radio_healthy' \in BOOLEAN /\ radio_retry_after_ms' \in Nat
        /\ radio_consecutive_failures' \in Nat /\ quiet_until' \in Nat
        /\ last_sent_ms' \in Nat
    BY <1>a, <1>2, Serviced DEF ServicedSent, ServicedFailed, TypedRest
  <2> QED
    BY <1>a, <2>1, <2>2 DEF TypedRest
<1>3. ASSUME NEW engages \in BOOLEAN, WindowTimeout(engages) PROVE TypeInv'
  BY <1>a, <1>3 DEF WindowTimeout, onair, radio, logger, environment, TypedRest
<1>4. CASE NoPacket
  BY <1>a, <1>4 DEF NoPacket, onair, radio, logger, environment, TypedRest
<1>5. CASE Suppress
  BY <1>a, <1>5 DEF Suppress, onair, radio, logger, environment, TypedRest
<1>6. ASSUME NEW command \in BOOLEAN, NEW written \in BOOLEAN, NEW reinit_ok \in BOOLEAN,
             NEW keyed \in BOOLEAN, Emit(command, reinit_ok, keyed, written)
      PROVE  TypeInv'
  <2> DEFINE rich == ~max_rate \/ max_rate_slot = 0
  <2>1. /\ StartWithRecovery(rich, reinit_ok, keyed) /\ AppendRow(written)
        /\ pc' = "settle" /\ UNCHANGED <<working, working_since, last_sent_ms>>
    BY <1>6 DEF Emit, environment
  <2> HIDE DEF rich
  <2>2. rich \in BOOLEAN
    BY DEF rich
  <2>3. /\ tx_rich' \in BOOLEAN /\ on_air' \in Nat /\ quiet_until' \in Nat
        /\ radio_healthy' \in BOOLEAN /\ radio_consecutive_failures' \in Nat
        /\ radio_retry_after_ms' \in {radio_retry_after_ms, now + Backoff}
    BY <1>a, <2>1, <2>2, Started
  <2>4. radio_retry_after_ms' \in Nat
    BY <1>a, <2>3 DEF TypedRest
  <2>5. logger_enabled' \in BOOLEAN /\ sd_consecutive_failures' \in Nat
    BY <1>a, <2>1, RowAppended
  <2> QED
    BY <1>a, <2>1, <2>3, <2>4, <2>5 DEF TypedRest
<1>7. CASE UNCHANGED vars
  BY <1>a, <1>7 DEF vars, onair, radio, logger, environment, TypedRest
<1> QED
  BY <1>1, <1>2, <1>3, <1>4, <1>5, <1>6, <1>7 DEF Next, Answers

(* Every variable keeps its type; in particular the slot of the pattern    *)
(* stays within it (emit_telemetry).                                       *)
THEOREM DownlinkTyped == Spec => []TypeOK
<1>1. TypeInv => TypeOK
  BY DEF TypeInv, DownlinkInv, Typed, TypedRest, TypeOK
<1> QED
  BY <1>1, InitTyped, NextTyped, PTL DEF Spec

-----------------------------------------------------------------------------
(* The recovery.  Two invariants bound the times.  Timely holds whatever   *)
(* the radio does: no packet is in flight beyond its timeout for longer    *)
(* than it takes to be seen, and the task is never more than one wait      *)
(* ahead.  Recovering holds while everything works, and counts from the    *)
(* later of the return of the radio and the last packet sent: the packet   *)
(* that hung is given up (HangOver), the back-off it may have begun ends,  *)
(* and a packet is started (LatestStart).                                  *)
Since == Larger(working_since, last_sent_ms)
HangOver == (TxTimeout - 1) + (MaxGap - 1)
LatestDue == Since + HangOver + Backoff + (LongestWait - 1)
LatestStart == LatestDue + (MaxGap - 1)
LatePoll == IF pc = "service" THEN MaxGap ELSE 0

Timely ==
  /\ tx_start_ms <= now /\ working_since <= now /\ last_sent_ms <= now
  /\ period_ms > 0 /\ period_ms <= LongestWait /\ next_ms <= now + LongestWait
  /\ radio_retry_after_ms <= now + Backoff
  /\ tx_in_flight => /\ next_ms <= tx_start_ms + LongestWait
                     /\ now <= tx_start_ms + (TxTimeout - 1) + LatePoll
  /\ pc = "settle" \/ (pc = "idle" /\ ~tx_in_flight) => next_ms > now

Recovering ==
  working =>
    /\ radio_retry_after_ms <= Since + HangOver + Backoff
    /\ tx_in_flight /\ tx_start_ms >= working_since =>
         /\ tx_start_ms <= LatestStart
         /\ now <= tx_start_ms + (Airtime - 1) + LatePoll
    /\ ~tx_in_flight => next_ms <= LatestDue /\ now <= LatestStart

TimingInv == TypeInv /\ Timely /\ Recovering

LEMMA Waits ==
  /\ LongestWait \in Nat /\ LongestWait > 0 /\ Period <= LongestWait
  /\ RichSlot <= LongestWait /\ LeanSlot <= LongestWait
  /\ LongestAirtime \in Nat /\ HangOver \in Nat
  /\ Airtime \in Nat /\ Airtime > 0 /\ Airtime < TxTimeout /\ Airtime <= LongestAirtime
BY Constants, Durations DEF LongestWait, LongestAirtime, Larger, Airtime, HangOver

LEMMA SinceLater ==
  ASSUME TypedRest
  PROVE  /\ Since \in Nat /\ Since >= working_since /\ Since >= last_sent_ms
         /\ Since \in {working_since, last_sent_ms}
BY DEF TypedRest, Since, Larger

(* What the timing reads. *)
clocks == <<now, next_ms, period_ms, tx_in_flight, tx_start_ms, tx_rich,
            radio_retry_after_ms, working, working_since, last_sent_ms>>

(* A step that moves no clock, from a step of the poll that is not its     *)
(* first to one that is neither its first nor its last.                    *)
LEMMA ClocksUnchanged ==
  ASSUME Timely, Recovering, UNCHANGED clocks,
         \/ pc' = pc
         \/ pc # "service" /\ pc' \in {"window", "telemetry"}
         \/ pc # "service" /\ pc' = "idle" /\ (tx_in_flight \/ next_ms > now)
  PROVE  Timely' /\ Recovering'
BY DEF Timely, Recovering, clocks, LatePoll, LatestStart, LatestDue, Since, Airtime

LEMMA InitTiming == Init => TimingInv
<1> SUFFICES ASSUME Init PROVE TimingInv
  OBVIOUS
<1>1. TypeInv
  BY InitTyped
<1>2. /\ now = 0 /\ pc = "service" /\ next_ms = 0 /\ period_ms = Period
      /\ tx_in_flight = FALSE /\ tx_start_ms = 0 /\ radio_retry_after_ms = 0
      /\ working_since = 0 /\ last_sent_ms = 0
  BY DEF Init
<1>3. Since \in Nat
  BY <1>1, SinceLater DEF TypeInv
<1>4. Timely
  BY <1>2, Waits, Durations DEF Timely
<1>5. Recovering
  BY <1>2, <1>3, Waits, Durations DEF Recovering, LatestDue, LatestStart
<1> QED
  BY <1>1, <1>4, <1>5 DEF TimingInv

LEMMA BeginPollTimely ==
  ASSUME TimingInv, NEW gap \in 1 .. MaxGap, NEW works \in BOOLEAN,
         BeginPoll(gap, works)
  PROVE  Timely' /\ Recovering'
<1> DEFINE n == now + gap
           w == IF works /\ working THEN working_since ELSE n
<1>1. /\ pc = "idle" /\ now' = n /\ pc' = "service" /\ working' = works
      /\ working_since' = w
      /\ UNCHANGED <<next_ms, period_ms, tx_in_flight, tx_start_ms, tx_rich,
                     radio_retry_after_ms, last_sent_ms>>
  BY DEF BeginPoll, task, onair, radio
<1>2. /\ now \in Nat /\ n \in Nat /\ n > now /\ n <= now + MaxGap
      /\ next_ms \in Nat /\ period_ms \in Nat /\ tx_start_ms \in Nat
      /\ radio_retry_after_ms \in Nat /\ working_since \in Nat /\ last_sent_ms \in Nat
      /\ w \in Nat /\ w <= n
  BY Durations DEF TimingInv, TypeInv, DownlinkInv, Typed, TypedRest, Timely
<1>3. LatePoll = 0 /\ LatePoll' = MaxGap
  BY <1>1 DEF LatePoll
<1>4. Timely'
  <2>1. /\ tx_start_ms <= n /\ last_sent_ms <= n /\ next_ms <= n + LongestWait
        /\ period_ms > 0 /\ period_ms <= LongestWait
        /\ radio_retry_after_ms <= n + Backoff
        /\ tx_in_flight => /\ next_ms <= tx_start_ms + LongestWait
                           /\ n <= tx_start_ms + (TxTimeout - 1) + MaxGap
    BY <1>1, <1>2, <1>3, Waits, Durations DEF TimingInv, Timely
  <2> QED
    BY <1>1, <1>2, <1>3, <2>1 DEF Timely
<1>5. ASSUME works PROVE Recovering'
  <2> DEFINE b == Larger(w, last_sent_ms)
  <2>1. Since' = b
    BY <1>1 DEF Since
  <2>2. b \in Nat /\ b >= w /\ b >= last_sent_ms /\ (working => b = Since)
    BY <1>2, <1>5 DEF Larger, Since
  <2> HIDE DEF b
  <2>3. CASE working
    <3>1. w = working_since /\ b = Since
      BY <1>5, <2>2, <2>3
    <3>2. /\ radio_retry_after_ms <= b + HangOver + Backoff
          /\ tx_in_flight /\ tx_start_ms >= w =>
               /\ tx_start_ms <= b + HangOver + Backoff + (LongestWait - 1) + (MaxGap - 1)
               /\ n <= tx_start_ms + (Airtime - 1) + MaxGap
      BY <1>2, <1>3, <2>2, <2>3, <3>1, Waits, Durations
      DEF TimingInv, Recovering, LatestStart, LatestDue
    <3>3. ~tx_in_flight =>
            /\ next_ms <= b + HangOver + Backoff + (LongestWait - 1)
            /\ n <= b + HangOver + Backoff + (LongestWait - 1) + (MaxGap - 1)
      BY <1>1, <1>2, <2>2, <2>3, <3>1, Waits, Durations
      DEF TimingInv, Timely, Recovering, LatestStart, LatestDue
    <3> QED
      BY <1>1, <1>3, <2>1, <3>2, <3>3
      DEF Recovering, LatestStart, LatestDue, Airtime
  <2>4. CASE ~working
    <3>1. w = n /\ b >= n
      BY <2>2, <2>4
    <3>2. /\ radio_retry_after_ms <= b + HangOver + Backoff
          /\ ~(tx_start_ms >= w)
          /\ next_ms <= b + HangOver + Backoff + (LongestWait - 1)
          /\ n <= b + HangOver + Backoff + (LongestWait - 1) + (MaxGap - 1)
      BY <1>2, <2>2, <3>1, Waits, Durations DEF TimingInv, Timely
    <3> QED
      BY <1>1, <2>1, <3>2 DEF Recovering, LatestStart, LatestDue
  <2> QED
    BY <2>3, <2>4
<1>6. ~works => Recovering'
  BY <1>1 DEF Recovering
<1> QED
  BY <1>4, <1>5, <1>6

(* What a packet in flight may be found to be tells its age: still busy    *)
(* before the timeout, and before its airtime is over if the radio has     *)
(* worked since it was started, in which case it does not fail.            *)
LEMMA OutcomesTell ==
  ASSUME TimingInv, tx_in_flight
  PROVE  /\ "busy" \in Outcomes => now <= tx_start_ms + (TxTimeout - 1)
         /\ working /\ working_since <= tx_start_ms =>
              /\ "busy" \in Outcomes => now <= tx_start_ms + (Airtime - 1)
              /\ "failed" \notin Outcomes
<1>1. now \in Nat /\ tx_start_ms \in Nat
  BY DEF TimingInv, TypeInv, DownlinkInv, Typed
<1>2. CASE working /\ working_since <= tx_start_ms
  <2>1. Outcomes = IF Elapsed >= Airtime THEN {"sent"} ELSE {"busy"}
    BY <1>2 DEF Outcomes
  <2> QED
    BY <1>1, <1>2, <2>1, Waits, Durations DEF Elapsed
<1>3. CASE ~(working /\ working_since <= tx_start_ms)
  <2>1. "busy" \in Outcomes => Elapsed < TxTimeout
    BY <1>3 DEF Outcomes, ClaimedDone
  <2> QED
    BY <1>1, <1>3, <2>1, Durations DEF Elapsed
<1> QED
  BY <1>2, <1>3

LEMMA ServiceTransmitTimely ==
  ASSUME TimingInv, NEW outcome \in {"busy", "sent", "failed", "idle"},
         NEW reinit_ok \in BOOLEAN, ServiceTransmit(outcome, reinit_ok)
  PROVE  Timely' /\ Recovering'
<1>1. /\ \/ pc = "service" /\ pc' = "window"
         \/ pc = "settle" /\ pc' = "idle"
      /\ UNCHANGED <<now, next_ms, period_ms, tx_start_ms, tx_rich, working, working_since>>
  BY DEF ServiceTransmit, task, environment
<1>2. /\ now \in Nat /\ next_ms \in Nat /\ period_ms \in Nat /\ tx_start_ms \in Nat
      /\ radio_retry_after_ms \in Nat /\ working_since \in Nat /\ last_sent_ms \in Nat
      /\ TypedRest /\ Timely /\ Recovering
  BY DEF TimingInv, TypeInv, DownlinkInv, Typed, TypedRest
<1>3. /\ Since \in Nat /\ Since >= working_since /\ Since >= last_sent_ms
  BY <1>2, SinceLater
<1>4. LatePoll' = 0 /\ LatePoll \in Nat /\ LatePoll <= MaxGap
  BY <1>1, Durations DEF LatePoll
<1>5. CASE /\ ~tx_in_flight \/ (tx_in_flight /\ "busy" \in Outcomes)
           /\ UNCHANGED <<tx_in_flight, radio_retry_after_ms, last_sent_ms>>
  <2>1. Since' = Since /\ Airtime' = Airtime /\ LatestStart' = LatestStart
        /\ LatestDue' = LatestDue
    BY <1>1, <1>5 DEF Since, Airtime, LatestStart, LatestDue
  <2>2. tx_in_flight =>
          /\ now <= tx_start_ms + (TxTimeout - 1) + 0
          /\ working /\ tx_start_ms >= working_since =>
               now <= tx_start_ms + (Airtime - 1) + 0
    BY <1>2, <1>5, OutcomesTell, Waits, Durations
  <2>3. Timely'
    BY <1>1, <1>2, <1>4, <1>5, <2>2 DEF Timely
  <2>4. Recovering'
    BY <1>1, <1>2, <1>4, <1>5, <2>1, <2>2 DEF Recovering
  <2> QED
    BY <2>3, <2>4
<1>6. CASE tx_in_flight /\ "sent" \in Outcomes /\ tx_in_flight' = FALSE /\ ServicedSent
  <2>1. radio_retry_after_ms' = 0 /\ last_sent_ms' = now
    BY <1>6 DEF ServicedSent
  <2>2. Since' = now
    BY <1>1, <1>2, <2>1 DEF Since, Larger, Timely
  <2>3. /\ 0 <= now + HangOver + Backoff /\ 0 <= now + Backoff
        /\ next_ms <= now + HangOver + Backoff + (LongestWait - 1)
        /\ now <= now + HangOver + Backoff + (LongestWait - 1) + (MaxGap - 1)
        /\ now <= now
    BY <1>2, Waits, Durations DEF Timely
  <2>4. Timely'
    BY <1>1, <1>2, <1>6, <2>1, <2>3 DEF Timely
  <2>5. Recovering'
    BY <1>1, <1>6, <2>1, <2>2, <2>3 DEF Recovering, LatestStart, LatestDue
  <2> QED
    BY <2>4, <2>5
<1>7. CASE tx_in_flight /\ "failed" \in Outcomes /\ tx_in_flight' = FALSE /\ ServicedFailed
  <2>1. /\ radio_retry_after_ms' \in {radio_retry_after_ms, now + Backoff}
        /\ last_sent_ms' = last_sent_ms
    BY <1>7 DEF ServicedFailed
  <2>2. Since' = Since
    BY <1>1, <2>1 DEF Since
  <2>3. radio_retry_after_ms <= now + Backoff /\ now + Backoff <= now + Backoff
    BY <1>2, Durations DEF Timely
  <2>4. Timely'
    BY <1>1, <1>2, <1>7, <2>1, <2>3 DEF Timely
  <2>5. ASSUME working PROVE Recovering'
    <3>1. tx_start_ms < working_since
      BY <1>2, <1>7, <2>5, OutcomesTell
    <3>2. now <= Since + HangOver
      BY <1>2, <1>3, <1>4, <1>7, <3>1, Durations DEF Timely, HangOver
    <3>3. now + Backoff <= Since + HangOver + Backoff
          /\ now <= Since + HangOver + Backoff + (LongestWait - 1) + (MaxGap - 1)
      BY <1>2, <1>3, <3>2, Waits, Durations
    <3>4. next_ms <= Since + HangOver + Backoff + (LongestWait - 1)
      BY <1>2, <1>3, <1>7, <3>1, Waits, Durations DEF Timely
    <3>5. radio_retry_after_ms <= Since + HangOver + Backoff
      BY <1>2, <2>5 DEF Recovering
    <3> QED
      BY <1>1, <1>7, <2>1, <2>2, <3>3, <3>4, <3>5 DEF Recovering, LatestStart, LatestDue
  <2>6. ~working => Recovering'
    BY <1>1 DEF Recovering
  <2> QED
    BY <2>4, <2>5, <2>6
<1> QED
  BY <1>2, <1>5, <1>6, <1>7, Serviced

(* A task that fires is due again later than now, within one wait. *)
LEMMA DueAgainSoon ==
  ASSUME Typed, period_ms > 0, period_ms <= LongestWait, now >= next_ms
  PROVE  DueAgain \in Nat /\ DueAgain > now /\ DueAgain <= now + LongestWait
BY Waits DEF Typed, DueAgain

LEMMA SuppressTimely ==
  ASSUME TimingInv, Suppress
  PROVE  Timely' /\ Recovering'
<1>1. /\ pc = "telemetry" /\ pc' = "settle" /\ ~tx_in_flight /\ ~working
      /\ now >= next_ms /\ next_ms' = DueAgain
      /\ UNCHANGED <<now, period_ms, tx_in_flight, tx_start_ms, radio_retry_after_ms,
                     working, working_since, last_sent_ms>>
  BY DEF Suppress, IsDue, onair, radio, environment
<1>2. Typed /\ Timely
  BY DEF TimingInv, TypeInv, DownlinkInv
<1>3. DueAgain > now /\ DueAgain <= now + LongestWait
  BY <1>1, <1>2, DueAgainSoon DEF Timely
<1>4. Timely'
  BY <1>1, <1>2, <1>3 DEF Timely
<1>5. Recovering'
  BY <1>1 DEF Recovering
<1> QED
  BY <1>4, <1>5

(* The next packet is due after now, within one wait, at either rate. *)
LEMMA AdvanceSoon ==
  ASSUME Typed, period_ms > 0, period_ms <= LongestWait, now >= next_ms,
         NEW rich \in BOOLEAN, NEW at_max \in BOOLEAN, NEW slot,
         Advance(rich, slot, at_max)
  PROVE  /\ next_ms' \in Nat /\ next_ms' > now /\ next_ms' <= now + LongestWait
         /\ period_ms' > 0 /\ period_ms' <= LongestWait
<1>1. CASE at_max
  <2> DEFINE length == IF rich THEN RichSlot ELSE LeanSlot
  <2>1. length \in Nat /\ length > 0 /\ length <= LongestWait
    BY Constants, Waits
  <2>2. next_ms' = now + length /\ period_ms' = length
    BY <1>1 DEF Advance
  <2>3. now + length \in Nat /\ now + length > now /\ now + length <= now + LongestWait
    BY <2>1, Waits DEF Typed
  <2> QED
    BY <2>1, <2>2, <2>3
<1>2. CASE ~at_max
  <2>1. next_ms' = DueAgain /\ period_ms' = period_ms
    BY <1>2 DEF Advance
  <2>2. DueAgain \in Nat /\ DueAgain > now /\ DueAgain <= now + LongestWait
    BY DueAgainSoon
  <2> QED
    BY <2>1, <2>2
<1> QED
  BY <1>1, <1>2

(* A radio that works is not refused: the packet is on the air, unless the *)
(* back-off holds it.                                                      *)
LEMMA StartedUnlessHeld ==
  ASSUME NEW rich \in BOOLEAN, NEW reinit_ok \in Answers, NEW keyed \in Answers,
         StartWithRecovery(rich, reinit_ok, keyed)
  PROVE  /\ \/ tx_in_flight' = TRUE /\ tx_start_ms' = now /\ tx_rich' = rich
            \/ UNCHANGED <<tx_in_flight, tx_start_ms, tx_rich>>
         /\ working => /\ UNCHANGED radio_retry_after_ms
                       /\ tx_in_flight' = TRUE \/ now < radio_retry_after_ms
<1>1. working => reinit_ok = TRUE /\ keyed = TRUE
  BY DEF Answers
<1> QED
  BY <1>1 DEF StartWithRecovery

LEMMA EmitTimely ==
  ASSUME TimingInv, NEW command \in BOOLEAN, NEW written \in BOOLEAN,
         NEW reinit_ok \in Answers, NEW keyed \in Answers,
         Emit(command, reinit_ok, keyed, written)
  PROVE  Timely' /\ Recovering'
<1> DEFINE rich == ~max_rate \/ max_rate_slot = 0
           at_max == max_rate \/ command
           slot == IF command THEN 0 ELSE max_rate_slot
<1>1. /\ pc = "telemetry" /\ pc' = "settle" /\ ~tx_in_flight /\ now >= next_ms
      /\ StartWithRecovery(rich, reinit_ok, keyed) /\ Advance(rich, slot, at_max)
      /\ UNCHANGED <<now, working, working_since, last_sent_ms>>
  BY DEF Emit, IsDue, environment
<1>2. rich \in BOOLEAN /\ at_max \in BOOLEAN /\ reinit_ok \in BOOLEAN /\ keyed \in BOOLEAN
  BY DEF TimingInv, TypeInv, DownlinkInv, Typed, Answers
<1> HIDE DEF rich, at_max, slot
<1>3. Typed /\ TypedRest /\ Timely /\ Recovering
  BY DEF TimingInv, TypeInv, DownlinkInv
<1>4. /\ now \in Nat /\ packet_number \in Nat /\ tx_start_ms \in Nat
      /\ radio_retry_after_ms \in Nat
  BY <1>3 DEF Typed, TypedRest
<1>5. /\ next_ms' \in Nat /\ next_ms' > now /\ next_ms' <= now + LongestWait
      /\ period_ms' > 0 /\ period_ms' <= LongestWait
  BY <1>1, <1>2, <1>3, AdvanceSoon DEF Timely
<1>6. /\ \/ tx_in_flight' = TRUE /\ tx_start_ms' = now /\ tx_rich' = rich
         \/ UNCHANGED <<tx_in_flight, tx_start_ms, tx_rich>>
      /\ working => /\ UNCHANGED radio_retry_after_ms
                    /\ tx_in_flight' = TRUE \/ now < radio_retry_after_ms
  BY <1>1, <1>2, StartedUnlessHeld
<1>7. radio_retry_after_ms' \in {radio_retry_after_ms, now + Backoff}
  BY <1>1, <1>2, <1>3, <1>4, Started
<1>8. LatePoll' = 0
  BY <1>1 DEF LatePoll
<1>9. Timely'
  <2>1. radio_retry_after_ms <= now + Backoff /\ now + Backoff <= now + Backoff
        /\ now <= now /\ now <= now + (TxTimeout - 1) + 0
    BY <1>3, <1>4, Durations DEF Timely
  <2> QED
    BY <1>1, <1>3, <1>5, <1>6, <1>7, <1>8, <2>1 DEF Timely
<1>10. ASSUME working PROVE Recovering'
  <2>1. Since' = Since /\ Since \in Nat
    BY <1>1, <1>3, SinceLater DEF Since
  <2>2. radio_retry_after_ms <= Since + HangOver + Backoff /\ next_ms <= LatestDue
        /\ now <= LatestStart
    BY <1>1, <1>3, <1>10 DEF Recovering
  <2>3. CASE tx_in_flight' = TRUE /\ tx_start_ms' = now /\ tx_rich' = rich
    <3>1. Airtime' \in Nat /\ Airtime' > 0
      BY <1>2, <2>3, Durations DEF Airtime
    <3>2. \A a \in Nat : a > 0 => now <= now + (a - 1) + 0
      BY <1>4
    <3>3. now <= now + (Airtime' - 1) + 0
      BY <3>1, <3>2
    <3> QED
      BY <1>1, <1>6, <1>8, <1>10, <2>1, <2>2, <2>3, <3>3 DEF Recovering, LatestStart, LatestDue
  <2>4. CASE UNCHANGED <<tx_in_flight, tx_start_ms, tx_rich>>
    <3>1. now < radio_retry_after_ms
      BY <1>1, <1>6, <1>10, <2>4
    <3>2. now + LongestWait <= Since + HangOver + Backoff + (LongestWait - 1)
      BY <1>4, <2>1, <2>2, <3>1, Waits, Durations
    <3>3. next_ms' <= Since + HangOver + Backoff + (LongestWait - 1)
      BY <1>4, <1>5, <2>1, <3>2, Waits, Durations
    <3> QED
      BY <1>1, <1>6, <1>10, <2>1, <2>2, <2>4, <3>3 DEF Recovering, LatestStart, LatestDue
  <2> QED
    BY <1>6, <2>3, <2>4
<1>11. ~working => Recovering'
  BY <1>1 DEF Recovering
<1> QED
  BY <1>5, <1>9, <1>10, <1>11

LEMMA NextTiming == TimingInv /\ [Next]_vars => TimingInv'
<1> SUFFICES ASSUME TimingInv, [Next]_vars PROVE Timely' /\ Recovering'
  BY NextTyped DEF TimingInv
<1>a. Timely /\ Recovering /\ now \in Nat /\ next_ms \in Nat
  BY DEF TimingInv, TypeInv, DownlinkInv, Typed
<1>1. CASE \E gap \in 1 .. MaxGap, works \in BOOLEAN : BeginPoll(gap, works)
  BY <1>1, BeginPollTimely
<1>2. CASE \E outcome \in {"busy", "sent", "failed", "idle"}, reinit_ok \in Answers :
             ServiceTransmit(outcome, reinit_ok)
  BY <1>2, ServiceTransmitTimely DEF Answers
<1>3. CASE \E engages \in BOOLEAN : WindowTimeout(engages)
  <2>1. UNCHANGED clocks /\ pc = "window" /\ pc' = "telemetry"
    BY <1>3 DEF WindowTimeout, clocks, task, onair, radio, environment
  <2> QED
    BY <1>a, <2>1, ClocksUnchanged
<1>4. CASE NoPacket
  <2>1. UNCHANGED clocks /\ pc = "telemetry" /\ pc' = "idle"
        /\ (tx_in_flight \/ ~(now >= next_ms))
    BY <1>4 DEF NoPacket, IsDue, clocks, task, onair, radio, environment
  <2>2. tx_in_flight \/ next_ms > now
    BY <1>a, <2>1
  <2> QED
    BY <1>a, <2>1, <2>2, ClocksUnchanged
<1>5. CASE Suppress
  BY <1>5, SuppressTimely
<1>6. CASE \E command, written \in BOOLEAN, reinit_ok, keyed \in Answers :
             Emit(command, reinit_ok, keyed, written)
  BY <1>6, EmitTimely
<1>7. CASE UNCHANGED vars
  BY <1>a, <1>7, ClocksUnchanged DEF vars, clocks, task, onair, radio, environment
<1> QED
  BY <1>1, <1>2, <1>3, <1>4, <1>5, <1>6, <1>7 DEF Next

(* Once the radio and the sensors work, a packet is sent within the time   *)
(* that the timeout, the back-off and the wait of the task leave, and then *)
(* again and again (service_transmit, note_tx_failure, PeriodicTask).      *)
THEOREM RecoversInTime == Spec => []SendsInTime
<1>1. TimingInv => SendsInTime
  <2> SUFFICES ASSUME TimingInv, working
               PROVE  \/ now <= working_since + RecoveryTime
                      \/ now <= last_sent_ms + RecoveryTime
    BY DEF SendsInTime
  <2>1. /\ now \in Nat /\ tx_start_ms \in Nat /\ working_since \in Nat
        /\ TypedRest /\ Timely /\ Recovering
    BY DEF TimingInv, TypeInv, DownlinkInv, Typed, TypedRest
  <2>2. /\ Since \in Nat /\ Since >= working_since
        /\ Since \in {working_since, last_sent_ms}
    BY <2>1, SinceLater
  <2>3. LatePoll \in Nat /\ LatePoll <= MaxGap
    BY Durations DEF LatePoll
  <2>4. now <= Since + RecoveryTime
    <3>1. CASE tx_in_flight /\ tx_start_ms >= working_since
      BY <2>1, <2>2, <2>3, <3>1, Waits, Durations
      DEF Recovering, RecoveryTime, LatestStart, LatestDue, HangOver
    <3>2. CASE tx_in_flight /\ tx_start_ms < working_since
      BY <2>1, <2>2, <2>3, <3>2, Waits, Durations DEF Timely, RecoveryTime
    <3>3. CASE ~tx_in_flight
      BY <2>1, <2>2, <3>3, Waits, Durations
      DEF Recovering, RecoveryTime, LatestStart, LatestDue, HangOver
    <3> QED
      BY <2>1, <2>2, <3>1, <3>2, <3>3
  <2> QED
    BY <2>2, <2>4
<1> QED
  BY <1>1, InitTiming, NextTiming, PTL DEF Spec

-----------------------------------------------------------------------------
(* The spacing of the re-initialisations.  Within the back-off of the last *)
(* one, either it holds every packet back (HeldBack), or the radio came up *)
(* at once and a run of failures is being counted: each packet of the run  *)
(* takes a lean slot at least, the first one less what it was late (Paced).*)
Emitted == radio_consecutive_failures + (IF tx_in_flight THEN 1 ELSE 0)
Span(n) == n * LeanSlot
Lateness == IF LeanSlot + MaxGap - 1 <= Period THEN 0 ELSE LeanSlot + MaxGap - 1 - Period

HeldBack == radio_retry_after_ms = quiet_until /\ ~tx_in_flight

Paced ==
  /\ radio_healthy
  /\ next_ms + Lateness + Backoff >= quiet_until + Span(Emitted)
  /\ tx_in_flight =>
       tx_start_ms + Lateness + Backoff + LeanSlot >= quiet_until + Span(Emitted)

Spacing ==
  /\ ~radio_healthy => radio_consecutive_failures = 0 /\ ~tx_in_flight
  /\ radio_consecutive_failures < RadioFailures
  /\ ~tx_in_flight /\ ~radio_healthy /\ now >= radio_retry_after_ms =>
       now <= next_ms + (MaxGap - 1)
  /\ ~max_rate => period_ms = Period
  /\ now < quiet_until => HeldBack \/ Paced

SpacingInv == TimingInv /\ Spacing

LEMMA Spans ==
  /\ LeanSlot \in Nat /\ LeanSlot > 0 /\ LeanSlot <= RichSlot /\ LeanSlot <= Period
  /\ Lateness \in Nat /\ Lateness + Period >= LeanSlot + (MaxGap - 1)
  /\ RadioFailures \in Nat /\ RadioFailures > 1
  /\ \A n \in Nat : Span(n) \in Nat /\ Span(n + 1) = Span(n) + LeanSlot
  /\ Span(0) = 0
  /\ Span(RadioFailures - 1) >= Lateness + Backoff
<1>1. /\ RadioFailures \in Nat /\ RadioFailures > 0 /\ LeanSlot \in Nat /\ LeanSlot > 0
      /\ LeanSlot <= RichSlot /\ LeanSlot <= Period
      /\ (RadioFailures - 1) * LeanSlot >= Backoff
      /\ Period + (RadioFailures - 2) * LeanSlot >= Backoff + MaxGap - 1
  BY DownlinkAssumption DEF DownlinkAssumption
<1>2. Lateness \in Nat /\ Lateness + Period >= LeanSlot + (MaxGap - 1)
  BY <1>1, Durations DEF Lateness
<1>3. RadioFailures > 1
  <2>1. RadioFailures # 1
    <3>1. RadioFailures = 1 => (RadioFailures - 1) * LeanSlot = 0
      BY <1>1
    <3> QED
      BY <1>1, <3>1, Durations
  <2> QED
    BY <1>1, <2>1
<1>4. \A n \in Nat : Span(n) \in Nat /\ Span(n + 1) = Span(n) + LeanSlot
  BY <1>1 DEF Span
<1>5. Span(0) = 0
  BY <1>1 DEF Span
<1>6. Span(RadioFailures - 1) >= Lateness + Backoff
  <2> DEFINE r == RadioFailures - 2
  <2>1. r \in Nat /\ r + 1 = RadioFailures - 1
    BY <1>1, <1>3
  <2>2. Span(r + 1) = Span(r) + LeanSlot /\ Span(r) \in Nat
    BY <1>4, <2>1
  <2>3. Period + Span(r) >= Backoff + MaxGap - 1 /\ Span(r + 1) >= Backoff
    BY <1>1, <2>1 DEF Span
  <2> HIDE DEF r
  <2>4. Span(r + 1) >= Lateness + Backoff
    BY <1>1, <2>2, <2>3, Durations DEF Lateness
  <2> QED
    BY <2>1, <2>4
<1> QED
  BY <1>1, <1>2, <1>3, <1>4, <1>5, <1>6

LEMMA EmittedType ==
  ASSUME TypedRest
  PROVE  Emitted \in Nat /\ (~tx_in_flight => Emitted = radio_consecutive_failures)
         /\ (tx_in_flight => Emitted = radio_consecutive_failures + 1)
BY DEF TypedRest, Emitted

(* The count of a run, by cases. *)
LEMMA FailureCounted ==
  ASSUME NEW healthy, NEW reinit_ok, NoteTxFailure(healthy, reinit_ok)
  PROVE  \/ /\ ~Exhausted /\ radio_healthy' = healthy
            /\ radio_retry_after_ms' = radio_retry_after_ms
            /\ radio_consecutive_failures' = radio_consecutive_failures + 1
         \/ /\ Exhausted /\ radio_healthy' = reinit_ok
            /\ radio_retry_after_ms' = now + Backoff
            /\ radio_consecutive_failures' = 0
BY DEF NoteTxFailure

LEMMA SpacingUnchanged ==
  ASSUME Spacing, TypedRest, now \in Nat, next_ms \in Nat,
         NEW n \in Nat, next_ms' = n, n >= next_ms,
         UNCHANGED <<now, period_ms, tx_in_flight, tx_start_ms, radio, max_rate>>
  PROVE  Spacing'
<1>1. Emitted \in Nat /\ Lateness \in Nat /\ Span(Emitted) \in Nat /\ Backoff \in Nat
      /\ MaxGap \in Nat
  BY EmittedType, Spans, Durations
<1>2. Emitted' = Emitted /\ HeldBack' = HeldBack
  BY DEF Emitted, HeldBack, radio
<1>3. quiet_until \in Nat /\ radio_retry_after_ms \in Nat
  BY DEF TypedRest
<1>4. Paced => Paced'
  <2>1. next_ms + Lateness + Backoff >= quiet_until + Span(Emitted) =>
          n + Lateness + Backoff >= quiet_until + Span(Emitted)
    BY <1>1, <1>3
  <2> QED
    BY <1>2, <2>1 DEF Paced, radio, Span
<1>5. now <= next_ms + (MaxGap - 1) => now <= n + (MaxGap - 1)
  BY <1>1
<1> QED
  BY <1>2, <1>4, <1>5 DEF Spacing, radio

LEMMA BeginPollSpaces ==
  ASSUME SpacingInv, NEW gap \in 1 .. MaxGap, NEW works \in BOOLEAN,
         BeginPoll(gap, works)
  PROVE  Spacing'
<1> DEFINE n == now + gap
<1>1. /\ pc = "idle" /\ now' = n
      /\ UNCHANGED <<next_ms, period_ms, tx_in_flight, tx_start_ms, max_rate,
                     radio_healthy, radio_retry_after_ms, radio_consecutive_failures,
                     quiet_until>>
  BY DEF BeginPoll, task, onair, radio, rate
<1>2. now \in Nat /\ next_ms \in Nat /\ quiet_until \in Nat /\ Timely /\ Spacing
  BY DEF SpacingInv, TimingInv, TypeInv, DownlinkInv, Typed, TypedRest
<1>3. n < quiet_until => now < quiet_until
  BY <1>2, Durations
<1>4. ~tx_in_flight => n <= next_ms + (MaxGap - 1)
  BY <1>1, <1>2, Durations DEF Timely
<1>5. Emitted' = Emitted /\ HeldBack' = HeldBack /\ (Paced => Paced')
  BY <1>1 DEF Emitted, HeldBack, Paced, Span
<1> QED
  BY <1>1, <1>2, <1>3, <1>4, <1>5 DEF Spacing

LEMMA ServiceTransmitSpaces ==
  ASSUME SpacingInv, NEW outcome \in {"busy", "sent", "failed", "idle"},
         NEW reinit_ok \in BOOLEAN, ServiceTransmit(outcome, reinit_ok)
  PROVE  Spacing' /\ (quiet_until' # quiet_until => now >= quiet_until)
<1>1. UNCHANGED <<now, next_ms, period_ms, tx_start_ms, max_rate>>
  BY DEF ServiceTransmit, task, rate
<1>2. /\ now \in Nat /\ next_ms \in Nat /\ quiet_until \in Nat /\ tx_start_ms \in Nat
      /\ radio_consecutive_failures \in Nat /\ tx_start_ms <= now
      /\ TypedRest /\ Spacing
  BY DEF SpacingInv, TimingInv, Timely, TypeInv, DownlinkInv, Typed, TypedRest
<1>3. Emitted \in Nat /\ Span(Emitted) \in Nat /\ Lateness \in Nat /\ Backoff \in Nat
      /\ Backoff > 0 /\ RadioFailures \in Nat /\ RadioFailures > 1 /\ LeanSlot \in Nat
  BY <1>2, EmittedType, Spans, Durations
<1>4. CASE UNCHANGED <<tx_in_flight, counters, radio, last_sent_ms>>
  BY <1>1, <1>2, <1>4, SpacingUnchanged DEF radio
<1>5. CASE tx_in_flight /\ TxSent
  <2>1. /\ tx_in_flight' = FALSE /\ radio_consecutive_failures' = 0
        /\ radio_retry_after_ms' = 0 /\ UNCHANGED <<radio_healthy, quiet_until>>
    BY <1>5 DEF TxSent
  <2>2. radio_healthy
    BY <1>2, <1>5 DEF Spacing
  <2>3. Emitted' = 0 /\ Span(Emitted)' = 0
    BY <2>1, Spans DEF Emitted
  <2>4. Paced => Paced'
    <3>1. next_ms + Lateness + Backoff >= quiet_until + Span(Emitted) =>
            next_ms + Lateness + Backoff >= quiet_until + 0
      BY <1>2, <1>3
    <3> QED
      BY <1>1, <2>1, <2>2, <2>3, <3>1 DEF Paced
  <2>5. now < quiet_until => Paced
    BY <1>2, <1>5 DEF Spacing, HeldBack
  <2> QED
    BY <1>1, <1>2, <1>3, <2>1, <2>2, <2>4, <2>5 DEF Spacing
<1>6. CASE tx_in_flight /\ TxFailed(reinit_ok)
  <2>1. /\ tx_in_flight' = FALSE /\ NoteTxFailure(radio_healthy, reinit_ok)
        /\ quiet_until' = IF Exhausted THEN now + Backoff ELSE quiet_until
    BY <1>6 DEF TxFailed
  <2>2. radio_healthy /\ (now < quiet_until => Paced)
    BY <1>2, <1>6 DEF Spacing, HeldBack
  <2>3. Emitted = radio_consecutive_failures + 1
    BY <1>2, <1>6, EmittedType
  <2>4. CASE ~Exhausted
    <3>1. /\ radio_healthy' = radio_healthy /\ radio_retry_after_ms' = radio_retry_after_ms
          /\ radio_consecutive_failures' = radio_consecutive_failures + 1
          /\ quiet_until' = quiet_until
      BY <2>1, <2>4, FailureCounted
    <3>2. radio_consecutive_failures + 1 < RadioFailures
      BY <1>2, <1>3, <2>4 DEF Exhausted
    <3>3. Emitted' = Emitted
      <4>1. Emitted' = radio_consecutive_failures' + 0
        BY <2>1 DEF Emitted
      <4>2. radio_consecutive_failures + 1 + 0 = radio_consecutive_failures + 1
        BY <1>2
      <4> QED
        BY <2>3, <3>1, <4>1, <4>2
    <3>4. Paced => Paced'
      BY <1>1, <2>1, <3>1, <3>3 DEF Paced, Span
    <3> QED
      BY <1>1, <1>2, <2>1, <2>2, <3>1, <3>2, <3>4 DEF Spacing
  <2>5. CASE Exhausted
    <3>1. /\ radio_retry_after_ms' = now + Backoff /\ radio_consecutive_failures' = 0
          /\ quiet_until' = now + Backoff
      BY <2>1, <2>5, FailureCounted
    <3>2. ~(now >= now + Backoff)
      BY <1>2, <1>3
    <3>3. Spacing'
      BY <1>1, <1>2, <1>3, <2>1, <3>1, <3>2 DEF Spacing, HeldBack
    <3>4. now >= quiet_until
      <4> SUFFICES ASSUME now < quiet_until PROVE FALSE
        BY <1>2
      <4>1. tx_start_ms + Lateness + Backoff + LeanSlot >= quiet_until + Span(Emitted)
        BY <1>6, <2>2 DEF Paced
      <4>2. radio_consecutive_failures = RadioFailures - 1
        BY <1>2, <1>3, <2>5 DEF Spacing, Exhausted
      <4>3. Span(Emitted) = Span(RadioFailures - 1) + LeanSlot
            /\ Span(RadioFailures - 1) \in Nat
            /\ Span(RadioFailures - 1) >= Lateness + Backoff
        BY <1>2, <1>3, <2>3, <4>2, Spans
      <4> QED
        BY <1>2, <1>3, <4>1, <4>3
    <3> QED
      BY <3>3, <3>4
  <2> QED
    BY <2>4, <2>5
<1> QED
  BY <1>4, <1>5, <1>6 DEF ServiceTransmit

(* start_with_recovery(), by what becomes of the packet: held back, not    *)
(* sent by a radio that stays down, on the air, or refused.                *)
HeldPacket ==
  /\ now < radio_retry_after_ms
  /\ UNCHANGED <<tx_in_flight, tx_start_ms, radio>>

DownPacket ==
  /\ ~(now < radio_retry_after_ms) /\ ~radio_healthy
  /\ radio_healthy' = FALSE /\ radio_retry_after_ms' = now + Backoff
  /\ quiet_until' = now + Backoff
  /\ UNCHANGED <<tx_in_flight, tx_start_ms, radio_consecutive_failures>>

OnAirPacket ==
  /\ ~(now < radio_retry_after_ms)
  /\ tx_in_flight' = TRUE /\ tx_start_ms' = now /\ radio_healthy' = TRUE
  /\ quiet_until' = (IF radio_healthy THEN quiet_until ELSE now + Backoff)
  /\ UNCHANGED <<radio_retry_after_ms, radio_consecutive_failures>>

RefusedPacket ==
  /\ ~(now < radio_retry_after_ms) /\ UNCHANGED <<tx_in_flight, tx_start_ms>>
  /\ \/ /\ ~Exhausted /\ radio_healthy' = TRUE
        /\ quiet_until' = (IF radio_healthy THEN quiet_until ELSE now + Backoff)
        /\ radio_retry_after_ms' = radio_retry_after_ms
        /\ radio_consecutive_failures' = radio_consecutive_failures + 1
     \/ /\ Exhausted /\ quiet_until' = now + Backoff
        /\ radio_retry_after_ms' = now + Backoff /\ radio_consecutive_failures' = 0

LEMMA FateOfPacket ==
  ASSUME TypedRest, NEW rich \in BOOLEAN, NEW reinit_ok \in BOOLEAN,
         NEW keyed \in BOOLEAN, StartWithRecovery(rich, reinit_ok, keyed)
  PROVE  HeldPacket \/ DownPacket \/ OnAirPacket \/ RefusedPacket
<1> DEFINE held == now < radio_retry_after_ms
           up == radio_healthy \/ reinit_ok
           starts == ~held /\ up /\ keyed
           refused == ~held /\ up /\ ~keyed
<1>1. /\ IF starts
         THEN tx_in_flight' = TRUE /\ tx_start_ms' = now
         ELSE UNCHANGED <<tx_in_flight, tx_start_ms>>
      /\ IF refused
         THEN NoteTxFailure(TRUE, reinit_ok)
         ELSE /\ radio_healthy' = (radio_healthy \/ starts)
              /\ radio_retry_after_ms' =
                   IF ~held /\ ~up THEN now + Backoff ELSE radio_retry_after_ms
              /\ UNCHANGED radio_consecutive_failures
      /\ quiet_until' = IF ~held /\ (~radio_healthy \/ (refused /\ Exhausted))
                        THEN now + Backoff ELSE quiet_until
  BY DEF StartWithRecovery
<1>2. radio_healthy \in BOOLEAN
  BY DEF TypedRest
<1>3. CASE held
  BY <1>1, <1>2, <1>3 DEF HeldPacket, radio
<1>4. CASE ~held /\ ~up
  BY <1>1, <1>2, <1>4 DEF DownPacket
<1>5. CASE starts
  <2>1. radio_healthy' = TRUE
    BY <1>1, <1>5
  <2> QED
    BY <1>1, <1>2, <1>5, <2>1 DEF OnAirPacket
<1>6. CASE refused
  <2>1. NoteTxFailure(TRUE, reinit_ok) /\ ~starts
    BY <1>1, <1>6
  <2>2. CASE Exhausted
    BY <1>1, <1>6, <2>1, <2>2, FailureCounted DEF RefusedPacket
  <2>3. CASE ~Exhausted
    BY <1>1, <1>6, <2>1, <2>3, FailureCounted DEF RefusedPacket
  <2> QED
    BY <2>2, <2>3
<1> QED
  BY <1>3, <1>4, <1>5, <1>6

(* A packet moves the next due time a lean slot on at least, and a whole   *)
(* period at the command rate.                                             *)
LEMMA AdvanceApart ==
  ASSUME Typed, now >= next_ms, NEW rich \in BOOLEAN, NEW at_max \in BOOLEAN, NEW slot,
         at_max \/ period_ms = Period, Advance(rich, slot, at_max)
  PROVE  /\ next_ms' >= next_ms + LeanSlot
         /\ next_ms' >= now + LeanSlot \/ next_ms' = next_ms + Period
         /\ ~at_max => period_ms' = Period
<1>1. CASE at_max
  <2> DEFINE length == IF rich THEN RichSlot ELSE LeanSlot
  <2>1. length \in Nat /\ length >= LeanSlot
    BY Constants, Spans
  <2>2. next_ms' = now + length
    BY <1>1 DEF Advance
  <2>3. now + length >= next_ms + LeanSlot /\ now + length >= now + LeanSlot
    BY <2>1, Spans DEF Typed
  <2> QED
    BY <1>1, <2>2, <2>3
<1>2. CASE ~at_max
  <2>1. next_ms' = DueAgain /\ period_ms' = Period /\ period_ms = Period
    BY <1>2 DEF Advance
  <2>2. CASE next_ms + Period <= now
    <3>1. DueAgain = now + Period
      BY <2>1, <2>2 DEF DueAgain
    <3>2. now + Period >= next_ms + LeanSlot /\ now + Period >= now + LeanSlot
      BY Spans, Constants DEF Typed
    <3> QED
      BY <2>1, <3>1, <3>2
  <2>3. CASE ~(next_ms + Period <= now)
    <3>1. DueAgain = next_ms + Period
      BY <2>1, <2>3 DEF DueAgain
    <3>2. next_ms + Period >= next_ms + LeanSlot
      BY Spans, Constants DEF Typed
    <3> QED
      BY <2>1, <3>1, <3>2
  <2> QED
    BY <2>2, <2>3
<1> QED
  BY <1>1, <1>2

LEMMA EmitSpaces ==
  ASSUME SpacingInv, NEW command \in BOOLEAN, NEW written \in BOOLEAN,
         NEW reinit_ok \in BOOLEAN, NEW keyed \in BOOLEAN,
         Emit(command, reinit_ok, keyed, written)
  PROVE  Spacing' /\ (quiet_until' # quiet_until => now >= quiet_until)
<1> DEFINE rich == ~max_rate \/ max_rate_slot = 0
           at_max == max_rate \/ command
           slot == IF command THEN 0 ELSE max_rate_slot
<1>1. /\ ~tx_in_flight /\ now >= next_ms /\ now' = now /\ max_rate' = at_max
      /\ StartWithRecovery(rich, reinit_ok, keyed) /\ Advance(rich, slot, at_max)
  BY DEF Emit, IsDue
<1>2. /\ now \in Nat /\ next_ms \in Nat /\ quiet_until \in Nat /\ next_ms' \in Nat
      /\ radio_consecutive_failures \in Nat /\ radio_retry_after_ms \in Nat
      /\ Typed /\ TypedRest /\ Spacing /\ Timely
  <2>1. DownlinkInv'
    BY EmitKeeps DEF SpacingInv, TimingInv, TypeInv
  <2> QED
    BY <2>1 DEF SpacingInv, TimingInv, TypeInv, DownlinkInv, Typed, TypedRest
<1>3. rich \in BOOLEAN /\ at_max \in BOOLEAN /\ (at_max \/ period_ms = Period)
  BY <1>2 DEF Typed, Spacing
<1> HIDE DEF rich, at_max, slot
<1>4. /\ next_ms' >= next_ms + LeanSlot
      /\ next_ms' >= now + LeanSlot \/ next_ms' = next_ms + Period
      /\ ~at_max => period_ms' = Period
  BY <1>1, <1>2, <1>3, AdvanceApart
<1>5. /\ Lateness \in Nat /\ Lateness + Period >= LeanSlot + (MaxGap - 1)
      /\ Backoff \in Nat /\ Backoff > 0 /\ LeanSlot \in Nat /\ Period \in Nat
      /\ RadioFailures \in Nat /\ RadioFailures > 1 /\ MaxGap \in Nat
  BY Spans, Durations
<1>6. HeldPacket \/ DownPacket \/ OnAirPacket \/ RefusedPacket
  BY <1>1, <1>2, <1>3, FateOfPacket
<1>7. radio_consecutive_failures < RadioFailures
      /\ (~radio_healthy => radio_consecutive_failures = 0)
      /\ Emitted = radio_consecutive_failures
      /\ (now < quiet_until /\ ~(now < radio_retry_after_ms) => Paced)
  BY <1>1, <1>2, EmittedType DEF Spacing, HeldBack
<1>8. Span(radio_consecutive_failures) \in Nat
      /\ Span(radio_consecutive_failures + 1) = Span(radio_consecutive_failures) + LeanSlot
  BY <1>2, Spans
<1>9. ~(now < radio_retry_after_ms) /\ ~radio_healthy => now >= quiet_until
  BY <1>2, <1>7 DEF Paced
<1>10. CASE HeldPacket
  <2>1. UNCHANGED <<now, tx_in_flight, tx_start_ms, radio_healthy, radio_retry_after_ms,
                    radio_consecutive_failures, quiet_until>>
    BY <1>1, <1>10 DEF HeldPacket, radio
  <2>2. now < radio_retry_after_ms /\ ~(now >= radio_retry_after_ms)
    BY <1>2, <1>10 DEF HeldPacket
  <2>3. Emitted' = Emitted /\ HeldBack' = HeldBack
    BY <2>1 DEF Emitted, HeldBack
  <2>4. Paced => Paced'
    <3>1. next_ms + Lateness + Backoff >= quiet_until + Span(Emitted) =>
            next_ms' + Lateness + Backoff >= quiet_until + Span(Emitted)
      BY <1>2, <1>4, <1>5, <1>7, <1>8
    <3> QED
      BY <2>1, <2>3, <3>1 DEF Paced, Span
  <2> QED
    BY <1>1, <1>2, <1>4, <2>1, <2>2, <2>3, <2>4 DEF Spacing
<1>11. CASE DownPacket
  <2>1. /\ radio_healthy' = FALSE /\ radio_retry_after_ms' = now + Backoff
        /\ quiet_until' = now + Backoff /\ ~radio_healthy /\ now >= quiet_until
        /\ UNCHANGED <<tx_in_flight, radio_consecutive_failures>>
    BY <1>9, <1>11 DEF DownPacket
  <2>2. ~(now >= now + Backoff)
    BY <1>2, <1>5
  <2> QED
    BY <1>1, <1>4, <1>7, <2>1, <2>2 DEF Spacing, HeldBack
<1>12. ASSUME ~(now < radio_retry_after_ms),
              quiet_until' = IF radio_healthy THEN quiet_until ELSE now + Backoff
       PROVE  /\ now < quiet_until' =>
                   /\ next_ms' + Lateness + Backoff >= quiet_until' + (Span(radio_consecutive_failures) + LeanSlot)
                   /\ now + Lateness + Backoff + LeanSlot >= quiet_until' + (Span(radio_consecutive_failures) + LeanSlot)
              /\ quiet_until' # quiet_until => now >= quiet_until
  <2>1. CASE radio_healthy
    <3>1. now < quiet_until =>
            next_ms + Lateness + Backoff >= quiet_until + Span(radio_consecutive_failures)
      BY <1>7, <1>12 DEF Paced
    <3>2. now < quiet_until =>
            /\ next_ms' + Lateness + Backoff
                 >= quiet_until + (Span(radio_consecutive_failures) + LeanSlot)
            /\ now + Lateness + Backoff + LeanSlot
                 >= quiet_until + (Span(radio_consecutive_failures) + LeanSlot)
      BY <1>1, <1>2, <1>4, <1>5, <1>8, <3>1
    <3> QED
      BY <1>12, <2>1, <3>2
  <2>2. CASE ~radio_healthy
    <3>1. radio_consecutive_failures = 0 /\ Span(radio_consecutive_failures) = 0
      BY <1>7, <2>2, Spans
    <3>2. now <= next_ms + (MaxGap - 1)
      BY <1>1, <1>2, <1>12, <2>2 DEF Spacing
    <3>3. next_ms + Period + Lateness >= now + LeanSlot
      BY <1>2, <1>5, <3>2
    <3>4. \A n \in Nat : n >= now + LeanSlot \/ n = next_ms + Period =>
            n + Lateness + Backoff >= (now + Backoff) + (0 + LeanSlot)
      BY <1>2, <1>5, <3>3
    <3>5. next_ms' + Lateness + Backoff >= (now + Backoff) + (0 + LeanSlot)
      BY <1>2, <1>4, <3>4
    <3>6. now + Lateness + Backoff + LeanSlot >= (now + Backoff) + (0 + LeanSlot)
      BY <1>2, <1>5
    <3> QED
      BY <1>9, <1>12, <2>2, <3>1, <3>5, <3>6
  <2> QED
    BY <2>1, <2>2
<1>13. CASE OnAirPacket
  <2>1. /\ ~(now < radio_retry_after_ms) /\ tx_in_flight' = TRUE /\ tx_start_ms' = now
        /\ radio_healthy' = TRUE
        /\ quiet_until' = (IF radio_healthy THEN quiet_until ELSE now + Backoff)
        /\ radio_consecutive_failures' = radio_consecutive_failures
    BY <1>13 DEF OnAirPacket
  <2>2. Emitted' = radio_consecutive_failures + 1
    BY <2>1 DEF Emitted
  <2>3. now < quiet_until' => Paced'
    BY <1>8, <1>12, <2>1, <2>2 DEF Paced, Span
  <2> QED
    BY <1>1, <1>4, <1>7, <1>12, <2>1, <2>3 DEF Spacing
<1>14. CASE RefusedPacket
  <2>1. ~(now < radio_retry_after_ms) /\ UNCHANGED <<tx_in_flight, tx_start_ms>>
    BY <1>14 DEF RefusedPacket
  <2>2. CASE ~Exhausted
    <3>1. /\ radio_healthy' = TRUE
          /\ quiet_until' = (IF radio_healthy THEN quiet_until ELSE now + Backoff)
          /\ radio_consecutive_failures' = radio_consecutive_failures + 1
      BY <1>14, <2>2 DEF RefusedPacket
    <3>2. radio_consecutive_failures + 1 < RadioFailures
      BY <1>2, <1>5, <2>2 DEF Exhausted
    <3>3. Emitted' = radio_consecutive_failures + 1
      <4>1. Emitted' = radio_consecutive_failures' + 0
        BY <1>1, <2>1 DEF Emitted
      <4>2. radio_consecutive_failures + 1 + 0 = radio_consecutive_failures + 1
        BY <1>2
      <4> QED
        BY <3>1, <4>1, <4>2
    <3>4. now < quiet_until' => Paced'
      BY <1>1, <1>8, <1>12, <2>1, <3>1, <3>3 DEF Paced, Span
    <3> QED
      BY <1>1, <1>4, <1>12, <2>1, <3>1, <3>2, <3>4 DEF Spacing
  <2>3. CASE Exhausted
    <3>1. /\ quiet_until' = now + Backoff /\ radio_retry_after_ms' = now + Backoff
          /\ radio_consecutive_failures' = 0
      BY <1>14, <2>3 DEF RefusedPacket
    <3>2. ~(now >= now + Backoff)
      BY <1>2, <1>5
    <3>3. Spacing'
      BY <1>1, <1>4, <1>5, <2>1, <3>1, <3>2 DEF Spacing, HeldBack
    <3>4. now >= quiet_until
      <4> SUFFICES ASSUME now < quiet_until PROVE FALSE
        BY <1>2
      <4>1. next_ms + Lateness + Backoff >= quiet_until + Span(radio_consecutive_failures)
        BY <1>7, <2>1 DEF Paced
      <4>2. radio_consecutive_failures = RadioFailures - 1
        BY <1>2, <1>5, <1>7, <2>3 DEF Exhausted
      <4>3. Span(radio_consecutive_failures) >= Lateness + Backoff
        BY <4>2, Spans
      <4> QED
        BY <1>1, <1>2, <1>5, <1>8, <4>1, <4>3
    <3> QED
      BY <3>3, <3>4
  <2> QED
    BY <2>2, <2>3
<1> QED
  BY <1>6, <1>10, <1>11, <1>13, <1>14

LEMMA NextSpaces ==
  SpacingInv /\ [Next]_vars =>
    SpacingInv' /\ (quiet_until' # quiet_until => now >= quiet_until)
<1> SUFFICES ASSUME SpacingInv, [Next]_vars
             PROVE  Spacing' /\ (quiet_until' # quiet_until => now >= quiet_until)
  BY NextTiming DEF SpacingInv
<1>a. /\ Spacing /\ TypedRest /\ now \in Nat /\ next_ms \in Nat
      /\ Typed /\ period_ms > 0 /\ period_ms <= LongestWait
  BY DEF SpacingInv, TimingInv, TypeInv, DownlinkInv, Typed, Timely
<1>b. next_ms >= next_ms
  BY <1>a
<1>1. CASE \E gap \in 1 .. MaxGap, works \in BOOLEAN : BeginPoll(gap, works)
  BY <1>1, BeginPollSpaces DEF BeginPoll, radio
<1>2. CASE \E outcome \in {"busy", "sent", "failed", "idle"}, reinit_ok \in Answers :
             ServiceTransmit(outcome, reinit_ok)
  BY <1>2, ServiceTransmitSpaces DEF Answers
<1>3. CASE \E engages \in BOOLEAN : WindowTimeout(engages)
  <2>1. UNCHANGED <<now, next_ms, period_ms, tx_in_flight, tx_start_ms, radio>>
    BY <1>3 DEF WindowTimeout, task, onair
  <2>2. ~max_rate' => ~max_rate
    BY <1>3 DEF WindowTimeout, rate
  <2>3. Emitted' = Emitted /\ HeldBack' = HeldBack /\ (Paced => Paced')
    BY <2>1 DEF Emitted, HeldBack, Paced, Span, radio
  <2> QED
    BY <1>a, <2>1, <2>2, <2>3 DEF Spacing, radio
<1>4. CASE NoPacket
  BY <1>a, <1>b, <1>4, SpacingUnchanged DEF NoPacket, task, onair, radio, rate
<1>5. CASE Suppress
  <2>1. /\ now >= next_ms /\ next_ms' = DueAgain
        /\ UNCHANGED <<now, period_ms, tx_in_flight, tx_start_ms, radio, max_rate>>
    BY <1>5 DEF Suppress, IsDue, onair, rate
  <2>2. DueAgain \in Nat /\ DueAgain >= next_ms
    BY <1>a, <2>1, DueAgainLater
  <2>3. Spacing'
    BY <1>a, <2>1, <2>2, SpacingUnchanged
  <2> QED
    BY <2>1, <2>3 DEF radio
<1>6. CASE \E command, written \in BOOLEAN, reinit_ok, keyed \in Answers :
             Emit(command, reinit_ok, keyed, written)
  BY <1>6, EmitSpaces DEF Answers
<1>7. CASE UNCHANGED vars
  BY <1>a, <1>b, <1>7, SpacingUnchanged DEF vars, task, onair, radio, rate
<1> QED
  BY <1>1, <1>2, <1>3, <1>4, <1>5, <1>6, <1>7 DEF Next

(* The radio is never re-initialised again within the back-off, over the   *)
(* two places that re-initialise it (start_with_recovery, note_tx_failure),*)
(* whatever each attempt and each packet yields and whenever the max rate  *)
(* is engaged.                                                             *)
THEOREM ReinitsAreSpaced == Spec => ReinitSpaced
<1>1. Init => SpacingInv
  <2> SUFFICES ASSUME Init PROVE Spacing
    BY InitTiming DEF SpacingInv
  <2>1. /\ now = 0 /\ next_ms = 0 /\ period_ms = Period /\ tx_in_flight = FALSE
        /\ radio_consecutive_failures = 0 /\ quiet_until = 0
    BY DEF Init
  <2> QED
    BY <2>1, Spans, Durations DEF Spacing
<1>2. SpacingInv /\ [Next]_vars =>
        [quiet_until' # quiet_until => now >= quiet_until]_vars
  BY NextSpaces
<1>3. SpacingInv /\ [Next]_vars => SpacingInv'
  BY NextSpaces
<1> QED
  BY <1>1, <1>2, <1>3, PTL DEF Spec, ReinitSpaced

=============================================================================
