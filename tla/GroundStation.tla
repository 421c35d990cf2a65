---------------------------- MODULE GroundStation ----------------------------
(***************************************************************************)
(* What the ground station makes of the packet numbers it hears:           *)
(* StreamValidator (validator.py), called for every packet that parses     *)
(* (app.py), over a link that loses packets and a vehicle whose watchdog   *)
(* may restart it, which begins its numbers and its clock again.           *)
(*                                                                         *)
(* One step is one telemetry period of the vehicle, or its restart.        *)
(* Abstracted: a damaged packet, which is a lost one for the numbers; the  *)
(* packets of other teams, which the configured identity refuses; the GPS  *)
(* and sound checks, which only write notes; the counters of LinkHealth,   *)
(* which add up what check() reports.                                      *)
(***************************************************************************)
EXTENDS Integers, Sequences, SequencesExt

CONSTANTS
  SeenWindow,   (* SEEN_WINDOW                                             *)
  MaxNumber,    (* bound on the packets of one run of the vehicle          *)
  MaxClock,     (* bound on the periods of one run                         *)
  MaxRestarts   (* bound on the restarts of the vehicle                    *)

GroundStationAssumption ==
  SeenWindow \in Nat \ {0} /\ {MaxNumber, MaxClock, MaxRestarts} \subseteq Nat

VARIABLES
  number,       (* the vehicle: its last packet number in this run         *)
  clock,        (* its mission clock                                       *)
  restarted,    (* how often it restarted                                  *)
  stream,       (* the validator                                           *)
  lost,         (* history: packets lost                                   *)
  gap,          (* history: of this run, since the last one heard          *)
  bridged,      (* history: packets lost between two of one run that were  *)
                (* heard                                                   *)
  heard,        (* history: the clock of the last packet heard             *)
  in_run,       (* history: was a packet of this run heard?                *)
  followed      (* history: did every later run show itself, with its      *)
                (* P-001 and a clock that went back?                       *)

vars == <<number, clock, restarted, stream, lost, gap, bridged, heard, in_run,
          followed>>

None == -1

-----------------------------------------------------------------------------
(* check() *)

(* Both signals are required, and something to restart from. *)
IsVehicleRestart(s, packet_number, timestamp_ms) ==
  /\ s.last_number > 1
  /\ packet_number = 1
  /\ timestamp_ms < s.last_timestamp_ms

ForgettingSeen(s) ==   \* mutant: the last number outlives the restart
  [s EXCEPT !.seen = <<>>, !.last_timestamp_ms = None, !.restarts = s.restarts + 1]

Forgetting(s) ==
  [s EXCEPT !.seen = <<>>, !.last_number = None, !.last_timestamp_ms = None,
            !.restarts = s.restarts + 1]

(* The window of the numbers seen is bounded: the oldest one goes. *)
Remember(seen, packet_number) ==
  IF packet_number \in ToSet(seen) THEN seen
  ELSE IF Len(seen) = SeenWindow THEN Append(Tail(seen), packet_number)
  ELSE Append(seen, packet_number)

Check(validator, packet_number, timestamp_ms) ==
  LET s == IF IsVehicleRestart(validator, packet_number, timestamp_ms)
           THEN Forgetting(validator) ELSE validator
      judged == s.last_number # None /\ packet_number \notin ToSet(s.seen)
      early == packet_number <= s.last_number
  IN [s EXCEPT
        !.missing = s.missing + (IF judged /\ ~early
                                 THEN packet_number - s.last_number - 1 ELSE 0),
        !.out_of_order = s.out_of_order + (IF judged /\ early THEN 1 ELSE 0),
        !.seen = Remember(s.seen, packet_number),
        !.last_number = IF early THEN s.last_number ELSE packet_number,
        !.last_timestamp_ms = timestamp_ms]

-----------------------------------------------------------------------------
(* The station may be started at any time of the vehicle's first run. *)
Init ==
  /\ number \in 0 .. MaxNumber /\ clock \in number .. MaxClock
  /\ restarted = 0
  /\ stream = [last_number |-> None, last_timestamp_ms |-> None, seen |-> <<>>,
               missing |-> 0, out_of_order |-> 0, restarts |-> 0]
  /\ lost = 0 /\ gap = 0 /\ bridged = 0
  /\ heard = None /\ in_run = FALSE /\ followed = TRUE

(* A period without a packet: its mandatory data was not valid. *)
Suppress ==
  /\ clock < MaxClock
  /\ clock' = clock + 1
  /\ UNCHANGED <<number, restarted, stream, lost, gap, bridged, heard, in_run, followed>>

Transmit ==
  /\ number < MaxNumber /\ clock < MaxClock
  /\ number' = number + 1 /\ clock' = clock + 1
  /\ UNCHANGED restarted

Lose ==
  /\ Transmit
  /\ lost' = lost + 1 /\ gap' = gap + 1
  /\ UNCHANGED <<stream, bridged, heard, in_run, followed>>

(* The packet reaches the station, once or twice in a row. *)
Hear(twice) ==
  /\ Transmit
  /\ LET once == Check(stream, number', clock)
     IN stream' = IF twice THEN Check(once, number', clock) ELSE once
  /\ gap' = 0
  /\ bridged' = IF in_run THEN bridged + gap ELSE bridged
  /\ heard' = clock
  /\ in_run' = TRUE
  /\ followed' = (followed /\ (in_run \/ heard = None \/ (number' = 1 /\ clock < heard)))
  /\ UNCHANGED lost

VehicleRestart ==
  /\ restarted < MaxRestarts
  /\ restarted' = restarted + 1
  /\ number' = 0 /\ clock' = 0
  /\ gap' = 0 /\ in_run' = FALSE
  /\ UNCHANGED <<stream, lost, bridged, heard, followed>>

Next ==
  \/ Suppress
  \/ Lose
  \/ \E twice \in BOOLEAN : Hear(twice)
  \/ VehicleRestart

Spec == Init /\ [][Next]_vars

-----------------------------------------------------------------------------
(* Properties. *)

TypeOK ==
  /\ number \in 0 .. MaxNumber /\ clock \in number .. MaxClock
  /\ restarted \in 0 .. MaxRestarts
  /\ stream.last_number \in {None} \cup 1 .. MaxNumber
  /\ stream.last_timestamp_ms \in {None} \cup 0 .. MaxClock
  /\ stream.seen \in Seq(1 .. MaxNumber) /\ Len(stream.seen) <= SeenWindow
  /\ {stream.missing, stream.out_of_order, stream.restarts} \subseteq Nat
  /\ {lost, gap, bridged} \subseteq Nat
  /\ heard \in {None} \cup 0 .. MaxClock
  /\ in_run \in BOOLEAN /\ followed \in BOOLEAN

(* "The numbers an operator uses to judge the link" (validator.py): the    *)
(* station never reports more loss than there was, nor a restart that did  *)
(* not happen, whatever it heard of the vehicle's runs; and while every    *)
(* run it heard of showed itself, its loss is exact and no packet is       *)
(* called out of order.                                                    *)
LossHonest ==
  /\ stream.missing <= lost
  /\ stream.restarts <= restarted
  /\ followed => stream.missing = bridged /\ stream.out_of_order = 0
=============================================================================
