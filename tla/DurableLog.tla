---------------------------- MODULE DurableLog ----------------------------
(***************************************************************************)
(* What the onboard flight log promises its reader, with no card, no       *)
(* header blocks and no write pointer: the file is a sequence of records   *)
(* that only ever grows by one record or is emptied by an erase, and the   *)
(* number of boots it remembers only ever grows by one.  A power loss, a   *)
(* torn block, a reboot or a scrub changes nothing a reader can see.       *)
(* RawBlockLog implements this specification on a card whose writes either *)
(* succeed or are cut short by a power loss.                               *)
(***************************************************************************)
EXTENDS Naturals, Sequences

CONSTANTS
  Lines,      (* every line that may be logged, column header included     *)
  Capacity    (* the number of record blocks in the log file               *)

VARIABLES
  log,        (* the records a reader of the card sees, oldest first       *)
  boots       (* the boot count a reader of the card sees                  *)

vars == <<log, boots>>

Init == log = <<>> /\ boots = 0

AppendRecord ==
  /\ Len(log) < Capacity
  /\ \E r \in Lines : log' = Append(log, r)
  /\ UNCHANGED boots

(* The boot count is the vehicle's life story, so an erase keeps it. *)
Erase == log' = <<>> /\ UNCHANGED boots

Boot == boots' = boots + 1 /\ UNCHANGED log

Next == AppendRecord \/ Erase \/ Boot

Spec == Init /\ [][Next]_vars
=============================================================================
