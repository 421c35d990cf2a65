---------------------------- MODULE RawBlockLog ----------------------------
(***************************************************************************)
(* The onboard flight log: flight::RawBlockLog (raw_block_log.cpp) driven  *)
(* by PicoSdLogger (sd_logger.cpp) and called by the flight loop           *)
(* (controller.cpp) as long as it holds the logger enabled.  A region of   *)
(* blocks holds two header copies that are written alternately, then one   *)
(* record per block.  Every block write is a step of its own, so that a    *)
(* power loss can fall before, inside or after it.                         *)
(*                                                                         *)
(* Simplifications: base_lba is 0, as PicoSdLogger passes; a header is a   *)
(* record of the three fields a reader uses plus a validity bit that       *)
(* stands for magic, version, block size and checksum; a record's text is  *)
(* one of a few values; four scrubbed blocks of one scrub_step are four    *)
(* steps; a header that cannot be read at boot is not modelled (it is      *)
(* listed as a hazard); the header sequence does not wrap (2^32 writes).   *)
(***************************************************************************)
EXTENDS Naturals, Sequences

CONSTANTS
  BlockCount,   (* blocks in the log file, the two headers included         *)
  Records,      (* telemetry rows                                          *)
  Columns,      (* the column header row                                   *)
  Blank,        (* a block of spaces, or one that was never written        *)
  Garbage,      (* a block whose write was cut short                       *)
  WriteFaults,  (* may a block write fail while power stays on?            *)
  GroundCommands, (* allow_ground_commands: can the log be erased by radio?*)
  MaxFailures,  (* sd_max_failures: appends that fail before it is disabled *)
  MaxSequence   (* bound on header writes: no call starts that could pass it *)

HeaderBlocks == 2
FirstRecord == HeaderBlocks
DataLbas == FirstRecord .. BlockCount - 1
Lines == Records \cup {Columns}
Contents == Lines \cup {Blank, Garbage}

ASSUME LogAssumption ==
  /\ BlockCount \in Nat /\ BlockCount >= HeaderBlocks + 1
  /\ MaxSequence \in Nat /\ MaxFailures \in Nat \ {0}
  /\ WriteFaults \in BOOLEAN /\ GroundCommands \in BOOLEAN
  /\ Columns \notin Records /\ Blank \notin Lines /\ Garbage \notin Lines
  /\ Blank # Garbage

VARIABLES
  header,           (* on card: the two header copies                      *)
  block,            (* on card: the record blocks                          *)
  next_lba,         (* RAM: next free block                                *)
  scrub_lba,        (* RAM: exclusive end of what is still to be scrubbed  *)
  boot_count,       (* RAM                                                 *)
  header_sequence,  (* RAM: sequence of the last header write attempted    *)
  healthy,          (* RAM: PicoSdLogger::healthy_                         *)
  pc,               (* the block write the firmware is about to perform    *)
  line,             (* RAM: the line append_line was given                 *)
  logger_enabled,   (* RAM of the controller: logger_enabled_              *)
  sd_failures,      (* RAM of the controller: sd_consecutive_failures_     *)
  acked             (* history: records append_line reported as logged and *)
                    (* no erase has removed since; Blank where there is none *)

card == <<header, block>>
ram == <<next_lba, scrub_lba, boot_count, header_sequence, healthy, line>>
logger == <<logger_enabled, sd_failures>>
vars == <<card, ram, logger, pc, acked>>

HeaderRecord == [valid : BOOLEAN, seq : Nat, next : Nat, boots : Nat]
NoHeader == [valid |-> FALSE, seq |-> 0, next |-> FirstRecord, boots |-> 0]

-----------------------------------------------------------------------------
(* Reading the headers. *)

(* begin() walks the copies in order and keeps the one with the higher     *)
(* sequence; a copy that is torn is skipped.                               *)
Usable == {i \in {0, 1} : header[i].valid}

Newest ==
  IF 1 \in Usable /\ (0 \in Usable => header[1].seq > header[0].seq) THEN 1 ELSE 0

(* Resumption from a header: an out of range pointer starts over. *)
StoredNext(h) ==
  IF h.next \in FirstRecord .. BlockCount THEN h.next ELSE FirstRecord

(* Where a reader of the card stops, and a boot would resume, right now. *)
ResumeLba ==
  IF Usable = {} THEN FirstRecord ELSE StoredNext(header[Newest])

StoredBoots ==
  IF Usable = {} THEN 0 ELSE header[Newest].boots

-----------------------------------------------------------------------------
(* Block writes.  A write that reports success has happened; one that      *)
(* reports failure may have happened or not (the card's answer was lost,   *)
(* or it refused).                                                         *)
SingleHeader == 0   \* mutant: one header block instead of two

HeaderTarget == (header_sequence + 1) % HeaderBlocks

WriteHeader(ok) ==
  LET new == [valid |-> TRUE, seq |-> header_sequence + 1,
              next |-> next_lba, boots |-> boot_count]
      written == [header EXCEPT ![HeaderTarget] = new]
  IN /\ header_sequence' = header_sequence + 1
     /\ IF ok THEN header' = written
              ELSE WriteFaults /\ header' \in {header, written}

WriteBlock(lba, content, ok) ==
  LET written == [block EXCEPT ![lba] = content]
  IN IF ok THEN block' = written
           ELSE WriteFaults /\ block' \in {block, written}

FullPastEnd == next_lba > BlockCount   \* mutant: off by one

(* full(): nothing may be written at next_lba. *)
Full == next_lba >= BlockCount

ScrubToFirst == healthy /\ scrub_lba > FirstRecord   \* mutant: ignores the pointer

scrubbing == healthy /\ scrub_lba > next_lba

(* mutant: a block is blanked and the scrub does not move on *)
ScrubStands(ok) == IF ok THEN scrub_lba ELSE next_lba

(* What scrub_step leaves of its work after one block. *)
ScrubbedTo(ok) == IF ok THEN scrub_lba - 1 ELSE next_lba

(* The controller's count of rows that could not be logged, one after the  *)
(* other; at sd_max_failures it stops calling the logger, for good.        *)
RowFails ==
  /\ sd_failures' = sd_failures + 1
  /\ logger_enabled' = (sd_failures + 1 < MaxFailures)

(* The bound: a call that writes n headers starts only below it. *)
Room(sequence, n) == sequence + n <= MaxSequence

-----------------------------------------------------------------------------
Init ==
  /\ header = [i \in {0, 1} |-> NoHeader]
  /\ block = [l \in DataLbas |-> Blank]
  /\ next_lba = FirstRecord /\ scrub_lba = 0
  /\ boot_count = 0 /\ header_sequence = 0
  /\ healthy = FALSE /\ line = Blank
  /\ logger_enabled = FALSE /\ sd_failures = 0
  /\ pc = "off"
  /\ acked = [l \in DataLbas |-> Blank]

(* RawBlockLog::begin up to the header write it ends with. *)
Begin ==
  /\ pc = "off"
  /\ IF Usable = {}
     THEN next_lba' = FirstRecord /\ boot_count' = 1 /\ header_sequence' = 0
     ELSE LET h == header[Newest]
          IN /\ next_lba' = StoredNext(h)
             /\ boot_count' = h.boots + 1
             /\ header_sequence' = h.seq
  /\ Room(header_sequence', 2)
  /\ pc' = "begin_header"
  /\ UNCHANGED <<card, scrub_lba, healthy, line, logger, acked>>

(* The header write of begin(), and PicoSdLogger::initialize after it: an  *)
(* empty log gets the column header as its first record.                   *)
BeginHeader(ok) ==
  /\ pc = "begin_header"
  /\ WriteHeader(ok)
  /\ healthy' = ok /\ logger_enabled' = ok
  /\ IF ok /\ next_lba = FirstRecord
     THEN pc' = "data" /\ line' = Columns
     ELSE pc' = "idle" /\ line' = line
  /\ UNCHANGED <<block, next_lba, scrub_lba, boot_count, sd_failures, acked>>

(* The row of a packet: PicoSdLogger::append.  A full region refuses it    *)
(* and closes the logger, which refuses all that follow.                   *)
AppendLine(r) ==
  /\ pc = "idle" /\ logger_enabled
  /\ IF healthy /\ ~Full
     THEN /\ Room(header_sequence, 1)
          /\ pc' = "data" /\ line' = r /\ UNCHANGED <<healthy, logger>>
     ELSE healthy' = FALSE /\ RowFails /\ UNCHANGED <<pc, line>>
  /\ UNCHANGED <<card, next_lba, scrub_lba, boot_count, header_sequence, acked>>

(* The record block of append_line.  (AppendLine has looked at Full; the   *)
(* column header is only ever appended to an empty log, and is no row.)    *)
AppendData(ok) ==
  /\ pc = "data"
  /\ WriteBlock(next_lba, line, ok)
  /\ next_lba' = IF ok THEN next_lba + 1 ELSE next_lba
  /\ pc' = IF ok THEN "append_header" ELSE "idle"
  /\ IF ok \/ line = Columns THEN UNCHANGED logger ELSE RowFails
  /\ UNCHANGED <<header, scrub_lba, boot_count, header_sequence, healthy, line, acked>>

(* The header write of append_line; only when it succeeds is the record    *)
(* reported as logged.  PicoSdLogger::append closes a log whose last block *)
(* this was and whose header write failed; the column header path does not *)
(* look.                                                                   *)
AppendHeader(ok) ==
  /\ pc = "append_header"
  /\ WriteHeader(ok)
  /\ pc' = "idle"
  /\ acked' = IF ok THEN [acked EXCEPT ![next_lba - 1] = line] ELSE acked
  /\ healthy' = (ok \/ line = Columns \/ ~Full)
  /\ CASE line = Columns -> UNCHANGED logger
       [] line # Columns /\ ok -> sd_failures' = 0 /\ UNCHANGED logger_enabled
       [] OTHER -> RowFails
  /\ UNCHANGED <<block, next_lba, scrub_lba, boot_count, line>>

(* mutant: an erase also restarts the boot count *)
EraseForgetsBoots ==
  /\ GroundCommands
  /\ pc = "idle" /\ healthy /\ Room(header_sequence, 2)
  /\ next_lba' = FirstRecord
  /\ scrub_lba' = BlockCount
  /\ boot_count' = 0
  /\ pc' = "reset_header"
  /\ UNCHANGED <<card, header_sequence, healthy, line, logger, acked>>

(* PicoSdLogger::erase: reset() moves the pointer back and arms the scrub  *)
(* before it writes the header.  service_ground_commands() erases a log it *)
(* no longer writes to as well.                                            *)
Erase ==
  /\ GroundCommands
  /\ pc = "idle" /\ healthy /\ Room(header_sequence, 2)
  /\ next_lba' = FirstRecord
  /\ scrub_lba' = BlockCount
  /\ pc' = "reset_header"
  /\ UNCHANGED <<card, boot_count, header_sequence, healthy, line, logger, acked>>

(* The header write of reset(); on success the column header follows.  The *)
(* promise of earlier records ends with the header that replaces them.     *)
ResetHeader(ok) ==
  /\ pc = "reset_header"
  /\ WriteHeader(ok)
  /\ IF ok THEN pc' = "data" /\ line' = Columns ELSE pc' = "idle" /\ line' = line
  /\ acked' = IF header' = header THEN acked ELSE [l \in DataLbas |-> Blank]
  /\ UNCHANGED <<block, next_lba, scrub_lba, boot_count, healthy, logger>>

(* One block of scrub_step, which poll() calls while the logger is enabled *)
(* and no longer.  A failed write abandons the scrub.                      *)
ScrubBlock(ok) ==
  /\ pc = "idle" /\ logger_enabled /\ scrubbing
  /\ WriteBlock(scrub_lba - 1, Blank, ok)
  /\ scrub_lba' = ScrubbedTo(ok)
  /\ UNCHANGED <<header, next_lba, boot_count, header_sequence, healthy, line, logger,
                 pc, acked>>

(* The blocks a power loss can tear: the one being written. *)
TornHeaders ==
  IF pc \in {"begin_header", "append_header", "reset_header"}
  THEN {header, [header EXCEPT ![HeaderTarget] = NoHeader]} ELSE {header}

TornBlocks ==
  {block}
    \cup (IF pc = "data" THEN {[block EXCEPT ![next_lba] = Garbage]} ELSE {})
    \cup (IF pc = "idle" /\ logger_enabled /\ scrubbing
          THEN {[block EXCEPT ![scrub_lba - 1] = Garbage]} ELSE {})

(* Brownout, impact reset or switch-off, at any instant: RAM is lost and   *)
(* the block being written is old, or torn.  (New is the write's own step  *)
(* followed by this one.)                                                  *)
PowerLoss ==
  /\ pc # "off"
  /\ pc' = "off"
  /\ header' \in TornHeaders
  /\ block' \in TornBlocks
  /\ next_lba' = FirstRecord /\ scrub_lba' = 0
  /\ boot_count' = 0 /\ header_sequence' = 0
  /\ healthy' = FALSE /\ line' = Blank
  /\ logger_enabled' = FALSE /\ sd_failures' = 0
  /\ UNCHANGED acked

Write(ok) ==
  BeginHeader(ok) \/ AppendData(ok) \/ AppendHeader(ok) \/ ResetHeader(ok)

Next ==
  \/ Begin
  \/ \E ok \in BOOLEAN : Write(ok) \/ ScrubBlock(ok)
  \/ \E r \in Records : AppendLine(r)
  \/ Erase
  \/ PowerLoss

Spec == Init /\ [][Next]_vars

(* The firmware finishes the call it is in, and Controller::poll calls     *)
(* erase_step on every pass in which the logger is enabled, whatever else  *)
(* the pass did: between two appends there is always a scrub step, which   *)
(* is strong fairness of a step that is enabled no longer than that.       *)
(* Appends, erases and power losses need not happen.                       *)
Fairness ==
  /\ WF_vars(\E ok \in BOOLEAN : Write(ok))
  /\ SF_vars(\E ok \in BOOLEAN : ScrubBlock(ok))

FairSpec == Spec /\ Fairness

-----------------------------------------------------------------------------
(* Properties. *)

TypeOK ==
  /\ header \in [{0, 1} -> HeaderRecord]
  /\ block \in [DataLbas -> Contents]
  /\ next_lba \in FirstRecord .. BlockCount
  /\ scrub_lba \in 0 .. BlockCount
  /\ boot_count \in Nat /\ header_sequence \in Nat
  /\ healthy \in BOOLEAN /\ logger_enabled \in BOOLEAN
  /\ sd_failures \in 0 .. MaxFailures
  /\ line \in Lines \cup {Blank}
  /\ pc \in {"off", "begin_header", "idle", "data", "append_header", "reset_header"}
  /\ acked \in [DataLbas -> Lines \cup {Blank}]

(* Every record append_line() reported as logged is still on the card, and *)
(* still before the point where a reader stops and the next boot resumes,  *)
(* whenever the power fails and however often: "a brownout or impact reset *)
(* resumes at the correct block instead of overwriting flight data"        *)
(* (raw_block_log.hpp).                                                    *)
AckedRecoverable ==
  \A l \in DataLbas : acked[l] # Blank => l < ResumeLba /\ block[l] = acked[l]

(* Scrubbing removes only "bytes a reader would never have reached anyway" *)
(* (raw_block_log.hpp): a block that a scrub overwrites, or tears when the *)
(* power fails, lies at or beyond the resume point the card itself holds.  *)
ScrubOnlyUnreachable ==
  [][\A l \in DataLbas : pc = "idle" /\ block'[l] # block[l] => l >= ResumeLba]_vars

(* "A scrub that has started must finish or be abandoned by the logger,    *)
(* not left half done" (controller.cpp): it ends by reaching the write     *)
(* pointer, by a write failure, or with the power; it neither stands nor   *)
(* runs after the records that are being appended below it.  On a card     *)
(* whose writes fail this does not hold: a logger that is disabled while   *)
(* it scrubs is called no more.                                            *)
ScrubEnds == scrubbing ~> ~scrubbing

(* The log a reader sees implements DurableLog. *)
Reader == INSTANCE DurableLog WITH
  Lines <- Lines,
  Capacity <- BlockCount - FirstRecord,
  log <- [i \in 1 .. ResumeLba - FirstRecord |-> block[FirstRecord + i - 1]],
  boots <- StoredBoots

ReaderSpec == Reader!Spec
=============================================================================
