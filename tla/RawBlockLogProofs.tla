------------------------- MODULE RawBlockLogProofs -------------------------
(***************************************************************************)
(* Proofs about RawBlockLog, for every size of the log and every set of    *)
(* records.  The first part, the types, holds whatever the card does.  The *)
(* second, that no acknowledged record is lost and that the scrub touches  *)
(* nothing a restarted log could reach, and the third, that the log is the *)
(* DurableLog its readers rely on, need block writes that either happen or *)
(* are cut short by a power loss (WriteFaults = FALSE).                    *)
(***************************************************************************)
EXTENDS RawBlockLog, SequenceTheorems, TLAPS

-----------------------------------------------------------------------------
(* Type correctness. *)

(* TypeOK is not inductive: a record write needs a free block, what is     *)
(* acknowledged after it must be a line, and a row is given to the logger  *)
(* only while the controller has failures left to count.                   *)
CallOK ==
  /\ pc = "data" => next_lba < BlockCount /\ line \in Lines
  /\ pc = "append_header" => next_lba > FirstRecord /\ line \in Lines
  /\ pc = "reset_header" => next_lba = FirstRecord

LoggerOK ==
  /\ logger_enabled \in BOOLEAN /\ sd_failures \in 0 .. MaxFailures
  /\ logger_enabled => sd_failures < MaxFailures
  /\ pc \in {"off", "begin_header"} => sd_failures = 0
  /\ pc \in {"data", "append_header"} /\ line # Columns => logger_enabled

TypeInv == TypeOK /\ CallOK /\ LoggerOK

(* There is room for a record; the boundary is what the arithmetic needs. *)
LEMMA Region == BlockCount \in Nat /\ FirstRecord = 2 /\ FirstRecord < BlockCount
BY LogAssumption DEF FirstRecord, HeaderBlocks

(* A failed row takes one of the failures left. *)
LEMMA RowFailsType ==
  ASSUME sd_failures \in Nat, sd_failures < MaxFailures, RowFails
  PROVE  /\ sd_failures' \in 0 .. MaxFailures /\ logger_enabled' \in BOOLEAN
         /\ logger_enabled' => sd_failures' < MaxFailures
<1>1. sd_failures' = sd_failures + 1 /\ logger_enabled' = (sd_failures + 1 < MaxFailures)
  BY DEF RowFails
<1>2. MaxFailures \in Nat BY LogAssumption
<1>3. sd_failures + 1 \in 0 .. MaxFailures BY <1>2
<1>4. logger_enabled' \in BOOLEAN BY <1>1
<1> QED BY <1>1, <1>3, <1>4

(* The controller's own count, whatever the card does. *)
LEMMA NextLogger ==
  ASSUME LoggerOK, [Next]_vars
  PROVE  LoggerOK'
<1>a. MaxFailures \in Nat /\ MaxFailures > 0 /\ Columns \notin Records
  BY LogAssumption
<1>b. sd_failures \in Nat BY <1>a DEF LoggerOK
<1>1. CASE Begin \/ Erase
  <2>1. /\ logger_enabled' = logger_enabled /\ sd_failures' = sd_failures
        /\ pc' \in {"begin_header", "reset_header"} /\ (pc' = "begin_header" => pc = "off")
    BY <1>1 DEF Begin, Erase, logger
  <2> QED BY <2>1 DEF LoggerOK
<1>2. ASSUME NEW ok \in BOOLEAN, BeginHeader(ok) PROVE LoggerOK'
  <2>1. /\ pc = "begin_header" /\ logger_enabled' = ok /\ sd_failures' = sd_failures
        /\ pc' \in {"data", "idle"} /\ (pc' = "data" => line' = Columns)
    BY <1>2 DEF BeginHeader
  <2>2. sd_failures' = 0 BY <2>1 DEF LoggerOK
  <2>3. sd_failures' \in 0 .. MaxFailures /\ (logger_enabled' => sd_failures' < MaxFailures)
    BY <1>a, <2>2
  <2>4. logger_enabled' \in BOOLEAN BY <2>1
  <2>5. pc' \in {"off", "begin_header"} => sd_failures' = 0 BY <2>2
  <2>6. ~(pc' \in {"data", "append_header"} /\ line' # Columns) BY <2>1
  <2> QED BY <2>3, <2>4, <2>5, <2>6 DEF LoggerOK
<1>3. ASSUME NEW ok \in BOOLEAN, AppendData(ok) PROVE LoggerOK'
  <2>1. pc = "data" /\ pc' = (IF ok THEN "append_header" ELSE "idle") /\ line' = line
    BY <1>3 DEF AppendData
  <2>2. CASE ok \/ line = Columns
    <3>1. logger_enabled' = logger_enabled /\ sd_failures' = sd_failures
      BY <1>3, <2>2 DEF AppendData, logger
    <3> QED BY <2>1, <3>1 DEF LoggerOK
  <2>3. CASE ~ok /\ line # Columns
    <3>1. RowFails BY <1>3, <2>3 DEF AppendData
    <3>2. sd_failures < MaxFailures BY <2>1, <2>3 DEF LoggerOK
    <3> QED BY <1>b, <2>1, <2>3, <3>1, <3>2, RowFailsType DEF LoggerOK
  <2> QED BY <2>2, <2>3
<1>4. ASSUME NEW ok \in BOOLEAN, AppendHeader(ok) PROVE LoggerOK'
  <2>1. pc = "append_header" /\ pc' = "idle"
    BY <1>4 DEF AppendHeader
  <2>2. CASE line = Columns
    <3>1. logger_enabled' = logger_enabled /\ sd_failures' = sd_failures
      BY <1>4, <2>2 DEF AppendHeader, logger
    <3> QED BY <2>1, <3>1 DEF LoggerOK
  <2>3. CASE line # Columns /\ ok
    <3>1. sd_failures' = 0 /\ logger_enabled' = logger_enabled
      BY <1>4, <2>3 DEF AppendHeader
    <3> QED BY <1>a, <2>1, <3>1 DEF LoggerOK
  <2>4. CASE line # Columns /\ ~ok
    <3>1. RowFails BY <1>4, <2>4 DEF AppendHeader
    <3>2. sd_failures < MaxFailures BY <2>1, <2>4 DEF LoggerOK
    <3> QED BY <1>b, <2>1, <3>1, <3>2, RowFailsType DEF LoggerOK
  <2> QED BY <2>2, <2>3, <2>4
<1>5. ASSUME NEW ok \in BOOLEAN, ResetHeader(ok) PROVE LoggerOK'
  <2>1. /\ logger_enabled' = logger_enabled /\ sd_failures' = sd_failures
        /\ pc' \in {"data", "idle"} /\ (pc' = "data" => line' = Columns)
    BY <1>5 DEF ResetHeader, logger
  <2> QED BY <2>1 DEF LoggerOK
<1>6. ASSUME NEW ok \in BOOLEAN, ScrubBlock(ok) PROVE LoggerOK'
  BY <1>6 DEF ScrubBlock, logger, LoggerOK
<1>7. ASSUME NEW r \in Records, AppendLine(r) PROVE LoggerOK'
  <2>1. pc = "idle" /\ logger_enabled BY <1>7 DEF AppendLine
  <2>2. CASE healthy /\ ~Full
    <3>1. logger_enabled' = logger_enabled /\ sd_failures' = sd_failures /\ pc' = "data"
      BY <1>7, <2>2 DEF AppendLine, logger
    <3> QED BY <2>1, <3>1 DEF LoggerOK
  <2>3. CASE ~(healthy /\ ~Full)
    <3>1. RowFails /\ pc' = pc BY <1>7, <2>3 DEF AppendLine
    <3>2. sd_failures < MaxFailures BY <2>1 DEF LoggerOK
    <3> QED BY <1>b, <2>1, <3>1, <3>2, RowFailsType DEF LoggerOK
  <2> QED BY <2>2, <2>3
<1>8. CASE PowerLoss
  <2>1. logger_enabled' = FALSE /\ sd_failures' = 0 /\ pc' = "off"
    BY <1>8 DEF PowerLoss
  <2>2. sd_failures' \in 0 .. MaxFailures BY <1>a, <2>1
  <2> QED BY <2>1, <2>2 DEF LoggerOK
<1>9. CASE UNCHANGED vars
  BY <1>9 DEF vars, ram, logger, LoggerOK
<1> QED BY <1>1, <1>2, <1>3, <1>4, <1>5, <1>6, <1>7, <1>8, <1>9 DEF Next, Write

LEMMA HeaderFields ==
  ASSUME NEW h \in HeaderRecord
  PROVE  h.valid \in BOOLEAN /\ h.seq \in Nat /\ h.next \in Nat /\ h.boots \in Nat
BY DEF HeaderRecord

LEMMA NoHeaderType == NoHeader \in HeaderRecord
BY DEF NoHeader, HeaderRecord, FirstRecord, HeaderBlocks

LEMMA WriteHeaderType ==
  ASSUME TypeOK, NEW ok \in BOOLEAN, WriteHeader(ok)
  PROVE  header' \in [{0, 1} -> HeaderRecord] /\ header_sequence' \in Nat
<1> DEFINE new == [valid |-> TRUE, seq |-> header_sequence + 1,
                   next |-> next_lba, boots |-> boot_count]
           written == [header EXCEPT ![HeaderTarget] = new]
<1>1. header_sequence' = header_sequence + 1 BY DEF WriteHeader
<1>2. header' \in {header, written}
  <2>1. CASE ok BY <2>1 DEF WriteHeader
  <2>2. CASE ~ok BY <2>2 DEF WriteHeader
  <2> QED BY <2>1, <2>2
<1>3. new \in HeaderRecord
  BY LogAssumption DEF TypeOK, FirstRecord, HeaderBlocks, HeaderRecord
<1>4. header \in [{0, 1} -> HeaderRecord] /\ header_sequence \in Nat BY DEF TypeOK
<1> HIDE DEF new
<1> QED BY <1>1, <1>2, <1>3, <1>4

LEMMA WriteBlockType ==
  ASSUME TypeOK, NEW ok \in BOOLEAN, NEW lba, NEW content \in Contents,
         WriteBlock(lba, content, ok)
  PROVE  block' \in [DataLbas -> Contents]
<1> DEFINE written == [block EXCEPT ![lba] = content]
<1>1. block' \in {block, written}
  <2>1. CASE ok BY <2>1 DEF WriteBlock
  <2>2. CASE ~ok BY <2>2 DEF WriteBlock
  <2> QED BY <2>1, <2>2
<1> QED BY <1>1 DEF TypeOK

LEMMA InitTypeInv == Init => TypeInv
<1> SUFFICES ASSUME Init PROVE TypeInv
  OBVIOUS
<1>1. header \in [{0, 1} -> HeaderRecord] BY NoHeaderType DEF Init
<1>2. block \in [DataLbas -> Contents] /\ acked \in [DataLbas -> Lines \cup {Blank}]
  BY DEF Init, Contents
<1>3. /\ next_lba \in FirstRecord .. BlockCount /\ scrub_lba \in 0 .. BlockCount
      /\ boot_count \in Nat /\ header_sequence \in Nat
  BY Region DEF Init
<1>4. /\ healthy \in BOOLEAN /\ line \in Lines \cup {Blank} /\ pc = "off"
      /\ logger_enabled = FALSE /\ sd_failures = 0
  BY DEF Init
<1>5. 0 \in 0 .. MaxFailures /\ 0 < MaxFailures BY LogAssumption
<1> QED BY <1>1, <1>2, <1>3, <1>4, <1>5 DEF TypeInv, TypeOK, CallOK, LoggerOK

LEMMA NextTypeInv == TypeInv /\ [Next]_vars => TypeInv'
<1> SUFFICES ASSUME TypeInv, [Next]_vars PROVE TypeInv'
  OBVIOUS
<1> USE DEF TypeInv
<1>0. LoggerOK' BY NextLogger
<1>a. logger_enabled' \in BOOLEAN /\ sd_failures' \in 0 .. MaxFailures
  BY <1>0 DEF LoggerOK
<1>1. CASE Begin
  <2>1. next_lba' \in FirstRecord .. BlockCount /\ boot_count' \in Nat /\ header_sequence' \in Nat
    <3>1. CASE Usable = {}
      BY <1>1, <3>1, LogAssumption DEF Begin, FirstRecord, HeaderBlocks
    <3>2. CASE Usable # {}
      <4> DEFINE h == header[Newest]
      <4>1. h \in HeaderRecord BY DEF TypeOK, Newest
      <4>2. h.seq \in Nat /\ h.boots \in Nat BY <4>1, HeaderFields
      <4>3. StoredNext(h) \in FirstRecord .. BlockCount
        BY LogAssumption DEF StoredNext, FirstRecord, HeaderBlocks
      <4>4. next_lba' = StoredNext(h) /\ boot_count' = h.boots + 1 /\ header_sequence' = h.seq
        BY <1>1, <3>2 DEF Begin
      <4> HIDE DEF h
      <4> QED BY <4>2, <4>3, <4>4
    <3> QED BY <3>1, <3>2
  <2> QED BY <1>0, <1>a, <1>1, <2>1 DEF Begin, card, TypeOK, CallOK
<1>2. ASSUME NEW ok \in BOOLEAN, BeginHeader(ok) PROVE TypeInv'
  <2>1. WriteHeader(ok) BY <1>2 DEF BeginHeader
  <2>2. FirstRecord < BlockCount BY LogAssumption DEF FirstRecord, HeaderBlocks
  <2> QED BY <1>0, <1>a, <1>2, <2>1, <2>2, WriteHeaderType DEF BeginHeader, TypeOK, CallOK, Lines
<1>3. ASSUME NEW ok \in BOOLEAN, AppendData(ok) PROVE TypeInv'
  <2>1. line \in Contents BY <1>3 DEF AppendData, CallOK, Contents
  <2>2. block' \in [DataLbas -> Contents] BY <1>3, <2>1, WriteBlockType DEF AppendData
  <2> QED BY <1>0, <1>a, <1>3, <2>2, LogAssumption
    DEF AppendData, TypeOK, CallOK, FirstRecord, HeaderBlocks
<1>4. ASSUME NEW ok \in BOOLEAN, AppendHeader(ok) PROVE TypeInv'
  <2>1. WriteHeader(ok) BY <1>4 DEF AppendHeader
  <2> QED BY <1>0, <1>a, <1>4, <2>1, WriteHeaderType, LogAssumption
    DEF AppendHeader, TypeOK, CallOK, Full
<1>5. ASSUME NEW ok \in BOOLEAN, ResetHeader(ok) PROVE TypeInv'
  <2>1. WriteHeader(ok) BY <1>5 DEF ResetHeader
  <2>2. FirstRecord < BlockCount BY LogAssumption DEF FirstRecord, HeaderBlocks
  <2> QED BY <1>0, <1>a, <1>5, <2>1, <2>2, WriteHeaderType DEF ResetHeader, TypeOK, CallOK, Lines
<1>6. ASSUME NEW ok \in BOOLEAN, ScrubBlock(ok) PROVE TypeInv'
  <2>1. block' \in [DataLbas -> Contents]
    BY <1>6, WriteBlockType DEF ScrubBlock, Contents
  <2>2. scrub_lba' \in 0 .. BlockCount
    BY <1>6, LogAssumption
    DEF ScrubBlock, ScrubbedTo, scrubbing, TypeOK, FirstRecord, HeaderBlocks
  <2> QED BY <1>0, <1>a, <1>6, <2>1, <2>2 DEF ScrubBlock, TypeOK, CallOK
<1>7. ASSUME NEW r \in Records, AppendLine(r) PROVE TypeInv'
  <2>1. /\ UNCHANGED <<header, block, next_lba, scrub_lba, boot_count, header_sequence, acked>>
        /\ pc = "idle"
    BY <1>7 DEF AppendLine, card
  <2>2. CASE ~(healthy /\ ~Full)
    <3>1. healthy' = FALSE /\ pc' = pc /\ line' = line BY <1>7, <2>2 DEF AppendLine
    <3> QED BY <1>0, <1>a, <2>1, <3>1 DEF TypeOK, CallOK
  <2>3. CASE healthy /\ ~Full
    <3>1. healthy' = healthy /\ pc' = "data" /\ line' = r BY <1>7, <2>3 DEF AppendLine
    <3>2. next_lba < BlockCount BY <2>3, Region DEF Full, TypeOK
    <3>3. r \in Lines BY DEF Lines
    <3> QED BY <1>0, <1>a, <2>1, <3>1, <3>2, <3>3 DEF TypeOK, CallOK
  <2> QED BY <2>2, <2>3
<1>8. CASE Erase
  BY <1>0, <1>a, <1>8, LogAssumption DEF Erase, card, TypeOK, CallOK, FirstRecord, HeaderBlocks
<1>9. CASE PowerLoss
  <2>1. header' \in [{0, 1} -> HeaderRecord]
    <3>1. header' \in {header, [header EXCEPT ![HeaderTarget] = NoHeader]}
      BY <1>9 DEF PowerLoss, TornHeaders
    <3> QED BY <3>1, NoHeaderType DEF TypeOK
  <2>2. block' \in [DataLbas -> Contents]
    <3>1. \/ block' = block
          \/ block' = [block EXCEPT ![next_lba] = Garbage]
          \/ block' = [block EXCEPT ![scrub_lba - 1] = Garbage]
      BY <1>9 DEF PowerLoss, TornBlocks
    <3>2. Garbage \in Contents BY DEF Contents
    <3> QED BY <3>1, <3>2 DEF TypeOK
  <2>3. /\ next_lba' \in FirstRecord .. BlockCount /\ scrub_lba' \in 0 .. BlockCount
        /\ boot_count' \in Nat /\ header_sequence' \in Nat
    BY <1>9, Region DEF PowerLoss
  <2>4. healthy' \in BOOLEAN /\ line' \in Lines \cup {Blank} /\ pc' = "off" /\ acked' = acked
    BY <1>9 DEF PowerLoss
  <2> QED BY <1>0, <1>a, <2>1, <2>2, <2>3, <2>4 DEF TypeOK, CallOK
<1>10. CASE UNCHANGED vars
  BY <1>0, <1>a, <1>10 DEF vars, card, ram, TypeOK, CallOK
<1> QED BY <1>1, <1>2, <1>3, <1>4, <1>5, <1>6, <1>7, <1>8, <1>9, <1>10 DEF Next, Write

(* The log never writes outside its region and never holds a value of the  *)
(* wrong kind, whatever the card does and wherever the power fails.        *)
THEOREM TypeCorrect == Spec => []TypeOK
<1>1. TypeInv => TypeOK BY DEF TypeInv
<1> QED BY <1>1, InitTypeInv, NextTypeInv, PTL DEF Spec
-----------------------------------------------------------------------------
(* No acknowledged record is lost.                                         *)
(*                                                                         *)
(* Why AckedRecoverable is not inductive: a header write is safe only      *)
(* because it lands on the older copy, which needs the sequence in RAM to  *)
(* be that of the newest copy on the card and each copy to sit in the      *)
(* block its parity names; and a record write is safe only because the     *)
(* pointer in RAM is the one the newest copy holds.                        *)

SlotsOK ==
  \A i \in {0, 1} : header[i].valid =>
    header[i].seq % 2 = i /\ header[i].next \in FirstRecord .. BlockCount

SequenceOK ==
  pc # "off" => header_sequence = IF Usable = {} THEN 0 ELSE header[Newest].seq

PointerOK ==
  /\ pc \in {"idle", "data", "begin_header"} => next_lba = ResumeLba
  /\ pc = "append_header" => next_lba = ResumeLba + 1 /\ block[next_lba - 1] = line

RecoverInv == TypeInv /\ SlotsOK /\ SequenceOK /\ PointerOK /\ AckedRecoverable

(* The copy that is written next is never the newest one. *)
LEMMA TargetIsOlder ==
  ASSUME TypeOK, SlotsOK, SequenceOK, pc # "off"
  PROVE  /\ HeaderTarget \in {0, 1}
         /\ Usable # {} => /\ Newest = 1 - HeaderTarget
                           /\ header[1 - HeaderTarget].valid
                           /\ header[1 - HeaderTarget].seq = header_sequence
         /\ Usable = {} => header_sequence = 0 /\ HeaderTarget = 1
<1>1. header_sequence \in Nat /\ header[0] \in HeaderRecord /\ header[1] \in HeaderRecord
  BY DEF TypeOK
<1>2. HeaderTarget \in {0, 1} BY <1>1 DEF HeaderTarget, HeaderBlocks
<1>3. CASE Usable = {}
  <2>1. header_sequence = 0 BY <1>3 DEF SequenceOK
  <2> QED BY <1>3, <2>1 DEF HeaderTarget, HeaderBlocks
<1>4. CASE Usable # {}
  <2>1. header_sequence = header[Newest].seq BY <1>4 DEF SequenceOK
  <2>2. Newest \in {0, 1} /\ header[Newest].valid BY <1>4 DEF Newest, Usable
  <2>3. header_sequence % 2 = Newest BY <2>1, <2>2 DEF SlotsOK
  <2>4. Newest = 1 - HeaderTarget
    BY <1>1, <2>2, <2>3 DEF HeaderTarget, HeaderBlocks
  <2> QED BY <1>2, <1>4, <2>1, <2>2, <2>4
<1> QED BY <1>2, <1>3, <1>4

(* A header write that happens makes its copy the newest, and moves the    *)
(* resume point to next_lba.                                               *)
LEMMA HeaderWritten ==
  ASSUME TypeOK, SlotsOK, SequenceOK, pc # "off", WriteHeader(TRUE)
  PROVE  /\ SlotsOK'
         /\ Usable' # {} /\ header_sequence' = header'[Newest'].seq
         /\ ResumeLba' = next_lba /\ StoredBoots' = boot_count
<1> DEFINE t == HeaderTarget
           o == 1 - HeaderTarget
           new == [valid |-> TRUE, seq |-> header_sequence + 1,
                   next |-> next_lba, boots |-> boot_count]
<1>1. /\ header_sequence \in Nat /\ next_lba \in FirstRecord .. BlockCount
      /\ header \in [{0, 1} -> HeaderRecord]
  BY DEF TypeOK
<1>2. t \in {0, 1} /\ o \in {0, 1} /\ o # t /\ {0, 1} = {t, o} BY TargetIsOlder
<1>3. header' = [header EXCEPT ![t] = new] /\ header_sequence' = header_sequence + 1
  BY DEF WriteHeader
<1>4. header'[t] = new /\ header'[o] = header[o] BY <1>1, <1>2, <1>3
<1>5. /\ header'[t].valid /\ header'[t].seq = header_sequence + 1
      /\ header'[t].next = next_lba /\ header'[t].boots = boot_count
  BY <1>4
<1> HIDE DEF new
<1>6. (header_sequence + 1) % 2 = t BY DEF HeaderTarget, HeaderBlocks
<1>7. SlotsOK'
  <2> SUFFICES ASSUME NEW i \in {0, 1}, header'[i].valid
              PROVE header'[i].seq % 2 = i /\ header'[i].next \in FirstRecord .. BlockCount
    BY DEF SlotsOK
  <2>1. CASE i = t BY <2>1, <1>1, <1>5, <1>6
  <2>2. CASE i = o BY <2>2, <1>2, <1>4 DEF SlotsOK
  <2> QED BY <1>2, <2>1, <2>2
<1>8. t \in Usable' BY <1>2, <1>5 DEF Usable
<1>9. o \in Usable' => header'[o].seq = header_sequence
  <2> SUFFICES ASSUME header[o].valid PROVE header[o].seq = header_sequence
    BY <1>4 DEF Usable
  <2>1. Usable # {} BY <1>2 DEF Usable
  <2> QED BY <2>1, TargetIsOlder
<1>10. Newest' = t
  <2>1. CASE t = 1
    <3>1. 1 \in Usable' /\ (0 \in Usable' => header'[1].seq > header'[0].seq)
      BY <2>1, <1>1, <1>5, <1>8, <1>9
    <3> QED BY <2>1, <3>1 DEF Newest
  <2>2. CASE t = 0
    <3>1. ~ (1 \in Usable' /\ (0 \in Usable' => header'[1].seq > header'[0].seq))
      BY <2>2, <1>1, <1>5, <1>8, <1>9
    <3> QED BY <2>2, <3>1 DEF Newest
  <2> QED BY <1>2, <2>1, <2>2
<1>11. ResumeLba' = next_lba /\ StoredBoots' = boot_count
  BY <1>1, <1>5, <1>8, <1>10 DEF ResumeLba, StoredNext, StoredBoots
<1> QED BY <1>3, <1>5, <1>7, <1>8, <1>10, <1>11

(* A header write cut short by a power loss moves nothing. *)
LEMMA HeaderTorn ==
  ASSUME TypeOK, SlotsOK, SequenceOK, pc # "off",
         header' = [header EXCEPT ![HeaderTarget] = NoHeader]
  PROVE  SlotsOK' /\ ResumeLba' = ResumeLba /\ StoredBoots' = StoredBoots
<1> DEFINE t == HeaderTarget
           o == 1 - HeaderTarget
<1>1. t \in {0, 1} /\ o \in {0, 1} /\ o # t /\ {0, 1} = {t, o} BY TargetIsOlder
<1>2. header'[t] = NoHeader /\ header'[o] = header[o] BY <1>1 DEF TypeOK
<1>3. ~ header'[t].valid BY <1>2 DEF NoHeader
<1>4. SlotsOK'
  <2> SUFFICES ASSUME NEW i \in {0, 1}, header'[i].valid
              PROVE header'[i].seq % 2 = i /\ header'[i].next \in FirstRecord .. BlockCount
    BY DEF SlotsOK
  <2> QED BY <1>1, <1>2, <1>3 DEF SlotsOK
<1>5. CASE Usable = {}
  <2>1. ~ header[0].valid /\ ~ header[1].valid BY <1>5 DEF Usable
  <2>2. Usable' = {} BY <1>1, <1>2, <1>3, <2>1 DEF Usable
  <2> QED BY <1>4, <1>5, <2>2 DEF ResumeLba, StoredBoots
<1>6. CASE Usable # {}
  <2>1. Newest = o /\ header[o].valid BY <1>6, TargetIsOlder
  <2>2. o \in Usable' /\ t \notin Usable' BY <1>1, <1>2, <1>3, <2>1 DEF Usable
  <2>3. Newest' = o BY <1>1, <2>2 DEF Newest
  <2>4. Usable' # {} /\ header'[Newest'] = header[Newest] BY <1>2, <2>1, <2>2, <2>3
  <2> QED BY <1>4, <1>6, <2>4 DEF ResumeLba, StoredNext, StoredBoots
<1> QED BY <1>5, <1>6

(* Where the headers are left alone, so is everything read from them. *)
LEMMA HeaderKept ==
  ASSUME header' = header
  PROVE  /\ Usable' = Usable /\ Newest' = Newest /\ ResumeLba' = ResumeLba
         /\ StoredBoots' = StoredBoots
         /\ SlotsOK => SlotsOK'
BY DEF Usable, Newest, ResumeLba, StoredNext, StoredBoots, SlotsOK

(* Whatever block a power loss tears, it is none that a reader sees. *)
LEMMA PowerLossKeepsRecords ==
  ASSUME RecoverInv, PowerLoss
  PROVE  \A l \in DataLbas : l < ResumeLba => block'[l] = block[l]
<1>1. TypeOK /\ PointerOK BY DEF RecoverInv, TypeInv
<1>2. ResumeLba \in FirstRecord .. BlockCount
  BY Region DEF ResumeLba, StoredNext
<1>3. CASE block' = block BY <1>3
<1>4. CASE pc = "data" /\ block' = [block EXCEPT ![next_lba] = Garbage]
  BY <1>1, <1>2, <1>4, Region DEF PointerOK, TypeOK, DataLbas
<1>5. CASE pc = "idle" /\ scrubbing /\ block' = [block EXCEPT ![scrub_lba - 1] = Garbage]
  <2>1. scrub_lba - 1 >= ResumeLba
    BY <1>1, <1>2, <1>5, Region DEF PointerOK, scrubbing, TypeOK
  <2> QED BY <1>1, <1>2, <1>5, <2>1, Region DEF TypeOK, DataLbas
<1> QED BY <1>3, <1>4, <1>5 DEF PowerLoss, TornBlocks

LEMMA InitRecoverInv == Init => RecoverInv
<1> SUFFICES ASSUME Init PROVE RecoverInv
  OBVIOUS
<1>1. TypeInv BY InitTypeInv
<1>2. SlotsOK BY DEF Init, SlotsOK, NoHeader
<1>3. SequenceOK /\ PointerOK BY DEF Init, SequenceOK, PointerOK
<1>4. AckedRecoverable BY DEF Init, AckedRecoverable
<1> QED BY <1>1, <1>2, <1>3, <1>4 DEF RecoverInv

LEMMA NextRecoverInv ==
  ASSUME ~ WriteFaults, RecoverInv, [Next]_vars
  PROVE  RecoverInv'
<1> USE DEF RecoverInv
<1>0. TypeInv' BY NextTypeInv
<1>a. TypeOK /\ CallOK BY DEF TypeInv
<1>b. ResumeLba \in FirstRecord .. BlockCount
  BY Region DEF ResumeLba, StoredNext
<1>1. CASE Begin
  <2>1. header' = header /\ block' = block /\ acked' = acked /\ pc' = "begin_header"
    BY <1>1 DEF Begin, card
  <2>2. header_sequence' = (IF Usable = {} THEN 0 ELSE header[Newest].seq)
        /\ next_lba' = ResumeLba
    BY <1>1 DEF Begin, ResumeLba
  <2>3. SlotsOK' /\ ResumeLba' = ResumeLba BY <2>1, HeaderKept
  <2>4. SequenceOK' BY <2>1, <2>2, HeaderKept DEF SequenceOK
  <2>5. PointerOK' BY <2>1, <2>2, <2>3 DEF PointerOK
  <2>6. AckedRecoverable' BY <2>1, <2>3 DEF AckedRecoverable
  <2> QED BY <1>0, <2>3, <2>4, <2>5, <2>6
<1>2. ASSUME NEW ok \in BOOLEAN, BeginHeader(ok) PROVE RecoverInv'
  <2>1. WriteHeader(ok) /\ pc = "begin_header" /\ block' = block /\ acked' = acked
        /\ next_lba' = next_lba /\ pc' \in {"data", "idle"}
    BY <1>2 DEF BeginHeader
  <2>2. WriteHeader(TRUE) BY <2>1 DEF WriteHeader
  <2>3. SlotsOK' /\ SequenceOK' /\ ResumeLba' = next_lba
    BY <1>a, <2>1, <2>2, HeaderWritten DEF SequenceOK
  <2>4. ResumeLba' = ResumeLba BY <2>1, <2>3 DEF PointerOK
  <2>5. PointerOK' BY <2>1, <2>3 DEF PointerOK
  <2>6. AckedRecoverable' BY <2>1, <2>4 DEF AckedRecoverable
  <2> QED BY <1>0, <2>3, <2>5, <2>6
<1>3. ASSUME NEW ok \in BOOLEAN, AppendData(ok) PROVE RecoverInv'
  <2>1. pc = "data" /\ header' = header /\ acked' = acked /\ line' = line
        /\ header_sequence' = header_sequence
    BY <1>3 DEF AppendData
  <2>2. ok BY <1>3 DEF AppendData, WriteBlock
  <2>3. block' = [block EXCEPT ![next_lba] = line] /\ next_lba' = next_lba + 1
        /\ pc' = "append_header"
    BY <1>3, <2>2 DEF AppendData, WriteBlock
  <2>4. next_lba = ResumeLba /\ next_lba \in DataLbas
    BY <1>a, <1>b, <2>1, Region DEF PointerOK, CallOK, DataLbas
  <2>5. SlotsOK' /\ ResumeLba' = ResumeLba BY <2>1, HeaderKept
  <2>6. SequenceOK' BY <2>1, HeaderKept DEF SequenceOK
  <2>7. block' [next_lba' - 1] = line' /\ next_lba' = ResumeLba' + 1
    BY <1>a, <2>1, <2>3, <2>4, <2>5, Region DEF TypeOK
  <2>8. PointerOK' BY <2>3, <2>7 DEF PointerOK
  <2>9. AckedRecoverable'
    BY <1>a, <1>b, <2>1, <2>3, <2>4, <2>5, Region DEF AckedRecoverable, TypeOK, DataLbas
  <2> QED BY <1>0, <2>5, <2>6, <2>8, <2>9
<1>4. ASSUME NEW ok \in BOOLEAN, AppendHeader(ok) PROVE RecoverInv'
  <2>1. WriteHeader(ok) /\ pc = "append_header" /\ block' = block /\ next_lba' = next_lba
        /\ pc' = "idle" /\ acked' = IF ok THEN [acked EXCEPT ![next_lba - 1] = line] ELSE acked
    BY <1>4 DEF AppendHeader
  <2>2. WriteHeader(TRUE) BY <2>1 DEF WriteHeader
  <2>3. SlotsOK' /\ SequenceOK' /\ ResumeLba' = next_lba
    BY <1>a, <2>1, <2>2, HeaderWritten DEF SequenceOK
  <2>4. next_lba = ResumeLba + 1 /\ block[next_lba - 1] = line BY <2>1 DEF PointerOK
  <2>5. PointerOK' BY <2>1, <2>3 DEF PointerOK
  <2>6. \A l \in DataLbas : l # next_lba - 1 => acked'[l] = acked[l]
    BY <1>a, <2>1 DEF TypeOK
  <2>7. AckedRecoverable'
    <3> SUFFICES ASSUME NEW l \in DataLbas, acked'[l] # Blank
                PROVE l < next_lba /\ block[l] = acked'[l]
      BY <2>1, <2>3 DEF AckedRecoverable
    <3>1. CASE l = next_lba - 1
      <4>1. l < next_lba BY <1>a, <3>1, Region DEF TypeOK
      <4>2. CASE ok BY <1>a, <2>1, <2>4, <3>1, <4>1, <4>2 DEF TypeOK
      <4>3. CASE ~ ok
        BY <1>b, <2>1, <2>4, <3>1, <4>3, Region DEF AckedRecoverable
      <4> QED BY <4>2, <4>3
    <3>2. CASE l # next_lba - 1
      <4>1. acked[l] # Blank /\ acked'[l] = acked[l] BY <2>6, <3>2
      <4>2. l < ResumeLba /\ block[l] = acked[l] BY <4>1 DEF AckedRecoverable
      <4>3. l \in Nat BY Region DEF DataLbas
      <4> QED BY <1>b, <2>4, <4>1, <4>2, <4>3, Region
    <3> QED BY <3>1, <3>2
  <2> QED BY <1>0, <2>3, <2>5, <2>7
<1>5. ASSUME NEW ok \in BOOLEAN, ResetHeader(ok) PROVE RecoverInv'
  <2>1. WriteHeader(ok) /\ pc = "reset_header" /\ block' = block /\ next_lba' = next_lba
        /\ pc' \in {"data", "idle"}
        /\ acked' = IF header' = header THEN acked ELSE [l \in DataLbas |-> Blank]
    BY <1>5 DEF ResetHeader
  <2>2. WriteHeader(TRUE) BY <2>1 DEF WriteHeader
  <2>3. SlotsOK' /\ SequenceOK' /\ ResumeLba' = next_lba
        /\ header_sequence' = header'[Newest'].seq /\ Usable' # {}
    BY <1>a, <2>1, <2>2, HeaderWritten DEF SequenceOK
  <2>4. header' # header
    <3>1. header_sequence' = header_sequence + 1 BY <2>2 DEF WriteHeader
    <3>2. header' = header => header_sequence = header_sequence'
      BY <2>1, <2>3, HeaderKept DEF SequenceOK
    <3> QED BY <1>a, <3>1, <3>2 DEF TypeOK
  <2>5. PointerOK' BY <2>1, <2>3 DEF PointerOK
  <2>6. AckedRecoverable' BY <2>1, <2>4 DEF AckedRecoverable
  <2> QED BY <1>0, <2>3, <2>5, <2>6
<1>6. ASSUME NEW ok \in BOOLEAN, ScrubBlock(ok) PROVE RecoverInv'
  <2>1. pc = "idle" /\ scrubbing /\ header' = header /\ next_lba' = next_lba /\ pc' = pc
        /\ acked' = acked /\ line' = line /\ header_sequence' = header_sequence
    BY <1>6 DEF ScrubBlock
  <2>2. block' = [block EXCEPT ![scrub_lba - 1] = Blank] BY <1>6 DEF ScrubBlock, WriteBlock
  <2>3. scrub_lba - 1 >= ResumeLba
    BY <1>a, <1>b, <2>1, Region DEF PointerOK, scrubbing, TypeOK
  <2>4. SlotsOK' /\ ResumeLba' = ResumeLba BY <2>1, HeaderKept
  <2>5. SequenceOK' BY <2>1, HeaderKept DEF SequenceOK
  <2>6. PointerOK' BY <2>1, <2>4 DEF PointerOK
  <2>7. AckedRecoverable'
    BY <1>a, <1>b, <2>1, <2>2, <2>3, <2>4, Region DEF AckedRecoverable, TypeOK, DataLbas
  <2> QED BY <1>0, <2>4, <2>5, <2>6, <2>7
<1>7. ASSUME NEW r \in Records, AppendLine(r) PROVE RecoverInv'
  <2>1. pc = "idle" /\ pc' \in {"idle", "data"} /\ header' = header /\ block' = block
        /\ next_lba' = next_lba /\ acked' = acked /\ header_sequence' = header_sequence
    BY <1>7 DEF AppendLine, card
  <2>2. SlotsOK' /\ ResumeLba' = ResumeLba BY <2>1, HeaderKept
  <2>3. SequenceOK' BY <2>1, HeaderKept DEF SequenceOK
  <2>4. PointerOK' BY <2>1, <2>2 DEF PointerOK
  <2>5. AckedRecoverable' BY <2>1, <2>2 DEF AckedRecoverable
  <2> QED BY <1>0, <2>2, <2>3, <2>4, <2>5
<1>8. CASE Erase
  <2>1. pc = "idle" /\ pc' = "reset_header" /\ header' = header /\ block' = block
        /\ acked' = acked /\ header_sequence' = header_sequence
    BY <1>8 DEF Erase, card
  <2>2. SlotsOK' /\ ResumeLba' = ResumeLba BY <2>1, HeaderKept
  <2>3. SequenceOK' BY <2>1, HeaderKept DEF SequenceOK
  <2>4. PointerOK' BY <2>1 DEF PointerOK
  <2>5. AckedRecoverable' BY <2>1, <2>2 DEF AckedRecoverable
  <2> QED BY <1>0, <2>2, <2>3, <2>4, <2>5
<1>9. CASE PowerLoss
  <2>1. pc # "off" /\ pc' = "off" /\ acked' = acked BY <1>9 DEF PowerLoss
  <2>2. SlotsOK' /\ ResumeLba' = ResumeLba
    <3>1. CASE header' = header BY <3>1, HeaderKept
    <3>2. CASE header' = [header EXCEPT ![HeaderTarget] = NoHeader]
      BY <1>a, <2>1, <3>2, HeaderTorn
    <3> QED BY <1>9, <3>1, <3>2 DEF PowerLoss, TornHeaders
  <2>3. \A l \in DataLbas : l < ResumeLba => block'[l] = block[l]
    BY <1>9, PowerLossKeepsRecords
  <2>4. SequenceOK' /\ PointerOK' BY <2>1 DEF SequenceOK, PointerOK
  <2>5. AckedRecoverable' BY <2>1, <2>2, <2>3 DEF AckedRecoverable
  <2> QED BY <1>0, <2>2, <2>4, <2>5
<1>10. CASE UNCHANGED vars
  <2>1. header' = header /\ block' = block /\ next_lba' = next_lba /\ acked' = acked
        /\ header_sequence' = header_sequence /\ pc' = pc /\ line' = line
    BY <1>10 DEF vars, card, ram
  <2>2. SlotsOK' /\ ResumeLba' = ResumeLba BY <2>1, HeaderKept
  <2>3. SequenceOK' BY <2>1, HeaderKept DEF SequenceOK
  <2> QED BY <1>0, <2>1, <2>2, <2>3 DEF PointerOK, AckedRecoverable
<1> QED BY <1>1, <1>2, <1>3, <1>4, <1>5, <1>6, <1>7, <1>8, <1>9, <1>10 DEF Next, Write

(* With a card whose writes happen or are cut short by the power failing,  *)
(* every record append_line() reported as logged survives any number of    *)
(* power losses, erases and scrubs that do not concern it.                 *)
THEOREM Recoverable == ASSUME ~ WriteFaults PROVE Spec => []AckedRecoverable
<1>1. RecoverInv /\ [Next]_vars => RecoverInv' BY NextRecoverInv
<1>2. RecoverInv => AckedRecoverable BY DEF RecoverInv
<1> QED BY <1>1, <1>2, InitRecoverInv, PTL DEF Spec

(* A scrub overwrites, and a power loss tears under it, only blocks that   *)
(* a reader of the card no longer reaches (scrub_step).                    *)
THEOREM ScrubsUnreachable == ASSUME ~ WriteFaults PROVE Spec => ScrubOnlyUnreachable
<1>1. RecoverInv /\ [Next]_vars => RecoverInv' BY NextRecoverInv
<1>2. RecoverInv /\ [Next]_vars =>
        [\A l \in DataLbas : pc = "idle" /\ block'[l] # block[l] => l >= ResumeLba]_vars
  <2> SUFFICES ASSUME RecoverInv, Next, NEW l \in DataLbas, pc = "idle",
                      block'[l] # block[l]
               PROVE  l >= ResumeLba
    OBVIOUS
  <2>1. TypeOK /\ next_lba = ResumeLba BY DEF RecoverInv, TypeInv, PointerOK
  <2>2. \/ \E ok \in BOOLEAN : ScrubBlock(ok)
        \/ PowerLoss
    BY DEF Next, Write, Begin, BeginHeader, AppendData, AppendHeader, ResetHeader,
           AppendLine, Erase, card
  <2>3. scrubbing /\ \E content : block' = [block EXCEPT ![scrub_lba - 1] = content]
    <3>1. CASE \E ok \in BOOLEAN : ScrubBlock(ok)
      BY <3>1 DEF ScrubBlock, WriteBlock
    <3>2. CASE PowerLoss
      BY <3>2 DEF PowerLoss, TornBlocks
    <3> QED BY <2>2, <3>1, <3>2
  <2>4. l = scrub_lba - 1 BY <2>1, <2>3 DEF TypeOK
  <2> QED BY <2>1, <2>3, <2>4, Region DEF scrubbing, TypeOK
<1> QED BY <1>1, <1>2, InitRecoverInv, PTL DEF Spec, ScrubOnlyUnreachable

-----------------------------------------------------------------------------
(* The log a reader sees implements DurableLog.  Beyond RecoverInv this    *)
(* needs the boot count in RAM to be the one on the card.                  *)

BootsOK ==
  /\ pc = "begin_header" => boot_count = StoredBoots + 1
  /\ pc \notin {"off", "begin_header"} => boot_count = StoredBoots

ReaderInv == RecoverInv /\ BootsOK

(* The records before lba n of a card with blocks b. *)
Before(b, n) == [i \in 1 .. n - FirstRecord |-> b[FirstRecord + i - 1]]

LEMMA BeforeIsLog ==
  ASSUME NEW b \in [DataLbas -> Contents], NEW n \in FirstRecord .. BlockCount
  PROVE  /\ Before(b, n) \in Seq(Contents)
         /\ Len(Before(b, n)) = n - FirstRecord
         /\ \A i \in 1 .. n - FirstRecord : Before(b, n)[i] = b[FirstRecord + i - 1]
<1>1. n - FirstRecord \in Nat BY Region
<1>2. \A i \in 1 .. n - FirstRecord : FirstRecord + i - 1 \in DataLbas
  BY Region DEF DataLbas
<1> QED BY <1>1, <1>2 DEF Before

LEMMA BeforeSame ==
  ASSUME NEW b \in [DataLbas -> Contents], NEW c \in [DataLbas -> Contents],
         NEW n \in FirstRecord .. BlockCount,
         \A l \in DataLbas : l < n => b[l] = c[l]
  PROVE  Before(b, n) = Before(c, n)
<1>1. \A i \in 1 .. n - FirstRecord :
        FirstRecord + i - 1 \in DataLbas /\ FirstRecord + i - 1 < n
  BY Region DEF DataLbas
<1> QED BY <1>1 DEF Before

LEMMA BeforeNext ==
  ASSUME NEW b \in [DataLbas -> Contents], NEW n \in DataLbas
  PROVE  Before(b, n + 1) = Append(Before(b, n), b[n])
<1> DEFINE m == n + 1
           old == Before(b, n)
           new == Before(b, m)
<1>1. n \in FirstRecord .. BlockCount /\ m \in FirstRecord .. BlockCount
      /\ FirstRecord \in Nat /\ b[n] \in Contents
  BY Region DEF DataLbas
<1>2. /\ old \in Seq(Contents) /\ Len(old) = n - FirstRecord
      /\ \A i \in 1 .. n - FirstRecord : old[i] = b[FirstRecord + i - 1]
  BY <1>1, BeforeIsLog
<1>3. m = n + 1
  OBVIOUS
<1> HIDE DEF m
<1>4. /\ new \in Seq(Contents) /\ Len(new) = m - FirstRecord
      /\ \A i \in 1 .. m - FirstRecord : new[i] = b[FirstRecord + i - 1]
  BY <1>1, BeforeIsLog
<1> HIDE DEF old, new
<1>5. /\ Append(old, b[n]) \in Seq(Contents)
      /\ Len(Append(old, b[n])) = Len(old) + 1
      /\ \A i \in 1 .. Len(old) : Append(old, b[n])[i] = old[i]
      /\ Append(old, b[n])[Len(old) + 1] = b[n]
  BY <1>1, <1>2, AppendProperties
<1>6. Len(new) = Len(old) + 1
  BY <1>1, <1>2, <1>3, <1>4
<1>7. ASSUME NEW i \in 1 .. Len(new) PROVE Append(old, b[n])[i] = new[i]
  <2>1. new[i] = b[FirstRecord + i - 1]
    BY <1>4
  <2>2. CASE i = Len(old) + 1
    <3>1. FirstRecord + i - 1 = n
      BY <1>1, <1>2, <2>2
    <3> QED
      BY <1>5, <2>1, <2>2, <3>1
  <2>3. CASE i # Len(old) + 1
    <3>1. i \in 1 .. Len(old) /\ i \in 1 .. n - FirstRecord
      BY <1>1, <1>2, <1>6, <2>3
    <3> QED
      BY <1>2, <1>5, <2>1, <3>1
  <2> QED
    BY <2>2, <2>3
<1>8. new = Append(old, b[n])
  BY <1>4, <1>5, <1>6, <1>7, SeqEqual
<1> QED BY <1>3, <1>8 DEF old, new

LEMMA InitReaderInv == Init => ReaderInv /\ Reader!Init
<1> SUFFICES ASSUME Init PROVE ReaderInv /\ Reader!Init
  OBVIOUS
<1>1. RecoverInv BY InitRecoverInv
<1>2. BootsOK BY DEF Init, BootsOK
<1>3. ~ header[0].valid /\ ~ header[1].valid BY DEF Init, NoHeader
<1>4. Usable = {} BY <1>3 DEF Usable
<1>5. ResumeLba = FirstRecord /\ StoredBoots = 0 BY <1>4 DEF ResumeLba, StoredBoots
<1>6. Before(block, FirstRecord) = <<>>
  <2>1. 1 .. FirstRecord - FirstRecord = {} BY Region
  <2> QED BY <2>1 DEF Before
<1>7. Reader!Init BY <1>5, <1>6 DEF Reader!Init, Before
<1> QED BY <1>1, <1>2, <1>7 DEF ReaderInv

(* What a reader sees of a step, in the terms of the card. *)
LogSeen == Before(block, ResumeLba)

Unseen == UNCHANGED <<LogSeen, StoredBoots>>
BootSeen == LogSeen' = LogSeen /\ StoredBoots' = StoredBoots + 1
EraseSeen == LogSeen' = <<>> /\ StoredBoots' = StoredBoots
RecordSeen ==
  /\ Len(LogSeen) < BlockCount - FirstRecord
  /\ \E r \in Lines : LogSeen' = Append(LogSeen, r)
  /\ StoredBoots' = StoredBoots

LEMMA SeenIsAllowed ==
  ASSUME Unseen \/ BootSeen \/ EraseSeen \/ RecordSeen
  PROVE  [Reader!Next]_(Reader!vars)
BY DEF Unseen, BootSeen, EraseSeen, RecordSeen, LogSeen, Before, Reader!Next,
       Reader!vars, Reader!Boot, Reader!Erase, Reader!AppendRecord

(* A step that leaves the headers and the records before them alone shows  *)
(* nothing.                                                                *)
LEMMA CardKept ==
  ASSUME TypeOK, TypeOK', ResumeLba' = ResumeLba, StoredBoots' = StoredBoots,
         \A l \in DataLbas : l < ResumeLba => block'[l] = block[l]
  PROVE  Unseen
<1>1. ResumeLba \in FirstRecord .. BlockCount
  BY Region DEF ResumeLba, StoredNext
<1>2. block \in [DataLbas -> Contents] /\ block' \in [DataLbas -> Contents]
  BY DEF TypeOK
<1>3. Before(block', ResumeLba) = Before(block, ResumeLba)
  BY <1>1, <1>2, BeforeSame
<1> QED BY <1>3 DEF Unseen, LogSeen, Before

LEMMA NextReader ==
  ASSUME ~ WriteFaults, ReaderInv, [Next]_vars
  PROVE  BootsOK' /\ (Unseen \/ BootSeen \/ EraseSeen \/ RecordSeen)
<1>a. RecoverInv /\ RecoverInv' /\ BootsOK
  BY NextRecoverInv DEF ReaderInv
<1>b. TypeOK /\ TypeOK' /\ CallOK /\ SlotsOK /\ SequenceOK /\ PointerOK
  BY <1>a DEF RecoverInv, TypeInv
<1>c. ResumeLba \in FirstRecord .. BlockCount
  BY Region DEF ResumeLba, StoredNext
<1>d. block \in [DataLbas -> Contents] /\ DataLbas = FirstRecord .. BlockCount - 1
  BY <1>b DEF TypeOK, DataLbas
<1>1. CASE Begin
  <2>1. header' = header /\ block' = block /\ pc' = "begin_header"
        /\ boot_count' = StoredBoots + 1
    BY <1>1 DEF Begin, card, StoredBoots
  <2>2. ResumeLba' = ResumeLba /\ StoredBoots' = StoredBoots BY <2>1, HeaderKept
  <2>3. BootsOK' BY <2>1, <2>2 DEF BootsOK
  <2> QED BY <1>b, <2>1, <2>2, <2>3, CardKept
<1>2. ASSUME NEW ok \in BOOLEAN, BeginHeader(ok)
      PROVE  BootsOK' /\ BootSeen
  <2>1. /\ WriteHeader(TRUE) /\ pc = "begin_header" /\ block' = block
        /\ boot_count' = boot_count /\ pc' \in {"data", "idle"}
    BY <1>2 DEF BeginHeader, WriteHeader
  <2>2. ResumeLba' = next_lba /\ StoredBoots' = boot_count
    BY <1>b, <2>1, HeaderWritten
  <2>3. next_lba = ResumeLba /\ boot_count = StoredBoots + 1
    BY <1>a, <1>b, <2>1 DEF PointerOK, BootsOK
  <2> QED BY <2>1, <2>2, <2>3 DEF BootsOK, BootSeen, LogSeen, Before
<1>3. ASSUME NEW ok \in BOOLEAN, AppendData(ok) PROVE BootsOK' /\ Unseen
  <2>1. /\ pc = "data" /\ header' = header /\ boot_count' = boot_count
        /\ pc' = "append_header" /\ block' = [block EXCEPT ![next_lba] = line]
    BY <1>3 DEF AppendData, WriteBlock
  <2>2. ResumeLba' = ResumeLba /\ StoredBoots' = StoredBoots BY <2>1, HeaderKept
  <2>3. next_lba = ResumeLba BY <1>b, <2>1 DEF PointerOK
  <2>4. \A l \in DataLbas : l < ResumeLba => block'[l] = block[l]
    BY <1>c, <1>d, <2>1, <2>3, Region
  <2> QED BY <1>a, <1>b, <2>1, <2>2, <2>4, CardKept DEF BootsOK
<1>4. ASSUME NEW ok \in BOOLEAN, AppendHeader(ok) PROVE BootsOK' /\ RecordSeen
  <2>1. /\ WriteHeader(TRUE) /\ pc = "append_header" /\ pc' = "idle"
        /\ block' = block /\ boot_count' = boot_count
    BY <1>4 DEF AppendHeader, WriteHeader
  <2>2. ResumeLba' = next_lba /\ StoredBoots' = boot_count
    BY <1>b, <2>1, HeaderWritten
  <2>3. /\ next_lba = ResumeLba + 1 /\ block[next_lba - 1] = line /\ line \in Lines
        /\ boot_count = StoredBoots /\ next_lba \in FirstRecord .. BlockCount
    BY <1>a, <1>b, <2>1 DEF PointerOK, CallOK, BootsOK, TypeOK
  <2>4. ResumeLba \in DataLbas /\ block[ResumeLba] = line
        /\ ResumeLba - FirstRecord < BlockCount - FirstRecord
    BY <1>c, <1>d, <2>3, Region
  <2>5. Before(block, ResumeLba + 1) = Append(Before(block, ResumeLba), line)
    BY <1>d, <2>4, BeforeNext
  <2>6. Len(Before(block, ResumeLba)) = ResumeLba - FirstRecord
    BY <1>c, <1>d, BeforeIsLog
  <2>7. LogSeen' = Before(block, ResumeLba + 1)
    BY <2>1, <2>2, <2>3 DEF LogSeen, Before
  <2> QED BY <2>1, <2>2, <2>3, <2>4, <2>5, <2>6, <2>7 DEF BootsOK, RecordSeen, LogSeen
<1>5. ASSUME NEW ok \in BOOLEAN, ResetHeader(ok) PROVE BootsOK' /\ EraseSeen
  <2>1. /\ WriteHeader(TRUE) /\ pc = "reset_header" /\ pc' \in {"data", "idle"}
        /\ boot_count' = boot_count
    BY <1>5 DEF ResetHeader, WriteHeader
  <2>2. ResumeLba' = next_lba /\ StoredBoots' = boot_count
    BY <1>b, <2>1, HeaderWritten
  <2>3. next_lba = FirstRecord /\ boot_count = StoredBoots
    BY <1>a, <1>b, <2>1 DEF CallOK, BootsOK
  <2>4. 1 .. FirstRecord - FirstRecord = {} BY Region
  <2>5. LogSeen' = <<>> BY <2>2, <2>3, <2>4 DEF LogSeen, Before
  <2> QED BY <2>1, <2>2, <2>3, <2>5 DEF BootsOK, EraseSeen
<1>6. ASSUME NEW ok \in BOOLEAN, ScrubBlock(ok) PROVE BootsOK' /\ Unseen
  <2>1. /\ pc = "idle" /\ scrubbing /\ header' = header /\ boot_count' = boot_count
        /\ pc' = pc /\ block' = [block EXCEPT ![scrub_lba - 1] = Blank]
    BY <1>6 DEF ScrubBlock, WriteBlock
  <2>2. ResumeLba' = ResumeLba /\ StoredBoots' = StoredBoots BY <2>1, HeaderKept
  <2>3. next_lba = ResumeLba /\ scrub_lba - 1 >= ResumeLba
    BY <1>b, <1>c, <2>1, Region DEF PointerOK, scrubbing, TypeOK
  <2>4. \A l \in DataLbas : l < ResumeLba => block'[l] = block[l]
    BY <1>b, <1>c, <1>d, <2>1, <2>3, Region DEF TypeOK
  <2> QED BY <1>a, <1>b, <2>1, <2>2, <2>4, CardKept DEF BootsOK
<1>7. ASSUME NEW r \in Records, AppendLine(r) PROVE BootsOK' /\ Unseen
  <2>1. /\ pc = "idle" /\ pc' \in {"idle", "data"} /\ header' = header /\ block' = block
        /\ boot_count' = boot_count
    BY <1>7 DEF AppendLine, card
  <2>2. ResumeLba' = ResumeLba /\ StoredBoots' = StoredBoots BY <2>1, HeaderKept
  <2> QED BY <1>a, <1>b, <2>1, <2>2, CardKept DEF BootsOK
<1>8. CASE Erase
  <2>1. /\ pc = "idle" /\ pc' = "reset_header" /\ header' = header /\ block' = block
        /\ boot_count' = boot_count
    BY <1>8 DEF Erase, card
  <2>2. ResumeLba' = ResumeLba /\ StoredBoots' = StoredBoots BY <2>1, HeaderKept
  <2> QED BY <1>a, <1>b, <2>1, <2>2, CardKept DEF BootsOK
<1>9. CASE PowerLoss
  <2>1. pc # "off" /\ pc' = "off" BY <1>9 DEF PowerLoss
  <2>2. ResumeLba' = ResumeLba /\ StoredBoots' = StoredBoots
    <3>1. CASE header' = header BY <3>1, HeaderKept
    <3>2. CASE header' = [header EXCEPT ![HeaderTarget] = NoHeader]
      BY <1>b, <2>1, <3>2, HeaderTorn
    <3> QED BY <1>9, <3>1, <3>2 DEF PowerLoss, TornHeaders
  <2>3. \A l \in DataLbas : l < ResumeLba => block'[l] = block[l]
    BY <1>9, <1>a, <1>b, PowerLossKeepsRecords
  <2> QED BY <1>b, <2>1, <2>2, <2>3, CardKept DEF BootsOK
<1>10. CASE UNCHANGED vars
  <2>1. header' = header /\ block' = block /\ boot_count' = boot_count /\ pc' = pc
    BY <1>10 DEF vars, card, ram
  <2>2. ResumeLba' = ResumeLba /\ StoredBoots' = StoredBoots BY <2>1, HeaderKept
  <2> QED BY <1>a, <1>b, <2>1, <2>2, CardKept DEF BootsOK
<1> QED BY <1>1, <1>2, <1>3, <1>4, <1>5, <1>6, <1>7, <1>8, <1>9, <1>10 DEF Next, Write

(* Whatever the vehicle does and whenever its power fails, a reader of the *)
(* card sees a log that grows by one record, is emptied by an erase, or    *)
(* counts one more boot, and nothing else: begin(), append_line(), reset() *)
(* and scrub_step() over the two header copies implement DurableLog.       *)
THEOREM ImplementsDurableLog == ASSUME ~ WriteFaults PROVE Spec => ReaderSpec
<1>1. ReaderInv /\ [Next]_vars => ReaderInv' /\ [Reader!Next]_(Reader!vars)
  <2> SUFFICES ASSUME ReaderInv, [Next]_vars
               PROVE  ReaderInv' /\ [Reader!Next]_(Reader!vars)
    OBVIOUS
  <2>1. RecoverInv' BY NextRecoverInv DEF ReaderInv
  <2>2. BootsOK' /\ (Unseen \/ BootSeen \/ EraseSeen \/ RecordSeen) BY NextReader
  <2> QED BY <2>1, <2>2, SeenIsAllowed DEF ReaderInv
<1>2. Init => ReaderInv /\ Reader!Init BY InitReaderInv
<1> QED BY <1>1, <1>2, PTL DEF Spec, ReaderSpec, Reader!Spec

=============================================================================
