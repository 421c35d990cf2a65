------------------------------- MODULE SdCard -------------------------------
(***************************************************************************)
(* The medium of the onboard log: the card driver in SPI mode              *)
(* (sd_card.cpp) and the logger's way from a block of the log to a sector  *)
(* (sd_logger.cpp) through the layout of module FatVolume.  Module         *)
(* RawBlockLog takes of it that a block whose write is acknowledged is     *)
(* kept, and that a block whose write fails is old, new or torn.           *)
(*                                                                         *)
(* The card is the environment: it may fail at every stage of a command,   *)
(* and power fails between two operations.  One action is one call of the  *)
(* driver; every path of it ends in release().                             *)
(*                                                                         *)
(* Abstracted: the bytes on the bus, the busy polling and the clock rates, *)
(* told by the stage at which a command stops; the content of a block of   *)
(* the log, told by the block it was written for.                          *)
(***************************************************************************)
EXTENDS FatVolume, FiniteSets

CONSTANTS
  Volumes,      (* the cards as prepared, by name: the sectors and, for    *)
                (* reference, the clusters of the log file and its sectors *)
  BlockSize,    (* bytes of a sector, by which a standard card addresses   *)
  MaxWrites     (* bound on the writes since the card was prepared         *)

(* The sectors that locate() reads. *)
Consulted(Sector) ==
  LET start == VolumeStart(Sector)
      b == Sector[start]
      at == DirectorySectors(b, Sector[b.fat_lba].next)
  IN {0} \cup (IF start < 0 THEN {} ELSE {start})
         \cup (IF start < 0 \/ b.kind # "bpb" THEN {}
               ELSE {b.fat_lba} \cup {at[i] : i \in DOMAIN at})

(* A sector that was never written: zeros. *)
Blank == [kind |-> "blank", entries |-> <<[kind |-> "end"]>>,
          next |-> [cluster \in 0 .. EndOfChain |-> 0]]

(* The card as a driver sees it that multiplies the addresses of a card    *)
(* that takes blocks.                                                      *)
Misread(v) ==
  [lba \in DOMAIN v.sectors |->
     IF lba * BlockSize \in DOMAIN v.sectors THEN v.sectors[lba * BlockSize] ELSE Blank]

InFile(v, lba) == \E i \in DOMAIN v.file : v.file[i] = lba

(* The file that its directory names: its FAT links its clusters, in which *)
(* its sectors follow one another, and its size tells their number.        *)
HoldsFile(v) ==
  LET b == v.sectors[VolumeStart(v.sectors)]
      fat == v.sectors[b.fat_lba].next
      spc == b.sectors_per_cluster
      entries == Directory(v.sectors, b, fat)
      entry == entries[Decisive(entries)]
      n == Len(v.clusters)
  IN /\ spc \in Nat \ {0} /\ b.data_lba \in Nat
     /\ v.clusters \in Seq(Nat) /\ n > 0 /\ Len(v.file) = n * spc
     /\ \A c \in 1 .. n, k \in 0 .. spc - 1 :
          v.file[(c - 1) * spc + k + 1] = ClusterLba(b, v.clusters[c]) + k
     /\ \A c \in 1 .. n :
          /\ v.clusters[c] # EndOfChain
          /\ fat[v.clusters[c]] = IF c = n THEN EndOfChain ELSE v.clusters[c + 1]
     /\ entry.first_cluster = v.clusters[1]
     /\ entry.file_blocks \in Nat /\ n <= (entry.file_blocks \div spc) + 3

(* A card as prepare_sd_card.py leaves it.  What locate() reads is not in  *)
(* the file, and what it reads at multiplied addresses is no volume.       *)
IsPrepared(v) ==
  /\ DOMAIN v.sectors \subseteq Nat
  /\ v.file \in Seq(DOMAIN v.sectors)
  /\ \A i, j \in DOMAIN v.file : v.file[i] = v.file[j] => i = j
  /\ \A lba \in Consulted(v.sectors) : lba \in DOMAIN v.sectors /\ ~InFile(v, lba)
  /\ Locate(v.sectors) # Refused => HoldsFile(v)
  /\ \A lba \in Consulted(Misread(v)) :
       lba \in DOMAIN v.sectors /\ ~InFile(v, lba * BlockSize)
  /\ Locate(Misread(v)) = Refused

SdCardAssumption ==
  /\ BlockSize \in Nat \ {0, 1} /\ MaxWrites \in Nat
  /\ \A n \in DOMAIN Volumes : IsPrepared(Volumes[n])

VARIABLES
  name,         (* of the volume on the card                               *)
  card,         (* the card: high, does it address by blocks; v2, does it  *)
                (* know CMD8                                               *)
  media,        (* the sectors now: as prepared, or what was written last  *)
  stage,        (* stage_, of the last initialisation                      *)
  sdhc,         (* sdhc_                                                   *)
  layout,       (* layout_, once located: the logger is then healthy       *)
  kept,         (* history: blocks of the log whose last write the driver  *)
                (* acknowledged                                            *)
  writes

vars == <<name, card, media, stage, sdhc, layout, kept, writes>>

WriteStages == {"busy_before", "cmd24_rejected", "data_rejected",
                "programming_timeout", "status_error", "complete"}

Prepared == [kind |-> "prepared"]
Torn == [kind |-> "torn"]
LogBlock(block) == [kind |-> "log", block |-> block]

volume == Volumes[name]

-----------------------------------------------------------------------------
(* begin_with(): where it stops.  A card that does not hear HCS, because   *)
(* its answer to CMD8 was lost, never leaves idle if it needs it.          *)

HighCapacity(v2, ocr_answered) == v2 /\ ocr_answered /\ card.high

Begin(cmd0, cmd8, acmd41, ocr_answered, cmd16) ==
  LET v2 == card.v2 /\ cmd8
      high == HighCapacity(v2, ocr_answered)
  IN /\ acmd41 => cmd0 /\ (card.high => v2)
     /\ stage' = CASE ~cmd0 -> "cmd0_idle"
                   [] ~acmd41 -> "acmd41_ready"
                   [] ~high /\ ~cmd16 -> "cmd16_blocklen"
                   [] OTHER -> "complete"
     /\ sdhc' = (cmd0 /\ acmd41 /\ high)

(* The sector that the card takes an address of the driver for. *)
Address(by_blocks, lba) == IF by_blocks THEN lba ELSE lba * BlockSize

SectorOf(by_blocks, lba) ==
  IF card.high THEN Address(by_blocks, lba) ELSE Address(by_blocks, lba) \div BlockSize

(* What read_block() gives through these addresses. *)
Seen(by_blocks) ==
  [lba \in DOMAIN media |->
     IF SectorOf(by_blocks, lba) \in DOMAIN media
     THEN IF media[SectorOf(by_blocks, lba)] = Prepared
          THEN volume.sectors[SectorOf(by_blocks, lba)]
          ELSE media[SectorOf(by_blocks, lba)]
     ELSE Blank]

-----------------------------------------------------------------------------
Init ==
  /\ name \in DOMAIN Volumes
  /\ card \in [high : BOOLEAN, v2 : BOOLEAN] /\ (card.high => card.v2)
  /\ media = [lba \in DOMAIN volume.sectors |-> Prepared]
  /\ stage = "not_started" /\ sdhc = FALSE
  /\ layout = Refused /\ kept = {} /\ writes = 0

(* PicoSdLogger::initialize() at boot: nothing is written unless the file  *)
(* is found; a read that fails is a volume that is not found.              *)
Initialize(cmd0, cmd8, acmd41, ocr_answered, cmd16) ==
  /\ stage = "not_started"
  /\ Begin(cmd0, cmd8, acmd41, ocr_answered, cmd16)
  /\ layout' \in {Refused} \cup
                 (IF stage' = "complete" THEN {Locate(Seen(sdhc'))} ELSE {})
  /\ UNCHANGED <<name, card, media, kept, writes>>

(* A power cycle: the next boot initialises again. *)
Restart ==
  /\ stage # "not_started"
  /\ stage' = "not_started" /\ sdhc' = FALSE /\ layout' = Refused
  /\ UNCHANGED <<name, card, media, kept, writes>>

(* What a write that stops at a stage leaves in the sector. *)
Leaves(reached, old, new) ==
  CASE reached \in {"busy_before", "cmd24_rejected", "data_rejected"} -> {old}
    [] reached \in {"programming_timeout", "status_error"} -> {old, new, Torn}
    [] reached = "complete" -> {new}

Acknowledges(reached) == reached = "complete"

(* sd_write_block() of the log: past the end of the file nothing happens. *)
WriteBlock(block, reached) ==
  /\ layout # Refused /\ writes < MaxWrites
  /\ writes' = writes + 1
  /\ LET lba == ToLba(layout, block)
         sector == SectorOf(sdhc, lba)
     IN IF lba < 0 THEN UNCHANGED <<media, kept>>
        ELSE /\ \E left \in Leaves(reached, media[sector], LogBlock(block)) :
                  media' = [media EXCEPT ![sector] = left]
             /\ kept' = IF Acknowledges(reached) THEN kept \cup {block}
                        ELSE kept \ {block}
  /\ UNCHANGED <<name, card, stage, sdhc, layout>>

Next ==
  \/ \E cmd0, cmd8, acmd41, ocr_answered, cmd16 \in BOOLEAN :
       Initialize(cmd0, cmd8, acmd41, ocr_answered, cmd16)
  \/ Restart
  \/ \E block \in 0 .. Len(volume.file), reached \in WriteStages :
       WriteBlock(block, reached)

Spec == Init /\ [][Next]_vars

-----------------------------------------------------------------------------
(* Properties. *)

TypeOK ==
  /\ name \in DOMAIN Volumes
  /\ card \in [high : BOOLEAN, v2 : BOOLEAN]
  /\ DOMAIN media = DOMAIN volume.sectors
  /\ stage \in {"not_started", "cmd0_idle", "acmd41_ready", "cmd16_blocklen", "complete"}
  /\ sdhc \in BOOLEAN
  /\ layout # Refused => stage = "complete" /\ Len(layout.extents) \in 1 .. MaxExtents
  /\ kept \subseteq 0 .. Len(volume.file) - 1
  /\ writes \in 0 .. MaxWrites

(* The card still mounts after the flight, "a vehicle that silently ate    *)
(* the card" (sd_logger.cpp) is the outcome to avoid: whatever card it is, *)
(* however its commands fail and however the file is fragmented, no sector *)
(* outside the log file changes, over any boots; and each block of the log *)
(* has a sector of its own, in the order of the file, which holds what was *)
(* acknowledged.                                                           *)
CardKept ==
  /\ \A lba \in DOMAIN media :
       media[lba] # Prepared => \E i \in DOMAIN volume.file : volume.file[i] = lba
  /\ \A block \in kept : media[volume.file[block + 1]] = LogBlock(block)
=============================================================================
