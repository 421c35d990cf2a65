----------------------------- MODULE FatVolume -----------------------------
(***************************************************************************)
(* Where the blocks of the log file are on the card: FatVolume::locate()   *)
(* and Layout::to_lba() (fat_volume.cpp), as operators on a reader of the  *)
(* card: Sector[lba] is the content of a sector.                           *)
(*                                                                         *)
(* A sector is a record with a kind: "mbr" with the partition entries in   *)
(* order, "bpb" with what read_bpb() takes from it, "fat" with the next    *)
(* cluster of every cluster, "dir" with its directory entries in order, or *)
(* anything else.                                                          *)
(*                                                                         *)
(* Abstracted: the encodings; a FAT of one sector; a reader that fails,    *)
(* which is no volume as any other refusal of locate() is.                 *)
(***************************************************************************)
EXTENDS Integers, Sequences, SequencesExt

CONSTANTS
  MaxExtents,       (* kMaxExtents                                         *)
  MaxDirClusters,   (* kMaxDirClusters                                     *)
  MinBlocks,        (* min_blocks: kMinLogBlocks of the logger             *)
  EndOfChain        (* of a chain: a value past the last cluster           *)

FatVolumeAssumption ==
  /\ {MaxExtents, MinBlocks} \subseteq Nat \ {0}
  /\ {MaxDirClusters, EndOfChain} \subseteq Nat

Refused == [extents |-> <<>>]

-----------------------------------------------------------------------------
(* find_volume_start(): a volume at LBA 0, or the first FAT32 partition. *)
IsFat32(partition) == partition.type = "fat32"

VolumeStart(Sector) ==
  CASE Sector[0].kind = "bpb" -> 0
    [] Sector[0].kind = "mbr" /\ \E i \in DOMAIN Sector[0].partitions :
                                   IsFat32(Sector[0].partitions[i]) ->
         Sector[0].partitions[SelectInSeq(Sector[0].partitions, IsFat32)].start
    [] OTHER -> -1

ClusterLba(b, cluster) == b.data_lba + (cluster - 2) * b.sectors_per_cluster

(* The first clusters of a chain, limit more than one at most.  Only the   *)
(* chain of a directory ends at a number that is no cluster's.             *)
Chain(fat, first, limit, ends) ==
  FoldLeft(LAMBDA chain, i : IF fat[Last(chain)] \in ends THEN chain
                             ELSE Append(chain, fat[Last(chain)]),
           <<first>>, [i \in 1 .. limit |-> i])

FileEnds == {EndOfChain}
DirectoryEnds == {EndOfChain, 0, 1}

(* The root directory: its sectors in order, and every entry of them. *)
DirectorySectors(b, fat) ==
  LET chain == Chain(fat, b.root_cluster, MaxDirClusters - 1, DirectoryEnds)
      spc == b.sectors_per_cluster
  IN [i \in 1 .. Len(chain) * spc |->
        ClusterLba(b, chain[((i - 1) \div spc) + 1]) + ((i - 1) % spc)]

Directory(Sector, b, fat) ==
  LET at == DirectorySectors(b, fat)
  IN FlattenSeq([i \in DOMAIN at |-> Sector[at[i]].entries])

(* Deleted entries, long names and directories are passed over, and the    *)
(* first free entry ends the directory.                                    *)
Decides(entry) == entry.kind \in {"file", "end"}

Decisive(entries) == SelectInSeq(entries, Decides)

-----------------------------------------------------------------------------
MergedWithoutBreak(b, extents, cluster, previous) ==   \* mutant: later is next
  LET spc == b.sectors_per_cluster
      n == Len(extents)
  IN IF cluster > previous
     THEN [extents EXCEPT ![n].block_count = extents[n].block_count + spc]
     ELSE Append(extents, [first_lba |-> ClusterLba(b, cluster), block_count |-> spc])

(* A cluster that follows the one before extends its run. *)
Merged(b, extents, cluster, previous) ==
  LET spc == b.sectors_per_cluster
      n == Len(extents)
  IN IF cluster = previous + 1
     THEN [extents EXCEPT ![n].block_count = extents[n].block_count + spc]
     ELSE Append(extents, [first_lba |-> ClusterLba(b, cluster), block_count |-> spc])

Extents(b, chain) ==
  FoldLeft(LAMBDA extents, i : Merged(b, extents, chain[i], chain[i - 1]),
           <<[first_lba |-> ClusterLba(b, chain[1]),
              block_count |-> b.sectors_per_cluster]>>,
           [i \in 1 .. Len(chain) - 1 |-> i + 1])

TotalBlocks(layout) ==
  FoldLeft(LAMBDA n, extent : n + extent.block_count, 0, layout.extents)

(* locate(): the layout of the log file, or Refused. *)
Locate(Sector) ==
  LET start == VolumeStart(Sector)
      b == Sector[start]
      fat == Sector[b.fat_lba].next
      entries == Directory(Sector, b, fat)
      entry == entries[Decisive(entries)]
      chain == Chain(fat, entry.first_cluster,
                     (entry.file_blocks \div b.sectors_per_cluster) + 2, FileEnds)
      layout == [extents |-> Extents(b, chain)]
  IN IF \/ start < 0 \/ b.kind # "bpb"
        \/ Decisive(entries) = 0 \/ entry.kind = "end"
        \/ entry.first_cluster < 2
        \/ Len(layout.extents) > MaxExtents
        \/ TotalBlocks(layout) < MinBlocks
     THEN Refused ELSE layout

(* to_lba(): the block of the card, or -1 past the end of the file. *)
ToLba(layout, logical_block) ==
  FoldLeft(LAMBDA at, extent :
             IF at.lba >= 0 THEN at
             ELSE IF at.remaining < extent.block_count
             THEN [at EXCEPT !.lba = extent.first_lba + at.remaining]
             ELSE [at EXCEPT !.remaining = at.remaining - extent.block_count],
           [remaining |-> logical_block, lba |-> -1], layout.extents).lba
=============================================================================
