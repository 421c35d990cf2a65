---------------------------- MODULE CardVolumes ----------------------------
(* Cards for module SdCard: a volume of four clusters after a FAT of one   *)
(* sector, with or without a partition table before it.                    *)
EXTENDS Integers, Sequences, FiniteSets, SequencesExt

(* EndOfChain of their FATs. *)
ChainEnd == 9

(* Directories: the file first, after what is passed over, in the second   *)
(* cluster of the root, and after the end, where it is not found.          *)
File(first, blocks) == [kind |-> "file", first_cluster |-> first, file_blocks |-> blocks]
Other == [kind |-> "passed_over"]
End == [kind |-> "end"]

Orders(S) == {s \in UNION {[1 .. n -> S] : n \in 1 .. Cardinality(S)} :
                \A i, j \in DOMAIN s : i # j => s[i] # s[j]}

(* A volume at LBA start with spc sectors in a cluster; the clusters of    *)
(* root and of file are those of the root directory and of the log file.   *)
Volume(start, spc, root, file, last_entry) ==
  LET data == start + 2
      Sectors(chain) == [i \in 1 .. Len(chain) * spc |->
                           data + (chain[((i - 1) \div spc) + 1] - 2) * spc + ((i - 1) % spc)]
      next == [c \in 0 .. ChainEnd |->
                 IF \E i \in 1 .. Len(file) - 1 : file[i] = c
                 THEN file[(CHOOSE i \in 1 .. Len(file) - 1 : file[i] = c) + 1]
                 ELSE IF \E i \in 1 .. Len(root) - 1 : root[i] = c
                 THEN root[(CHOOSE i \in 1 .. Len(root) - 1 : root[i] = c) + 1]
                 ELSE ChainEnd]
      entry == File(file[1], Len(file) * spc)
      dir == Sectors(root)
      log == Sectors(file)
  IN [file |-> log, clusters |-> file,
      sectors |-> [lba \in 0 .. data + 4 * spc - 1 |->
        CASE lba < start -> [kind |-> "mbr", partitions |-> <<[type |-> "other", start |-> 9],
                                                             [type |-> "fat32", start |-> start]>>]
          [] lba = start -> [kind |-> "bpb", sectors_per_cluster |-> spc,
                             fat_lba |-> start + 1, data_lba |-> data,
                             root_cluster |-> root[1]]
          [] lba = start + 1 -> [kind |-> "fat", next |-> next]
          [] \E i \in DOMAIN dir : dir[i] = lba ->
               [kind |-> "dir",
                entries |-> IF lba = Last(dir) THEN <<Other, last_entry, entry>>
                            ELSE <<Other>>]
          [] OTHER -> [kind |-> "data"]]]

Names ==
  [start : {0}, spc : {1}, root : {<<2>>}, file : Orders({3, 4, 5}),
   last_entry : {Other}]
  \cup [start : {1}, spc : {2}, root : {<<2>>}, file : Orders({3, 4, 5}),
        last_entry : {Other}]
  \cup [start : {1}, spc : {1}, root : {<<2, 5>>}, file : Orders({3, 4}),
        last_entry : {Other, End}]

PreparedCards ==
  [n \in Names |-> Volume(n.start, n.spc, n.root, n.file, n.last_entry)]
=============================================================================
