------------------------------- MODULE SSTable -------------------------------
(***************************************************************************)
(* SSTable files (src/src/store/lsm/sstable.rs): an index of keys and      *)
(* offsets, then the values.  The file is created, written in that order   *)
(* and synced, so a write that does not finish leaves one of three things: *)
(*   "torn"   the index is not complete: read_index returns Err            *)
(*   "index"  the index is complete, the values are not: read_index works, *)
(*            read_value returns Err                                       *)
(*   "full"   the whole file                                               *)
(***************************************************************************)
EXTENDS Transactions

Status == {"torn", "index", "full"}
File == [status : Status, table : Table]

\* SSTable::read_index, hence SSTable::keys, succeeds.
IndexReadable(file) == file.status # "torn"

\* SSTable::keys.
FileKeys(file) == KeysOf(file.table)

\* SSTable::search.
Search(file, k) ==
  CASE file.status = "torn"                              -> Error
    [] file.status # "torn" /\ k \notin FileKeys(file)   -> Absent
    [] file.status = "index" /\ k \in FileKeys(file)     -> Error
    [] file.status = "full" /\ k \in FileKeys(file)      -> file.table[k]

\* SSTable::scan returns Err: it reads the index, then each value in range.
ScanFails(file, range) ==
  \/ file.status = "torn"
  \/ file.status = "index" /\ FileKeys(file) \cap range # {}

=============================================================================
