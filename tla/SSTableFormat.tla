---------------------------- MODULE SSTableFormat ----------------------------
(***************************************************************************)
(* The bytes of one SSTable file (src/src/store/lsm/sstable.rs): SSTable::  *)
(* write lays out the size of the index, the index and the values; search, *)
(* scan and keys find their way back through the offsets in the index.     *)
(* The file may be cut at any byte by a crash before it is synced.         *)
(*                                                                         *)
(* A byte is known by the part of the file it belongs to and its place in  *)
(* that part, so reading from a wrong offset, or too few bytes, shows.     *)
(***************************************************************************)
EXTENDS SSTable, FiniteSetsExt

CONSTANTS
  KeyLength,    \* KeyLength[k]: bytes of key k
  DataLength,   \* DataLength[d]: bytes of value d
  MaxRead       \* the most that one read_buf on a file returns: 16 KiB

ASSUME FormatAssumption ==
  /\ KeyLength \in [Key -> Nat] /\ DataLength \in [Data -> Nat]
  /\ MaxRead \in Nat \ {0}
  /\ \A k \in Key : k > 0

VARIABLES
  memtable,   \* the argument of write
  file,       \* the bytes in the file
  pc,         \* what write does next: a part, "sync", or how it ended
  left        \* the keys whose values are still to be written

vars == <<memtable, file, pc, left>>

(***************************************************************************)
(* Sizes, by bincode: 4 bytes for an enum tag, 8 for a length or a u64.    *)
(***************************************************************************)
U64 == 8
ValueSize(v) == IF v = Tombstone THEN 4 ELSE 4 + U64 + DataLength[v]

Total(size, keys) == MapThenSumSet(LAMBDA k : size[k], keys)
ValueSizes(table) == [k \in KeysOf(table) |-> ValueSize(table[k])]
IndexSize(table) ==
  U64 + Total([k \in KeysOf(table) |-> U64 + KeyLength[k] + 2 * U64], KeysOf(table))

\* The index: each value starts where the values of the smaller keys end.
Below(table, k) == {j \in KeysOf(table) : j < k}
Index(table) ==
  [k \in KeysOf(table) |->
     [size   |-> ValueSize(table[k]),
      offset |-> U64 + IndexSize(table) + Total(ValueSizes(table), Below(table, k))]]

\* The parts of a file: the two blocks before the values, and a key's value.
HeaderPart == -2
IndexPart == -1
Bytes(part, n) == [i \in 1 .. n |-> <<part, i>>]

(***************************************************************************)
(* Reading.  read_u64 reads on until it has its 8 bytes; the index and the *)
(* values are each taken from one read_buf into a buffer of their size.    *)
(***************************************************************************)
ReadBuf(offset, n) ==
  SubSeq(file, offset + 1, Min({offset + n, offset + MaxRead, Len(file)}))

ReadIndexOk ==
  /\ Len(file) >= U64 /\ SubSeq(file, 1, U64) = Bytes(HeaderPart, U64)
  /\ ReadBuf(U64, IndexSize(memtable)) = Bytes(IndexPart, IndexSize(memtable))

\* Deserializing gives a value when the bytes start with all of one.
ReadValue(entry) ==
  LET buf == ReadBuf(entry.offset, entry.size)
      found == {k \in KeysOf(memtable) :
                  LET n == ValueSize(memtable[k])
                  IN  n <= Len(buf) /\ SubSeq(buf, 1, n) = Bytes(k, n)}
  IN  IF found = {} THEN Error ELSE memtable[CHOOSE k \in found : TRUE]

SearchFile(k) ==
  CASE ~ReadIndexOk                               -> Error
    [] ReadIndexOk /\ k \notin KeysOf(memtable)   -> Absent
    [] ReadIndexOk /\ k \in KeysOf(memtable)      -> ReadValue(Index(memtable)[k])

\* Faulty variant: the upper end of the range is included.
ScanFileInclusive(from, to) ==
  LET found == {k \in KeysOf(memtable) : from <= k /\ k <= to}
      values == [k \in found |-> ReadValue(Index(memtable)[k])]
  IN  IF ~ReadIndexOk \/ \E k \in found : values[k] = Error THEN Error ELSE values
ScanFile(from, to) ==
  LET found == {k \in KeysOf(memtable) : from <= k /\ k < to}
      values == [k \in found |-> ReadValue(Index(memtable)[k])]
  IN  IF ~ReadIndexOk \/ \E k \in found : values[k] = Error THEN Error ELSE values

(***************************************************************************)
(* SSTable::write on a path that does not exist yet, for any memtable that *)
(* is not empty (write_sstable returns before it otherwise).               *)
(***************************************************************************)
Init ==
  /\ memtable \in Table \ {EmptyTable} /\ IsFiniteSet(KeysOf(memtable))
  /\ file = <<>> /\ pc = "header" /\ left = KeysOf(memtable)

WriteIndexSize ==
  /\ pc = "header"
  /\ file' = file \o Bytes(HeaderPart, U64)
  /\ pc' = "index"
  /\ UNCHANGED <<memtable, left>>

WriteIndex ==
  /\ pc = "index"
  /\ file' = file \o Bytes(IndexPart, IndexSize(memtable))
  /\ pc' = "values"
  /\ UNCHANGED <<memtable, left>>

\* The values, in the order of their keys.
\* Faulty variant: in the opposite order.
WriteValueDescending ==
  /\ pc = "values" /\ left # {}
  /\ LET k == Max(left)
     IN  file' = file \o Bytes(k, ValueSize(memtable[k])) /\ left' = left \ {k}
  /\ UNCHANGED <<memtable, pc>>
WriteValue ==
  /\ pc = "values" /\ left # {}
  /\ LET k == Min(left)
     IN  file' = file \o Bytes(k, ValueSize(memtable[k])) /\ left' = left \ {k}
  /\ UNCHANGED <<memtable, pc>>

\* Faulty variant: the loop over the values is left before its end.
SyncEarly ==
  /\ pc = "values"
  /\ pc' = "done"
  /\ UNCHANGED <<memtable, file, left>>
SyncAll ==
  /\ pc = "values" /\ left = {}
  /\ pc' = "done"
  /\ UNCHANGED <<memtable, file, left>>

\* The process dies, or a write fails: a prefix of the bytes stays.
Cut ==
  /\ pc \notin {"done", "cut"}
  /\ \E n \in 0 .. Len(file) : file' = SubSeq(file, 1, n)
  /\ pc' = "cut"
  /\ UNCHANGED <<memtable, left>>

Next == WriteIndexSize \/ WriteIndex \/ WriteValue \/ SyncAll \/ Cut

Spec == Init /\ [][Next]_vars

TypeOK ==
  /\ memtable \in Table /\ left \subseteq KeysOf(memtable)
  /\ pc \in {"header", "index", "values", "done", "cut"}
  /\ pc = "done" => left = {}

(***************************************************************************)
(* The file as module SSTable sees it: by how far its bytes reach.         *)
(***************************************************************************)
FileSize(table) ==
  U64 + IndexSize(table) + Total(ValueSizes(table), KeysOf(table))
AsFile ==
  [table  |-> memtable,
   status |-> CASE Len(file) < U64 + IndexSize(memtable)    -> "torn"
                [] /\ Len(file) >= U64 + IndexSize(memtable)
                   /\ Len(file) < FileSize(memtable)        -> "index"
                [] Len(file) >= FileSize(memtable)          -> "full"]

(***************************************************************************)
(* Why search and scan are right, as an invariant that every step          *)
(* preserves: each byte in the file is the one the index leads to, and the *)
(* values written so far are those of the smallest keys.                   *)
(***************************************************************************)
Start(k) == Index(memtable)[k].offset
BytesPlaced ==
  /\ \A i \in 1 .. U64 : i <= Len(file) => file[i] = <<HeaderPart, i>>
  /\ \A i \in 1 .. IndexSize(memtable) : U64 + i <= Len(file) => file[U64 + i] = <<IndexPart, i>>
  /\ \A k \in KeysOf(memtable) :
       LET start == Start(k)
       IN  \A i \in 1 .. ValueSize(memtable[k]) :
             start + i <= Len(file) => file[start + i] = <<k, i>>
WrittenInOrder ==
  /\ pc = "header" => Len(file) = 0
  /\ pc = "index" => Len(file) = U64
  /\ pc \in {"header", "index"} => left = KeysOf(memtable)
  /\ pc \in {"values", "done"} =>
       Len(file) = U64 + IndexSize(memtable) + Total(ValueSizes(memtable), KeysOf(memtable) \ left)
  /\ \A j \in KeysOf(memtable) \ left, k \in left : j < k
FormatInv ==
  /\ IsFiniteSet(KeysOf(memtable)) /\ file \in Seq(Int \X Nat)
  /\ BytesPlaced /\ WrittenInOrder

\* One read_buf call can return the index, and each of the values.
OneReadEach ==
  /\ IndexSize(memtable) <= MaxRead
  /\ \A k \in KeysOf(memtable) : ValueSize(memtable[k]) <= MaxRead

(***************************************************************************)
(* search finds every value through the offsets write computed.  Whatever  *)
(* the sizes and wherever the file is cut short, it answers with the right *)
(* value or an error: never another key's value, and never None for a key  *)
(* that was in the memtable.  If no part is longer than one read it        *)
(* answers as module SSTable says, or with a value that is before the cut, *)
(* and when write returned Ok it answers every key.                        *)
(***************************************************************************)
SearchIsRight ==
  \A k \in Key :
    /\ SearchFile(k) \in {Error, memtable[k]}
    /\ OneReadEach =>
         /\ \/ SearchFile(k) = Search(AsFile, k)
            \/ AsFile.status = "index" /\ SearchFile(k) = memtable[k]
         /\ pc = "done" => SearchFile(k) = memtable[k]

(***************************************************************************)
(* scan returns the entries of its range, lower end included and upper end *)
(* not, or an error, where module SSTable allows one if no part is longer  *)
(* than one read.  Never a part of the range: a table cut short is         *)
(* noticed.                                                                *)
(***************************************************************************)
ScanIsRight ==
  \A from, to \in Key \cup {k + 1 : k \in Key} :
    LET range == {k \in Key : from <= k /\ k < to}
    IN  \/ ScanFile(from, to) = Error /\ (OneReadEach => ScanFails(AsFile, range))
        \/ /\ AsFile.status # "torn"
           /\ ScanFile(from, to) = [k \in KeysOf(memtable) \cap range |-> memtable[k]]

=============================================================================
