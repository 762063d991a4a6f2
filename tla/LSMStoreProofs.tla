--------------------------- MODULE LSMStoreProofs ---------------------------
(***************************************************************************)
(* Theorems about LSMStore for every set of keys and transactions and any  *)
(* number of crashes and I/O errors: type correctness, and that the        *)
(* definitions of recovery agree with its loops.                           *)
(***************************************************************************)
EXTENDS LSMStore, Loops, FiniteSetTheorems, SequenceTheorems

-----------------------------------------------------------------------------
(***************************************************************************)
(* Lemmas about the operators of Transactions and CommitLog.               *)
(***************************************************************************)

(***************************************************************************)
(* The latest of a non-empty set of positions or time stamps that has an   *)
(* upper bound exists.                                                     *)
(***************************************************************************)
LEMMA LatestExists ==
  ASSUME NEW n \in Int, NEW S \in SUBSET Int, S # {}, \A i \in S : i <= n
  PROVE  Latest(S) \in S /\ \A j \in S : j <= Latest(S)
<1> DEFINE R == OpToRel(<, Nat)
           T == {n - i : i \in S}
<1>1. T \subseteq Nat /\ T # {}
  <2>1. \A i \in S : n - i \in Nat
    OBVIOUS
  <2>2. PICK i \in S : TRUE
    OBVIOUS
  <2>3. n - i \in T
    BY <2>2
  <2> QED BY <2>1, <2>3
<1>2. IsWellFoundedOn(R, Nat)
  BY NatLessThanWellFounded
<1>3. PICK x \in T : \A y \in T : ~(<<y, x>> \in R)
  <2> HIDE DEF R, T
  <2> QED BY <1>1, <1>2, WFMin
<1>4. \A y \in T : ~(y < x)
  BY <1>1, <1>3 DEF OpToRel
<1>5. PICK i \in S : x = n - i
  OBVIOUS
<1>6. \A j \in S : j <= i
  <2> SUFFICES ASSUME NEW j \in S PROVE j <= i
    OBVIOUS
  <2>1. ~(n - j < n - i)
    BY <1>4, <1>5
  <2>2. i \in Int /\ j \in Int
    OBVIOUS
  <2> HIDE DEF T
  <2> QED BY <2>1, <2>2
<1> QED BY <1>6 DEF Latest

(***************************************************************************)
(* The last operation of a transaction on a key it touches stores a Value, *)
(* so never Absent.                                                        *)
(***************************************************************************)
LEMMA FinalIsValue ==
  ASSUME NEW t \in Tx, NEW k \in Key, Touches(t, k)
  PROVE  Final(t, k) \in Value /\ Final(t, k) # Absent
<1>1. Operations[t] \in Seq(Operation)
  BY OperationsAssumption
<1>2. OpsOn(t, k) \in SUBSET (1 .. Len(Operations[t])) /\ Len(Operations[t]) \in Nat
  BY <1>1, LenProperties DEF OpsOn
<1>3. Latest(OpsOn(t, k)) \in OpsOn(t, k)
  <2> DEFINE S == OpsOn(t, k)
             n == Len(Operations[t])
  <2>1. n \in Int /\ S \in SUBSET Int /\ S # {} /\ \A i \in S : i <= n
    BY <1>2 DEF Touches
  <2> HIDE DEF S, n
  <2>2. Latest(S) \in S
    BY <2>1, LatestExists
  <2> QED BY <2>2 DEF S
<1>4. Operations[t][Latest(OpsOn(t, k))] \in Operation
  BY <1>1, <1>2, <1>3, ElementOfSeq
<1> QED BY <1>4, SentinelAssumption DEF Final, Operation, Value

(***************************************************************************)
(* Replaying the log gives a table with an entry for every key that an     *)
(* open transaction touches.                                               *)
(***************************************************************************)
LEMMA ReplayLemma ==
  ASSUME NEW l \in Seq(Line)
  PROVE  /\ Replay(l) \in Table
         /\ \A i \in Open(l) : \A k \in Key : Touches(l[i].tx, k) => Replay(l)[k] # Absent
<1>1. Open(l) \in SUBSET (1 .. Len(l)) /\ Len(l) \in Nat
  BY LenProperties DEF Open
<1>2. \A i \in Open(l) : l[i].tx \in Tx
  <2>1. \A i \in 1 .. Len(l) : l[i] \in Line
    BY ElementOfSeq
  <2> QED BY <1>1, <2>1 DEF Line
<1>3. ASSUME NEW k \in Key
      PROVE  /\ Replay(l)[k] \in Entry
             /\ OpenOn(l, k) # {} => Replay(l)[k] # Absent
  <2>1. Replay(l)[k] = IF OpenOn(l, k) = {} THEN Absent
                       ELSE Final(l[Latest(OpenOn(l, k))].tx, k)
    BY DEF Replay
  <2>2. CASE OpenOn(l, k) = {}
    BY <2>1, <2>2 DEF Entry
  <2>3. CASE OpenOn(l, k) # {}
    <3>1. Latest(OpenOn(l, k)) \in OpenOn(l, k)
      <4> DEFINE S == OpenOn(l, k)
                 n == Len(l)
      <4>1. n \in Int /\ S \in SUBSET Int /\ S # {} /\ \A i \in S : i <= n
        BY <1>1, <2>3 DEF OpenOn
      <4> HIDE DEF S, n
      <4>2. Latest(S) \in S
        BY <4>1, LatestExists
      <4> QED BY <4>2 DEF S
    <3>2. /\ l[Latest(OpenOn(l, k))].tx \in Tx
          /\ Touches(l[Latest(OpenOn(l, k))].tx, k)
      BY <1>2, <3>1 DEF OpenOn
    <3> QED BY <2>1, <2>3, <3>2, FinalIsValue DEF Entry
  <2> QED BY <2>2, <2>3
<1>4. Replay(l) \in Table
  BY <1>3 DEF Replay, Table
<1> QED BY <1>3, <1>4 DEF OpenOn

(***************************************************************************)
(* What a failed write leaves is the log as it was, or with one line more. *)
(***************************************************************************)
LEMMA LeftoversLemma ==
  ASSUME NEW l \in Seq(Line), NEW line \in Line, NEW rest \in Leftovers(line)
  PROVE  \/ rest = <<>> /\ l \o rest = l
         \/ \E e \in {line} \cup Cut(line) : e \in Line /\ l \o rest = Append(l, e)
<1>1. \A e \in {line} \cup Cut(line) : e \in Line
  BY DEF Cut, Line
<1>2. CASE rest = <<>>
  BY <1>2, ConcatEmptySeq
<1>3. ASSUME NEW e \in {line} \cup Cut(line), rest = <<e>>
      PROVE  l \o rest = Append(l, e)
  BY <1>1, <1>3, AppendIsConcat
<1> QED BY <1>1, <1>2, <1>3 DEF Leftovers

-----------------------------------------------------------------------------
(***************************************************************************)
(* Type correctness.                                                       *)
(***************************************************************************)

\* The ids that recovery puts in tx_ids are those of the open lines.
LEMMA UnfinishedLemma ==
  ASSUME NEW l \in Seq(Line), NEW lines \in UnfinishedLines(l)
  PROVE  /\ [i \in DOMAIN lines |-> l[lines[i]].tx] \in Seq(Tx)
         /\ \A i \in DOMAIN lines : lines[i] \in Open(l)
<1>1. Open(l) \in SUBSET (1 .. Len(l)) /\ Len(l) \in Nat
  BY LenProperties DEF Open
<1>2. Cardinality(Open(l)) \in Nat
  <2>1. IsFiniteSet(1 .. Len(l))
    BY <1>1, FS_Interval
  <2>2. IsFiniteSet(Open(l))
    BY <1>1, <2>1, FS_Subset
  <2> QED BY <2>2, FS_CardinalityType
<1>3. lines \in [1 .. Cardinality(Open(l)) -> Open(l)]
  BY DEF UnfinishedLines
<1>4. \A i \in 1 .. Len(l) : l[i].tx \in Tx
  <2>1. \A i \in 1 .. Len(l) : l[i] \in Line
    BY ElementOfSeq
  <2> QED BY <2>1 DEF Line
<1>5. \A i \in 1 .. Cardinality(Open(l)) : l[lines[i]].tx \in Tx
  BY <1>1, <1>3, <1>4
<1>6. DOMAIN lines = 1 .. Cardinality(Open(l))
  BY <1>3
<1>7. [i \in 1 .. Cardinality(Open(l)) |-> l[lines[i]].tx] \in Seq(Tx)
  BY <1>2, <1>5, SMT
<1> QED BY <1>3, <1>6, <1>7

\* Applying a transaction to a memtable gives a memtable.
LEMMA ApplyLemma ==
  ASSUME NEW table \in Table, NEW t \in Tx
  PROVE  /\ Apply(table, t) \in Table
         /\ \A k \in Key : Touches(t, k) \/ table[k] # Absent => Apply(table, t)[k] # Absent
<1>1. ASSUME NEW k \in Key PROVE
        /\ Apply(table, t)[k] \in Entry
        /\ Touches(t, k) \/ table[k] # Absent => Apply(table, t)[k] # Absent
  <2>1. Apply(table, t)[k] = IF Touches(t, k) THEN Final(t, k) ELSE table[k]
    BY DEF Apply
  <2> QED BY <2>1, FinalIsValue DEF Entry, Table
<1>2. Apply(table, t) \in Table
  BY <1>1 DEF Apply, Table
<1> QED BY <1>1, <1>2

\* Lines are well formed.
LEMMA LineTypes ==
  ASSUME NEW t \in Tx
  PROVE  BeginTx(t) \in Line /\ EndTx(t) \in Line
BY DEF BeginTx, EndTx, Line

\* BTreeMap::new() is a memtable.
LEMMA EmptyTableType == EmptyTable \in Table
BY DEF EmptyTable, Table, Entry

\* A first start in an empty data_dir is type correct.
LEMMA InitType == Init => TypeOK
<1> SUFFICES ASSUME Init PROVE TypeOK
  OBVIOUS
<1> USE DEF Init
<1>1. memtable \in Table
  BY EmptyTableType
<1>2. txIds \in Seq(Tx) /\ log \in Seq(Line)
  BY EmptySeq
<1>3. IsBloomMap(bloomMap) /\ IsBloomMap(bloomFile.map)
  BY DEF IsBloomMap, NoPaths, NoBloomFile
<1>4. DOMAIN sst \subseteq Int /\ sst \in [DOMAIN sst -> File]
  BY DEF NoPaths
<1>5. flush \in [pc : {"idle", "writing", "ending"}, by : Caller, path : Int, ended : Nat]
  BY DEF NoFlush, Caller
<1>6. /\ bloomFile.status \in {"none", "torn", "full"} /\ bloomFile.mtime \in Int
      /\ flush.pc # "writing"
  BY DEF NoBloomFile, NoFlush
<1>7. tx \in [Tx -> {"new", "logged", "acked", "failed"}] /\ before \in [Tx -> SUBSET Tx]
  OBVIOUS
<1>8. mode \in {"down", "up", "failed"} /\ isShutdown \in BOOLEAN
  OBVIOUS
<1>9. /\ bgpc \in {"off", "check", "size", "flush", "stopped", "dead"}
      /\ sdpc \in {"off", "idle", "flush", "bloom", "bloomwrite", "done", "dead"}
  OBVIOUS
<1>10. logMtime \in Int /\ now \in Int /\ crashes \in Nat /\ ioErrors \in Nat
  OBVIOUS
<1> HIDE DEF Init
<1> QED BY <1>1, <1>2, <1>3, <1>4, <1>5, <1>6, <1>7, <1>8, <1>9, <1>10 DEF TypeOK

\* Reading the clock, and the log after a line or what is left of one.
LEMMA TickType == ASSUME now \in Int, Tick PROVE now' \in Int
BY BoundsAssumption DEF Tick

\* Appending a line to the log: its type, its domain and its lines.
LEMMA AppendLine ==
  ASSUME NEW l \in Seq(Line), NEW e \in Line
  PROVE  /\ Append(l, e) \in Seq(Line)
         /\ DOMAIN Append(l, e) = 1 .. (Len(l) + 1) /\ DOMAIN l = 1 .. Len(l) /\ Len(l) \in Nat
         /\ Append(l, e)[Len(l) + 1] = e
         /\ \A i \in DOMAIN l : Append(l, e)[i] = l[i]
<1>1. Len(l) \in Nat /\ DOMAIN l = 1 .. Len(l)
  BY LenProperties
<1>2. /\ Append(l, e) \in Seq(Line) /\ Len(Append(l, e)) = Len(l) + 1
      /\ \A i \in 1 .. Len(l) : Append(l, e)[i] = l[i]
      /\ Append(l, e)[Len(l) + 1] = e
  BY AppendProperties
<1>3. DOMAIN Append(l, e) = 1 .. Len(Append(l, e))
  BY <1>2, LenProperties
<1> QED BY <1>1, <1>2, <1>3

\* The log after a failed write of a line is still a sequence of lines.
LEMMA LeftoversType ==
  ASSUME NEW l \in Seq(Line), NEW line \in Line, NEW rest \in Leftovers(line)
  PROVE  l \o rest \in Seq(Line)
<1>1. CASE l \o rest = l
  BY <1>1
<1>2. ASSUME NEW e \in Line, l \o rest = Append(l, e)
      PROVE  l \o rest \in Seq(Line)
  BY <1>2, AppendLine
<1> QED BY <1>1, <1>2, LeftoversLemma

\* The id that the EndTx loop writes next.
LEMMA NextIdType ==
  ASSUME TypeOK, flush.ended < Len(txIds)
  PROVE  flush.ended + 1 \in DOMAIN txIds /\ txIds[flush.ended + 1] \in Tx
<1>1. Len(txIds) \in Nat /\ DOMAIN txIds = 1 .. Len(txIds) /\ flush.ended \in Nat
  BY LenProperties DEF TypeOK
<1>2. flush.ended + 1 \in 1 .. Len(txIds)
  BY <1>1
<1> QED BY <1>1, <1>2, ElementOfSeq DEF TypeOK

\* What a caller does with the result of write_sstable keeps its program counter in range.
LEMMA ReturnsType ==
  ASSUME TypeOK, NEW by \in Caller, NEW result, Returns(by, result)
  PROVE  /\ bgpc' \in {"off", "check", "size", "flush", "stopped", "dead"}
         /\ sdpc' \in {"off", "idle", "flush", "bloom", "bloomwrite", "done", "dead"}
BY DEF Returns, TypeOK

\* initialize preserves the types.
LEMMA InitializeType == TypeOK /\ Initialize => TypeOK'
<1> SUFFICES ASSUME TypeOK, Initialize PROVE TypeOK'
  OBVIOUS
<1>1. memtable' \in Table
  BY ReplayLemma DEF Initialize, TypeOK
<1>2. txIds' \in Seq(Tx)
  BY UnfinishedLemma DEF Initialize, TypeOK
<1>3. IsBloomMap(bloomMap')
  BY DEF Initialize, TypeOK, RestoredBloomMap, IsBloomMap, FileKeys, KeysOf
<1> QED BY <1>1, <1>2, <1>3 DEF Initialize, TypeOK, disk, clients, faults

\* do_transact preserves the types.
LEMMA ClientType ==
  ASSUME NEW t \in Tx, TypeOK, Transact(t)
  PROVE  TypeOK'
<1>1. CASE BeginTransaction(t)
  <2>1. now' \in Int
    BY <1>1, TickType DEF BeginTransaction, TypeOK
  <2>2. log' \in Seq(Line)
    BY <1>1, LineTypes, AppendLine DEF BeginTransaction, TypeOK
  <2> QED BY <1>1, <2>1, <2>2 DEF BeginTransaction, Began, TypeOK, volatile, faults
<1>2. CASE BeginFails(t)
  <2>1. now' \in Int
    BY <1>2, TickType DEF BeginFails, TypeOK
  <2>2. log' \in Seq(Line)
    BY <1>2, LineTypes, LeftoversType DEF BeginFails, TypeOK
  <2> QED BY <1>2, <2>1, <2>2 DEF BeginFails, Began, TypeOK, volatile
<1>3. CASE ApplyTransaction(t)
  <2>1. memtable' \in Table
    BY <1>3, ApplyLemma DEF ApplyTransaction, TypeOK
  <2>2. txIds' \in Seq(Tx)
    BY <1>3, AppendProperties DEF ApplyTransaction, TypeOK
  <2> QED BY <1>3, <2>1, <2>2 DEF ApplyTransaction, TypeOK, disk, faults
<1> QED BY <1>1, <1>2, <1>3 DEF Transact

\* Inserting a path in a map extends its domain by that path.
LEMMA WithType ==
  ASSUME NEW f, NEW S, DOMAIN f \subseteq Int, f \in [DOMAIN f -> S], NEW p \in Int, NEW v \in S
  PROVE  /\ DOMAIN With(f, p, v) = DOMAIN f \cup {p} /\ DOMAIN With(f, p, v) \subseteq Int
         /\ With(f, p, v) \in [DOMAIN With(f, p, v) -> S]
BY DEF With

\* The first part of write_sstable preserves the types.
LEMMA FlushStartType ==
  ASSUME NEW by \in Caller, TypeOK, FlushStart(by)
  PROVE  TypeOK'
<1>1. CASE FlushEmpty(by)
  BY <1>1, ReturnsType DEF FlushEmpty, TypeOK, disk, clients, faults
<1>2. CASE FlushExists(by)
  BY <1>2, ReturnsType, TickType DEF FlushExists, TypeOK, disk, clients, faults
<1>3. CASE FlushCreate(by)
  <2>1. now' \in Int
    BY <1>3, TickType DEF FlushCreate, TypeOK
  <2>2. [status |-> "torn", table |-> memtable] \in File
    BY DEF TypeOK, File, Status
  <2>3. /\ DOMAIN sst' \subseteq Int /\ sst' \in [DOMAIN sst' -> File]
        /\ now' \in DOMAIN sst'
    <3>1. DOMAIN sst \subseteq Int /\ sst \in [DOMAIN sst -> File]
      BY DEF TypeOK
    <3>2. sst' = With(sst, now', [status |-> "torn", table |-> memtable])
      BY <1>3 DEF FlushCreate
    <3> DEFINE f == [status |-> "torn", table |-> memtable]
    <3>3. f \in File /\ sst' = With(sst, now', f)
      BY <2>2, <3>2
    <3> HIDE DEF f
    <3>4. /\ DOMAIN With(sst, now', f) = DOMAIN sst \cup {now'}
          /\ DOMAIN With(sst, now', f) \subseteq Int
          /\ With(sst, now', f) \in [DOMAIN With(sst, now', f) -> File]
      BY <2>1, <3>1, <3>3, WithType
    <3> QED BY <3>3, <3>4
  <2>4. /\ flush' \in [pc : {"idle", "writing", "ending"}, by : Caller, path : Int, ended : Nat]
        /\ flush'.path = now'
    BY <1>3, <2>1 DEF FlushCreate
  <2> QED BY <1>3, <2>1, <2>3, <2>4 DEF FlushCreate, TypeOK, clients, faults
<1> QED BY <1>1, <1>2, <1>3 DEF FlushStart

\* Changing how much of a file is on disk leaves its path and its table.
LEMMA StatusType ==
  ASSUME TypeOK, flush.pc = "writing", NEW s \in Status,
         sst' = [sst EXCEPT ![flush.path].status = s]
  PROVE  /\ DOMAIN sst' = DOMAIN sst /\ sst' \in [DOMAIN sst' -> File]
         /\ sst'[flush.path].table = sst[flush.path].table
         /\ sst'[flush.path].status = s
         /\ \A p \in DOMAIN sst : p # flush.path => sst'[p] = sst[p]
BY DEF TypeOK, File, Status

\* The rest of write_sstable preserves the types.
LEMMA FlushRestType ==
  ASSUME TypeOK, FlushRest
  PROVE  TypeOK'
<1>0. /\ NoFlush \in [pc : {"idle", "writing", "ending"}, by : Caller, path : Int, ended : Nat]
      /\ NoFlush.pc = "idle"
      /\ flush.by \in Caller
  BY DEF NoFlush, Caller, TypeOK
<1>1. CASE FlushWrite
  <2>1. DOMAIN sst' = DOMAIN sst /\ sst' \in [DOMAIN sst' -> File]
    BY <1>1, StatusType DEF FlushWrite, Status
  <2>2. IsBloomMap(bloomMap')
    <3>1. KeysOf(memtable) \in SUBSET Key /\ flush.path \in Int
      BY DEF KeysOf, TypeOK
    <3> QED BY <1>1, <3>1, WithType DEF FlushWrite, IsBloomMap, TypeOK
  <2>3. memtable' \in Table
    BY <1>1, EmptyTableType DEF FlushWrite
  <2>4. /\ flush' \in [pc : {"idle", "writing", "ending"}, by : Caller, path : Int, ended : Nat]
        /\ flush'.pc = "ending"
    BY <1>1 DEF FlushWrite, TypeOK
  <2> QED BY <1>1, <2>1, <2>2, <2>3, <2>4 DEF FlushWrite, TypeOK, clients, faults
<1>2. CASE FlushWriteFails
  <2>1. DOMAIN sst' = DOMAIN sst /\ sst' \in [DOMAIN sst' -> File]
    BY <1>2, StatusType DEF FlushWriteFails
  <2> QED BY <1>0, <1>2, <2>1, ReturnsType DEF FlushWriteFails, TypeOK, clients
<1>3. CASE EndTransaction
  <2>1. now' \in Int
    BY <1>3, TickType DEF EndTransaction, TypeOK
  <2>2. log' \in Seq(Line)
    BY <1>3, NextIdType, LineTypes, AppendLine DEF EndTransaction, TypeOK
  <2>3. /\ flush' \in [pc : {"idle", "writing", "ending"}, by : Caller, path : Int, ended : Nat]
        /\ flush'.pc = "ending"
    <3>1. /\ flush.ended \in Nat /\ flush.pc = "ending"
          /\ flush \in [pc : {"idle", "writing", "ending"}, by : Caller, path : Int, ended : Nat]
          /\ flush' = [flush EXCEPT !.ended = flush.ended + 1]
      BY <1>3 DEF EndTransaction, TypeOK
    <3>2. flush.ended + 1 \in Nat
      BY <3>1
    <3> QED BY <3>1, <3>2
  <2> QED BY <1>3, <2>1, <2>2, <2>3 DEF EndTransaction, TypeOK, clients, faults
<1>4. CASE EndFails
  <2>1. now' \in Int
    BY <1>4, TickType DEF EndFails, TypeOK
  <2>2. log' \in Seq(Line)
    <3> DEFINE line == EndTx(txIds[flush.ended + 1])
    <3>1. line \in Line
      BY <1>4, NextIdType, LineTypes DEF EndFails
    <3>2. PICK rest \in Leftovers(line) : log' = log \o rest
      BY <1>4 DEF EndFails
    <3> HIDE DEF line
    <3>3. log \in Seq(Line)
      BY DEF TypeOK
    <3> QED BY <3>1, <3>2, <3>3, LeftoversType
  <2>3. logMtime' \in Int
    BY <1>4, <2>1 DEF EndFails, TypeOK
  <2>4. /\ bgpc' \in {"off", "check", "size", "flush", "stopped", "dead"}
        /\ sdpc' \in {"off", "idle", "flush", "bloom", "bloomwrite", "done", "dead"}
    BY <1>0, <1>4, ReturnsType DEF EndFails
  <2>5. /\ flush' = NoFlush /\ ioErrors' \in Nat
        /\ UNCHANGED <<mode, memtable, txIds, bloomMap, isShutdown, sst, bloomFile, clients, crashes>>
    BY <1>4 DEF EndFails, TypeOK
  <2> QED BY <1>0, <2>1, <2>2, <2>3, <2>4, <2>5 DEF TypeOK, clients
<1>5. CASE FlushReturn
  <2>1. txIds' \in Seq(Tx)
    BY <1>5, EmptySeq DEF FlushReturn
  <2> QED BY <1>0, <1>5, <2>1, ReturnsType DEF FlushReturn, TypeOK, disk, clients, faults
<1> QED BY <1>1, <1>2, <1>3, <1>4, <1>5 DEF FlushRest

\* The background and shutdown tasks preserve the types.
LEMMA TaskType ==
  ASSUME TypeOK, BgCheck \/ BgSize \/ Signal \/ BloomStep
  PROVE  TypeOK'
<1>1. CASE BgCheck
  BY <1>1 DEF BgCheck, TypeOK, disk, clients, faults
<1>2. CASE BgSize
  BY <1>2 DEF BgSize, TypeOK, disk, clients, faults
<1>3. CASE Signal
  BY <1>3 DEF Signal, TypeOK, disk, clients, faults
<1>4. CASE SkipBloomMap
  BY <1>4 DEF SkipBloomMap, TypeOK, disk, clients, faults
<1>5. CASE OpenBloomMap
  BY <1>5, TickType DEF OpenBloomMap, TypeOK, clients, faults
<1>6. CASE WriteBloomMap
  BY <1>6, TickType DEF WriteBloomMap, TypeOK, clients, faults
<1>7. CASE WriteBloomMapFails
  BY <1>7, TickType DEF WriteBloomMapFails, TypeOK, clients
<1> QED BY <1>1, <1>2, <1>3, <1>4, <1>5, <1>6, <1>7 DEF BloomStep

\* A line that a crash catches in flight.
LEMMA InFlightLine ==
  ASSUME TypeOK, NEW line \in LinesInFlight
  PROVE  /\ line \in Line
         /\ \/ line.type = "begin" /\ tx[line.tx] = "new"
            \/ /\ line.type = "end" /\ flush.pc = "ending"
               /\ flush.ended + 1 \in DOMAIN txIds /\ txIds[flush.ended + 1] = line.tx
<1>1. CASE flush.pc = "ending"
  <2>1. PICK i \in DOMAIN txIds : i = flush.ended + 1 /\ line = EndTx(txIds[i])
    BY <1>1 DEF LinesInFlight
  <2>2. txIds[i] \in Tx
    BY <2>1, LenProperties, ElementOfSeq DEF TypeOK
  <2> QED BY <1>1, <2>1, <2>2, LineTypes DEF EndTx
<1>2. CASE flush.pc # "ending"
  <2>1. PICK t \in Tx : CanBegin(t) /\ line = BeginTx(t)
    BY <1>2 DEF LinesInFlight
  <2> QED BY <2>1, LineTypes DEF BeginTx, CanBegin
<1> QED BY <1>1, <1>2

\* The log after a crash: as it was, or with what is left of one line.
LEMMA CrashLog ==
  ASSUME TypeOK, Crash
  PROVE  \/ log' = log /\ logMtime' = logMtime
         \/ /\ logMtime' = now'
            /\ \E line \in LinesInFlight : \E e \in {line} \cup Cut(line) :
                  e \in Line /\ log' = Append(log, e)
                  /\ (tx[line.tx] = "new" => tx'[line.tx] = "failed")
<1>1. CASE log' = log /\ logMtime' = logMtime
  BY <1>1
<1>2. ASSUME NEW line \in LinesInFlight, NEW rest \in Leftovers(line) \ {<<>>},
             log' = log \o rest, logMtime' = now',
             tx[line.tx] = "new" => tx'[line.tx] = "failed"
      PROVE  \E e \in {line} \cup Cut(line) : e \in Line /\ log' = Append(log, e)
  BY <1>2, InFlightLine, LeftoversLemma DEF TypeOK
<1>3. \A line \in LinesInFlight : line.tx \in Tx
  BY InFlightLine DEF Line
<1>4. \A t \in Tx : [Interrupted EXCEPT ![t] = "failed"][t] = "failed"
  BY DEF Interrupted
<1> QED BY <1>1, <1>2, <1>3, <1>4 DEF Crash

\* A crash preserves the types.
LEMMA CrashType ==
  ASSUME TypeOK, Crash
  PROVE  TypeOK'
<1>1. now' \in Int
  BY TickType DEF Crash, TypeOK
<1>2. log' \in Seq(Line) /\ logMtime' \in Int
  <2>1. ASSUME NEW e \in Line, log' = Append(log, e) PROVE log' \in Seq(Line)
    BY <2>1, AppendLine DEF TypeOK
  <2> QED BY <1>1, <2>1, CrashLog DEF TypeOK
<1>3. DOMAIN sst' = DOMAIN sst /\ sst' \in [DOMAIN sst' -> File] /\ DOMAIN sst \subseteq Int
  <2>1. CASE flush.pc = "writing"
    <3>1. PICK s \in Status : sst' = [sst EXCEPT ![flush.path].status = s]
      BY <2>1 DEF Crash
    <3> QED BY <2>1, <3>1, StatusType DEF TypeOK
  <2>2. CASE flush.pc # "writing"
    BY <2>2 DEF Crash, TypeOK
  <2> QED BY <2>1, <2>2
<1>4. memtable' \in Table /\ txIds' \in Seq(Tx)
  BY EmptyTableType, EmptySeq DEF Crash
<1>5. IsBloomMap(bloomMap')
  BY DEF Crash, IsBloomMap, NoPaths
<1>6. tx' \in [Tx -> {"new", "logged", "acked", "failed"}] /\ before' \in [Tx -> SUBSET Tx]
  <2>1. Interrupted \in [Tx -> {"new", "logged", "acked", "failed"}]
    BY DEF Interrupted, TypeOK
  <2>2. CASE tx' = Interrupted /\ UNCHANGED before
    BY <2>1, <2>2 DEF TypeOK
  <2>3. ASSUME NEW line \in LinesInFlight,
               tx' = [Interrupted EXCEPT ![line.tx] = "failed"], Began(line.tx)
        PROVE  tx' \in [Tx -> {"new", "logged", "acked", "failed"}] /\ before' \in [Tx -> SUBSET Tx]
    BY <2>1, <2>3 DEF Began, TypeOK
  <2> QED BY <2>2, <2>3 DEF Crash
<1>7. /\ flush' \in [pc : {"idle", "writing", "ending"}, by : Caller, path : Int, ended : Nat]
      /\ flush'.pc # "writing"
  BY DEF Crash, NoFlush, Caller
<1>8. /\ bloomFile'.status \in {"none", "torn", "full"}
      /\ IsBloomMap(bloomFile'.map) /\ bloomFile'.mtime \in Int
  BY <1>1 DEF Crash, TypeOK
<1>9. /\ mode' = "down" /\ isShutdown' = FALSE /\ bgpc' = "off" /\ sdpc' = "off"
      /\ crashes' \in Nat /\ ioErrors' \in Nat
  BY DEF Crash, TypeOK
<1> QED BY <1>1, <1>2, <1>3, <1>4, <1>5, <1>6, <1>7, <1>8, <1>9 DEF TypeOK

(***************************************************************************)
(* Every variable of the store keeps its type: what initialize rebuilds    *)
(* from the files, what write_sstable leaves and what a crash or a failed  *)
(* write cuts short are all well formed.                                   *)
(***************************************************************************)
THEOREM TypeCorrect == Spec => []TypeOK
<1>1. ASSUME TypeOK, [Next]_vars PROVE TypeOK'
  <2>1. CASE UNCHANGED vars
    BY <1>1, <2>1 DEF TypeOK, vars, volatile, disk, clients, faults
  <2>2. CASE Initialize
    BY <1>1, <2>2, InitializeType
  <2>3. CASE InitializeFails
    BY <1>1, <2>3 DEF InitializeFails, TypeOK, volatile, disk, clients, faults
  <2>4. CASE Crash
    BY <1>1, <2>4, CrashType
  <2>5. ASSUME NEW t \in Tx, Transact(t) PROVE TypeOK'
    BY <1>1, <2>5, ClientType
  <2>6. ASSUME NEW by \in Caller, FlushStart(by) PROVE TypeOK'
    BY <1>1, <2>6, FlushStartType
  <2>7. CASE FlushRest
    BY <1>1, <2>7, FlushRestType
  <2>8. CASE BgCheck \/ BgSize \/ Signal \/ BloomStep
    BY <1>1, <2>8, TaskType
  <2> QED BY <1>1, <2>1, <2>2, <2>3, <2>4, <2>5, <2>6, <2>7, <2>8
          DEF Next, Background, Shutdown, Caller
<1> QED BY <1>1, InitType, PTL DEF Spec

-----------------------------------------------------------------------------
(***************************************************************************)
(* The loops of recovery, by induction over the lines of the log.          *)
(***************************************************************************)

\* The loop of get_unfinished_transactions, step by step.
LEMMA LoopStep ==
  ASSUME NEW l \in Seq(Line)
  PROVE  /\ LoopTo(l) \in [0 .. Len(l) -> [Tx -> Nat]]
         /\ LoopTo(l)[0] = [t \in Tx |-> 0]
         /\ \A i \in 1 .. Len(l) :
              /\ l[i].type = "begin" => LoopTo(l)[i] = [LoopTo(l)[i - 1] EXCEPT ![l[i].tx] = i]
              /\ l[i].type = "end" => LoopTo(l)[i] = [LoopTo(l)[i - 1] EXCEPT ![l[i].tx] = 0]
              /\ l[i].type \notin {"begin", "end"} => LoopTo(l)[i] = LoopTo(l)[i - 1]
<1> DEFINE n == Len(l)
           X == [Tx -> Nat]
           Body(i, x) == CASE l[i].type = "begin"                -> [x EXCEPT ![l[i].tx] = i]
                           [] l[i].type = "end"                  -> [x EXCEPT ![l[i].tx] = 0]
                           [] l[i].type \notin {"begin", "end"}  -> x
           first == [t \in Tx |-> 0]
           step == [i \in 1 .. n |-> [x \in X |-> Body(i, x)]]
           Is(f) == f = [i \in 0 .. n |-> IF i = 0 THEN first ELSE Body(i, f[i - 1])]
<1>1. n \in Nat /\ \A i \in 1 .. n : l[i] \in Line
  BY LenProperties, ElementOfSeq
<1>2. \A i \in 1 .. n : \A x \in X : Body(i, x) \in X
  BY <1>1 DEF Line
<1>3. first \in X /\ step \in [1 .. n -> [X -> X]]
  BY <1>2
<1>4. PICK f \in [0 .. n -> X] : f[0] = first /\ \A i \in 1 .. n : f[i] = step[i][f[i - 1]]
  <2> HIDE DEF n, X, first, step
  <2>1. \E f \in [0 .. n -> X] : Runs(f, n, first, step)
    BY <1>1, <1>3, RunExists
  <2> QED BY <2>1 DEF Runs
<1>5. Is(f)
  <2>1. ASSUME NEW i \in 1 .. n PROVE f[i] = Body(i, f[i - 1])
    <3>1. f[i - 1] \in X
      BY <1>1, <1>4
    <3> HIDE DEF Body, X
    <3> QED BY <1>4, <3>1
  <2> HIDE DEF Body, X, first
  <2> QED BY <1>1, <1>4, <2>1
<1>6. LoopTo(l) = CHOOSE g : Is(g)
  BY DEF LoopTo
<1>7. Is(LoopTo(l))
  <2> HIDE DEF Is
  <2> QED BY <1>5, <1>6
<1>8. LoopTo(l) = f
  <2> DEFINE g == LoopTo(l)
             S == {i \in 0 .. n : g[i] = f[i]}
  <2>1. 0 \in S
    BY <1>1, <1>4, <1>7
  <2>2. ASSUME NEW i \in 1 .. n, i - 1 \in S PROVE i \in S
    <3> HIDE DEF Body, first
    <3> QED BY <1>1, <1>5, <1>7, <2>2
  <2>3. \A i \in 0 .. n : i \in S
    <3> HIDE DEF S, n
    <3> QED BY <1>1, <2>1, <2>2, UpTo
  <2>4. DOMAIN g = 0 .. n /\ g = [i \in 0 .. n |-> g[i]]
    <3> HIDE DEF Body, first
    <3> QED BY <1>7
  <2>5. f = [i \in 0 .. n |-> f[i]]
    BY <1>4
  <2> HIDE DEF g, Is
  <2>6. \A i \in 0 .. n : g[i] = f[i]
    BY <2>3
  <2> QED BY <2>4, <2>5, <2>6 DEF g
<1>9. ASSUME NEW i \in 1 .. n PROVE LoopTo(l)[i] = Body(i, LoopTo(l)[i - 1])
  <2> HIDE DEF Body, first
  <2> QED BY <1>1, <1>7
<1> QED BY <1>4, <1>8, <1>9

\* The lines the loop is left with are the open ones.
LEMMA LoopLines ==
  ASSUME NEW l \in Seq(Line)
  PROVE  Open(l) = {Loop(l)[t] : t \in Tx} \ {0}
<1> DEFINE n == Len(l)
           txs == LoopTo(l)
           Entered(i, t) ==
             /\ txs[i][t] \in 1 .. i
             /\ l[txs[i][t]].type = "begin" /\ l[txs[i][t]].tx = t
             /\ \A j \in 1 .. i : j > txs[i][t] /\ l[j].type \in {"begin", "end"} => l[j].tx # t
           Removed(i, t) ==
             /\ txs[i][t] = 0
             /\ \A j \in 1 .. i : l[j].type = "begin" /\ l[j].tx = t =>
                  \E m \in 1 .. i : m > j /\ l[m].type \in {"begin", "end"} /\ l[m].tx = t
           S == {i \in 0 .. n : \A t \in Tx : Entered(i, t) \/ Removed(i, t)}
<1>1. n \in Nat /\ DOMAIN l = 1 .. n /\ \A i \in 1 .. n : l[i] \in Line
  BY LenProperties, ElementOfSeq
<1>2. /\ txs \in [0 .. n -> [Tx -> Nat]]
      /\ txs[0] = [t \in Tx |-> 0]
      /\ \A i \in 1 .. n :
           /\ l[i].type = "begin" => txs[i] = [txs[i - 1] EXCEPT ![l[i].tx] = i]
           /\ l[i].type = "end" => txs[i] = [txs[i - 1] EXCEPT ![l[i].tx] = 0]
           /\ l[i].type \notin {"begin", "end"} => txs[i] = txs[i - 1]
  BY LoopStep
<1> HIDE DEF n, txs
<1>3. 0 \in S
  BY <1>1, <1>2
<1>4. ASSUME NEW i \in 1 .. n, i - 1 \in S PROVE i \in S
  <2> SUFFICES ASSUME NEW t \in Tx PROVE Entered(i, t) \/ Removed(i, t)
    BY <1>1
  <2>1. Entered(i - 1, t) \/ Removed(i - 1, t)
    BY <1>4
  <2>2. i \in Nat /\ i - 1 \in 0 .. n /\ txs[i - 1] \in [Tx -> Nat] /\ l[i].tx \in Tx
    BY <1>1, <1>2 DEF Line
  <2>3. \A j \in 1 .. i : j \in 1 .. i - 1 \/ j = i
    BY <2>2
  <2>4. CASE l[i].type = "begin" /\ l[i].tx = t
    <3>1. txs[i][t] = i
      BY <1>2, <2>2, <2>4
    <3> QED BY <2>2, <2>4, <3>1
  <2>5. CASE l[i].type = "end" /\ l[i].tx = t
    <3>1. txs[i][t] = 0
      BY <1>2, <2>2, <2>5
    <3> QED BY <2>2, <2>3, <2>5, <3>1
  <2>6. CASE l[i].type \in {"begin", "end"} => l[i].tx # t
    <3>1. txs[i][t] = txs[i - 1][t]
      BY <1>2, <2>2, <2>6
    <3>2. CASE Entered(i - 1, t)
      BY <2>2, <2>3, <2>6, <3>1, <3>2
    <3>3. CASE Removed(i - 1, t)
      BY <2>2, <2>3, <2>6, <3>1, <3>3
    <3> QED BY <2>1, <3>2, <3>3
  <2> QED BY <2>4, <2>5, <2>6
<1>5. n \in S
  <2>1. \A i \in 0 .. n : i \in S
    <3> HIDE DEF S
    <3> QED BY <1>1, <1>3, <1>4, UpTo
  <2> QED BY <1>1, <2>1
<1>6. Loop(l) = txs[n]
  BY DEF Loop, txs, n
<1>7. ASSUME NEW i \in Open(l) PROVE l[i].tx \in Tx /\ txs[n][l[i].tx] = i
  <2>1. /\ i \in 1 .. n /\ l[i].type = "begin" /\ l[i].tx \in Tx
        /\ \A j \in 1 .. n : j > i /\ l[j].type \in {"begin", "end"} => l[j].tx # l[i].tx
    BY <1>1 DEF Open, Line
  <2> DEFINE t == l[i].tx
  <2>2. Entered(n, t)
    BY <1>5, <2>1
  <2>3. /\ txs[n][t] \in 1 .. n /\ ~(txs[n][t] > i) /\ ~(i > txs[n][t])
    BY <2>1, <2>2
  <2> QED BY <1>1, <2>1, <2>3
<1>8. ASSUME NEW t \in Tx, txs[n][t] # 0 PROVE txs[n][t] \in Open(l)
  <2>1. Entered(n, t)
    BY <1>5, <1>8
  <2> QED BY <1>1, <2>1 DEF Open
<1>9. \A i \in Open(l) : i # 0
  BY <1>1 DEF Open
<1> QED BY <1>6, <1>7, <1>8, <1>9

\* s lists the members of S in ascending order.
Lists(s, S) == s \in [1 .. Cardinality(S) -> S] /\ Ascending(s) /\ {s[i] : i \in DOMAIN s} = S

\* A set of line numbers can be listed in ascending order.
LEMMA ListExists ==
  ASSUME NEW n \in Nat, NEW S \in SUBSET (1 .. n)
  PROVE  Cardinality(S) \in Nat /\ \E s : Lists(s, S)
<1> DEFINE Upto(m) == {i \in S : i <= m}
           M == {m \in 0 .. n : IsFiniteSet(Upto(m)) /\ \E s : Lists(s, Upto(m))}
<1>0. \A i \in S : i \in Nat /\ 1 <= i /\ i <= n
  OBVIOUS
<1>1. 0 \in M
  <2>1. Upto(0) = {}
    <3>1. \A i \in S : ~(i <= 0)
      BY <1>0
    <3> QED BY <3>1
  <2>2. IsFiniteSet({}) /\ Cardinality({}) = 0
    BY FS_EmptySet
  <2> DEFINE s == [i \in 1 .. 0 |-> 0]
  <2>3. Lists(s, {})
    BY <2>2 DEF Lists, Ascending
  <2> HIDE DEF s
  <2> QED BY <2>1, <2>2, <2>3
<1>2. ASSUME NEW m \in 1 .. n, m - 1 \in M PROVE m \in M
  <2>1. CASE m \notin S
    <3>1. Upto(m) = Upto(m - 1)
      <4>1. \A i \in S : i <= m <=> i <= m - 1
        BY <1>0, <2>1
      <4> QED BY <4>1
    <3> HIDE DEF Upto
    <3> QED BY <1>2, <3>1
  <2>2. CASE m \in S
    <3> DEFINE U == Upto(m - 1)
               c == Cardinality(U)
    <3>1. Upto(m) = U \cup {m} /\ m \notin U /\ \A i \in U : i \in Nat /\ i < m
      <4>1. \A i \in S : i <= m <=> i <= m - 1 \/ i = m
        BY <1>0
      <4>2. Upto(m) = U \cup {m}
        BY <2>2, <4>1
      <4> QED BY <1>0, <4>2
    <3>2. PICK s : Lists(s, U)
      BY <1>2
    <3> HIDE DEF U
    <3>3. IsFiniteSet(U)
      BY <1>2 DEF U
    <3>4. IsFiniteSet(U \cup {m}) /\ Cardinality(U \cup {m}) = c + 1 /\ c \in Nat
      BY <3>1, <3>3, FS_AddElement, FS_CardinalityType
    <3>5. s \in [1 .. c -> U] /\ Ascending(s) /\ {s[i] : i \in DOMAIN s} = U
      BY <3>2 DEF Lists
    <3> HIDE DEF c
    <3> DEFINE r == [i \in 1 .. c + 1 |-> IF i = c + 1 THEN m ELSE s[i]]
    <3>6. r \in [1 .. c + 1 -> U \cup {m}]
      BY <3>4, <3>5
    <3>7. Ascending(r)
      <4> SUFFICES ASSUME NEW i \in 1 .. c + 1, NEW j \in 1 .. c + 1, i < j PROVE r[i] < r[j]
        BY DEF Ascending
      <4>1. i \in 1 .. c /\ r[i] = s[i]
        BY <3>4
      <4>2. CASE j = c + 1
        BY <3>1, <3>5, <4>1, <4>2
      <4>3. CASE j \in 1 .. c
        <5>1. s[i] < s[j]
          BY <3>5, <4>1, <4>3 DEF Ascending
        <5> QED BY <3>4, <4>1, <4>3, <5>1
      <4> QED BY <3>4, <4>2, <4>3
    <3>8. {r[i] : i \in DOMAIN r} = U \cup {m}
      <4>1. \A i \in 1 .. c : r[i] = s[i] /\ i \in DOMAIN r
        BY <3>4
      <4>2. c + 1 \in DOMAIN r /\ r[c + 1] = m
        BY <3>4
      <4>3. DOMAIN s = 1 .. c /\ DOMAIN r = 1 .. c + 1
        BY <3>5
      <4>4. \A i \in DOMAIN r : i \in 1 .. c \/ i = c + 1
        BY <3>4
      <4> HIDE DEF r
      <4>5. \A u \in U : \E i \in DOMAIN r : r[i] = u
        BY <3>5, <4>1, <4>3
      <4>6. \A i \in DOMAIN r : r[i] \in U \cup {m}
        BY <3>5, <4>1, <4>2, <4>4
      <4> QED BY <4>2, <4>5, <4>6
    <3> HIDE DEF r
    <3>9. Lists(r, Upto(m))
      BY <3>1, <3>4, <3>6, <3>7, <3>8 DEF Lists
    <3> HIDE DEF Upto
    <3> QED BY <3>1, <3>4, <3>9
  <2> QED BY <2>1, <2>2
<1>3. \A m \in 0 .. n : m \in M
  <2> HIDE DEF M
  <2> QED BY <1>1, <1>2, UpTo
<1>4. n \in M
  <2> HIDE DEF M
  <2> QED BY <1>3
<1>5. Upto(n) = S
  BY <1>0
<1> HIDE DEF Upto
<1> QED BY <1>4, <1>5, FS_CardinalityType

\* And in one way only.
LEMMA ListUnique ==
  ASSUME NEW n \in Nat, NEW S \in SUBSET (1 .. n), NEW s, Lists(s, S), NEW r, Lists(r, S)
  PROVE  s = r
<1> DEFINE c == Cardinality(S)
           M == {m \in 0 .. c : \A i \in 1 .. m : s[i] = r[i]}
<1>1. c \in Nat /\ \A x \in S : x \in Nat
  BY ListExists
<1>2. /\ s \in [1 .. c -> S] /\ Ascending(s) /\ {s[i] : i \in DOMAIN s} = S
      /\ r \in [1 .. c -> S] /\ Ascending(r) /\ {r[i] : i \in DOMAIN r} = S
  BY DEF Lists
<1> HIDE DEF c
<1>3. 0 \in M
  BY <1>1
<1>4. ASSUME NEW m \in 1 .. c, m - 1 \in M PROVE m \in M
  <2>1. \A i \in 1 .. c : i < m => s[i] = r[i]
    BY <1>1, <1>4
  <2>2. PICK j \in 1 .. c : r[j] = s[m]
    BY <1>2
  <2>3. PICK i \in 1 .. c : s[i] = r[m]
    BY <1>2
  <2>4. /\ \A a, b \in 1 .. c : a < b => s[a] < s[b] /\ r[a] < r[b]
        /\ \A a \in 1 .. c : s[a] \in Nat /\ r[a] \in Nat
    BY <1>1, <1>2 DEF Ascending
  <2>5. ~(j < m) /\ ~(i < m)
    <3>1. ASSUME j < m PROVE FALSE
      <4>1. s[j] = s[m] /\ s[j] < s[m]
        BY <2>1, <2>2, <2>4, <3>1
      <4> QED BY <2>4, <4>1
    <3>2. ASSUME i < m PROVE FALSE
      <4>1. r[i] = r[m] /\ r[i] < r[m]
        BY <2>1, <2>3, <2>4, <3>2
      <4> QED BY <2>4, <4>1
    <3> QED BY <3>1, <3>2
  <2>6. r[m] <= s[m] /\ s[m] <= r[m]
    <3>1. r[m] <= r[j]
      BY <1>1, <2>4, <2>5
    <3>2. s[m] <= s[i]
      BY <1>1, <2>4, <2>5
    <3> QED BY <2>2, <2>3, <3>1, <3>2
  <2>7. s[m] = r[m]
    BY <2>4, <2>6
  <2> QED BY <1>1, <2>1, <2>7
<1>5. \A m \in 0 .. c : m \in M
  <2> HIDE DEF M
  <2> QED BY <1>1, <1>3, <1>4, UpTo
<1>6. c \in M
  BY <1>1, <1>5
<1> QED BY <1>2, <1>6

\* The loop of restore_previous_txs, step by step.
LEMMA RestoreStep ==
  ASSUME NEW ids \in Seq(Tx)
  PROVE  /\ RestoredTo(ids) \in [0 .. Len(ids) -> Table]
         /\ RestoredTo(ids)[0] = EmptyTable
         /\ \A i \in 1 .. Len(ids) : RestoredTo(ids)[i] = Apply(RestoredTo(ids)[i - 1], ids[i])
<1> DEFINE n == Len(ids)
           step == [i \in 1 .. n |-> [x \in Table |-> Apply(x, ids[i])]]
           Is(f) == f = [i \in 0 .. n |-> IF i = 0 THEN EmptyTable ELSE Apply(f[i - 1], ids[i])]
           tables == RestoredTo(ids)
<1>1. n \in Nat /\ \A i \in 1 .. n : ids[i] \in Tx
  BY LenProperties, ElementOfSeq
<1>2. EmptyTable \in Table /\ \A i \in 1 .. n : \A x \in Table : Apply(x, ids[i]) \in Table
  BY <1>1, EmptyTableType, ApplyLemma
<1>3. step \in [1 .. n -> [Table -> Table]]
  BY <1>2
<1>4. PICK f \in [0 .. n -> Table] : Runs(f, n, EmptyTable, step)
  <2> HIDE DEF n, step
  <2> QED BY <1>1, <1>2, <1>3, RunExists
<1>5. Is(f)
  <2>1. ASSUME NEW i \in 1 .. n PROVE f[i] = Apply(f[i - 1], ids[i])
    <3>1. f[i - 1] \in Table
      BY <1>1, <1>4
    <3> QED BY <1>4, <3>1 DEF Runs
  <2> QED BY <1>1, <1>4, <2>1 DEF Runs
<1>6. tables = CHOOSE g : Is(g)
  BY DEF RestoredTo
<1>7. Is(tables)
  <2> HIDE DEF Is, tables
  <2> QED BY <1>5, <1>6
<1> HIDE DEF tables
<1>8. /\ tables[0] = EmptyTable /\ DOMAIN tables = 0 .. n /\ tables = [i \in 0 .. n |-> tables[i]]
      /\ \A i \in 1 .. n : tables[i] = Apply(tables[i - 1], ids[i])
  BY <1>1, <1>7
<1> DEFINE S == {i \in 0 .. n : tables[i] \in Table}
<1>9. \A i \in 0 .. n : i \in S
  <2>1. 0 \in S
    BY <1>1, <1>2, <1>8
  <2>2. ASSUME NEW i \in 1 .. n, i - 1 \in S PROVE i \in S
    <3>1. tables[i - 1] \in Table /\ i \in 0 .. n
      BY <1>1, <2>2
    <3> QED BY <1>2, <1>8, <3>1
  <2> HIDE DEF S, n
  <2> QED BY <1>1, <2>1, <2>2, UpTo
<1>10. \A i \in 0 .. n : tables[i] \in Table
  BY <1>9
<1> QED BY <1>8, <1>10 DEF tables

\* It leaves, for each key, what the last transaction on the key wrote.
LEMMA RestoredLast ==
  ASSUME NEW ids \in Seq(Tx), NEW k \in Key
  PROVE  /\ (\A j \in 1 .. Len(ids) : ~Touches(ids[j], k)) => Restored(ids)[k] = Absent
         /\ \A j \in 1 .. Len(ids) :
              /\ Touches(ids[j], k)
              /\ \A m \in 1 .. Len(ids) : m > j => ~Touches(ids[m], k)
              => Restored(ids)[k] = Final(ids[j], k)
<1> DEFINE n == Len(ids)
           tables == RestoredTo(ids)
           None(i) == (\A j \in 1 .. i : ~Touches(ids[j], k)) => tables[i][k] = Absent
           Last(i) == \A j \in 1 .. i :
                        Touches(ids[j], k) /\ (\A m \in 1 .. i : m > j => ~Touches(ids[m], k))
                          => tables[i][k] = Final(ids[j], k)
           S == {i \in 0 .. n : None(i) /\ Last(i)}
<1>1. n \in Nat /\ tables \in [0 .. n -> Table] /\ tables[0] = EmptyTable
  BY LenProperties, RestoreStep
<1>2. \A i \in 1 .. n : tables[i] = Apply(tables[i - 1], ids[i])
  BY RestoreStep
<1> HIDE DEF n, tables
<1>3. 0 \in S
  BY <1>1 DEF EmptyTable
<1>4. ASSUME NEW i \in 1 .. n, i - 1 \in S PROVE i \in S
  <2>1. i \in 0 .. n /\ None(i - 1) /\ Last(i - 1)
    BY <1>1, <1>4
  <2>2. tables[i][k] = IF Touches(ids[i], k) THEN Final(ids[i], k) ELSE tables[i - 1][k]
    BY <1>2 DEF Apply
  <2>3. /\ \A j \in 1 .. i : j \in 1 .. i - 1 \/ j = i
        /\ \A j \in 1 .. i - 1 : j \in 1 .. i /\ i > j
        /\ i \in 1 .. i /\ ~(i > i)
    BY <1>1
  <2> HIDE DEF S
  <2>4. None(i)
    BY <2>1, <2>2, <2>3
  <2>5. Last(i)
    BY <2>1, <2>2, <2>3
  <2> QED BY <2>1, <2>4, <2>5 DEF S
<1>5. \A i \in 0 .. n : i \in S
  <2> HIDE DEF S
  <2> QED BY <1>1, <1>3, <1>4, UpTo
<1>6. None(n) /\ Last(n)
  BY <1>1, <1>5
<1>7. Restored(ids) = tables[n]
  BY DEF Restored, tables, n
<1> QED BY <1>6, <1>7 DEF n

\* Replay is what the loop of restore_previous_txs builds.
LEMMA ReplayRestored ==
  ASSUME NEW l \in Seq(Line)
  PROVE  \E lines \in UnfinishedLines(l) :
           /\ UnfinishedLines(l) = {lines}
           /\ Replay(l) = Restored([i \in DOMAIN lines |-> l[lines[i]].tx])
<1> DEFINE n == Len(l)
           O == Open(l)
<1>1. n \in Nat /\ O \in SUBSET (1 .. n) /\ \A i \in O : l[i].tx \in Tx
  <2>1. n \in Nat /\ DOMAIN l = 1 .. n /\ \A i \in 1 .. n : l[i] \in Line
    BY LenProperties, ElementOfSeq
  <2> QED BY <2>1 DEF Open, Line
<1>2. Cardinality(O) \in Nat /\ \E s : Lists(s, O)
  <2> HIDE DEF n, O
  <2> QED BY <1>1, ListExists
<1>3. PICK s : Lists(s, O)
  BY <1>2
<1>4. \A r : Lists(r, O) => s = r
  <2> HIDE DEF n, O
  <2> QED BY <1>1, <1>3, ListUnique
<1>5. UnfinishedLines(l) = {s}
  BY <1>3, <1>4 DEF UnfinishedLines, Lists
<1> DEFINE c == Cardinality(O)
           ids == [i \in DOMAIN s |-> l[s[i]].tx]
<1>6. s \in [1 .. c -> O] /\ Ascending(s) /\ {s[i] : i \in DOMAIN s} = O /\ c \in Nat
  BY <1>2, <1>3 DEF Lists
<1> HIDE DEF n, O, c
<1>7. ids \in Seq(Tx) /\ Len(ids) = c /\ \A i \in 1 .. c : ids[i] = l[s[i]].tx
  <2>1. ids \in [1 .. c -> Tx]
    BY <1>1, <1>6
  <2> HIDE DEF ids
  <2>2. ids \in Seq(Tx)
    BY <1>6, <2>1, IsASeq
  <2>3. Len(ids) \in Nat /\ DOMAIN ids = 1 .. Len(ids) /\ DOMAIN ids = 1 .. c
    BY <2>1, <2>2, LenProperties
  <2>4. Len(ids) = c
    BY <1>6, <2>3
  <2> QED BY <1>6, <2>2, <2>4 DEF ids
<1> HIDE DEF ids
<1>8. ASSUME NEW k \in Key PROVE Replay(l)[k] = Restored(ids)[k]
  <2>1. CASE OpenOn(l, k) = {}
    <3>1. \A j \in 1 .. c : ~Touches(ids[j], k)
      BY <1>6, <1>7, <2>1 DEF OpenOn, O
    <3>2. Restored(ids)[k] = Absent
      BY <1>7, <3>1, RestoredLast
    <3> QED BY <2>1, <3>2 DEF Replay
  <2>2. CASE OpenOn(l, k) # {}
    <3> DEFINE K == OpenOn(l, k)
               m == Latest(K)
    <3>1. m \in K /\ \A i \in K : i <= m
      <4>1. n \in Int /\ K \in SUBSET Int /\ K # {} /\ \A i \in K : i <= n
        BY <1>1, <2>2 DEF OpenOn, O
      <4> HIDE DEF K
      <4> QED BY <4>1, LatestExists
    <3>2. m \in O /\ Touches(l[m].tx, k) /\ \A i \in O : Touches(l[i].tx, k) => i <= m
      BY <3>1 DEF OpenOn, O
    <3>3. Replay(l)[k] = Final(l[m].tx, k)
      BY <2>2 DEF Replay
    <3> HIDE DEF m, K
    <3>4. PICK j \in 1 .. c : s[j] = m
      BY <1>6, <3>2
    <3>5. ASSUME NEW i \in 1 .. c, i > j PROVE ~Touches(ids[i], k)
      <4>1. s[j] < s[i] /\ s[i] \in O
        BY <1>6, <3>5 DEF Ascending
      <4>2. s[i] \in Nat /\ s[j] \in Nat
        <5>1. \A o \in O : o \in Nat
          BY <1>1
        <5> QED BY <1>6, <5>1
      <4>3. ~(s[i] <= m)
        BY <3>4, <4>1, <4>2
      <4> QED BY <1>7, <3>2, <4>1, <4>3
    <3>6. ids[j] = l[m].tx
      BY <1>7, <3>4
    <3>7. Restored(ids)[k] = Final(ids[j], k)
      BY <1>7, <3>2, <3>5, <3>6, RestoredLast
    <3> QED BY <3>3, <3>6, <3>7
  <2> QED BY <2>1, <2>2
<1>9. Replay(l) = Restored(ids)
  <2>1. Restored(ids) \in Table
    BY <1>6, <1>7, RestoreStep DEF Restored
  <2>2. Restored(ids) \in [Key -> Entry] /\ Replay(l) \in [Key -> Entry]
    BY <2>1, ReplayLemma DEF Table
  <2> QED BY <1>8, <2>2
<1> QED BY <1>5, <1>9 DEF ids

\* A payload has some bytes.
LEMMA PayloadType == ASSUME NEW line \in Line PROVE Payload(line) \in Nat /\ Payload(line) > 0
<1>1. ASSUME NEW t \in Tx PROVE BeginBytes(t) \in Nat /\ BeginBytes(t) > 0
  <2> DEFINE ops == Operations[t]
             n == Len(ops)
             Is(f) == f = [i \in 0 .. n |-> IF i = 0 THEN 0 ELSE f[i - 1] + OperationBytes(ops[i])]
             step == [i \in 1 .. n |-> [x \in Nat |-> x + OperationBytes(ops[i])]]
             bytes == OperationsBytes(t)
  <2>1. ops \in Seq(Operation)
    BY OperationsAssumption
  <2>2. n \in Nat
    BY <2>1, LenProperties
  <2>3. \A i \in 1 .. n : OperationBytes(ops[i]) \in Nat
    BY SizeAssumption DEF OperationBytes
  <2>4. step \in [1 .. n -> [Nat -> Nat]] /\ 0 \in Nat
    BY <2>3
  <2>5. PICK f \in [0 .. n -> Nat] : Runs(f, n, 0, step)
    <3> HIDE DEF n, step
    <3> QED BY <2>2, <2>4, RunExists
  <2>6. Is(f)
    <3>1. ASSUME NEW i \in 1 .. n PROVE f[i] = f[i - 1] + OperationBytes(ops[i])
      <4>0. i - 1 \in 0 .. n
        BY <2>2
      <4>1. f[i - 1] \in Nat
        BY <2>5, <4>0
      <4> QED BY <2>5, <4>1 DEF Runs
    <3> QED BY <2>2, <2>5, <3>1 DEF Runs
  <2>7. bytes = CHOOSE g : Is(g)
    BY DEF OperationsBytes
  <2>8. Is(bytes)
    <3> HIDE DEF Is, bytes
    <3> QED BY <2>6, <2>7
  <2> HIDE DEF bytes
  <2> DEFINE S == {i \in 0 .. n : bytes[i] \in Nat}
  <2>9. \A i \in 0 .. n : i \in S
    <3>1. 0 \in S
      BY <2>2, <2>8
    <3>2. ASSUME NEW i \in 1 .. n, i - 1 \in S PROVE i \in S
      <4>1. bytes[i - 1] \in Nat /\ i \in 0 .. n /\ bytes[i] = bytes[i - 1] + OperationBytes(ops[i])
        BY <2>2, <2>8, <3>2
      <4> QED BY <2>3, <4>1
    <3> HIDE DEF S, n
    <3> QED BY <2>2, <3>1, <3>2, UpTo
  <2>10. bytes[n] \in Nat
    BY <2>2, <2>9
  <2> HIDE DEF n
  <2>11. BeginBytes(t) = 4 + 8 + 16 + 8 + bytes[n]
    BY DEF BeginBytes, bytes, n
  <2> QED BY <2>10, <2>11
<1> QED BY <1>1 DEF Payload, EndBytes, Line

\* The lines of the log follow each other in the file.
LEMMA EndsGrow ==
  ASSUME NEW l \in Seq(Line)
  PROVE  /\ \A i \in 0 .. Len(l) : Ends(l)[i] \in Nat
         /\ \A i \in 1 .. Len(l) : Ends(l)[i] = Ends(l)[i - 1] + HeaderBytes + Payload(l[i])
         /\ \A i \in 0 .. Len(l) : Ends(l)[i] <= Ends(l)[Len(l)]
<1> DEFINE n == Len(l)
           Is(f) == f = [i \in 0 .. n |-> IF i = 0 THEN 0 ELSE f[i - 1] + HeaderBytes + Payload(l[i])]
           step == [i \in 1 .. n |-> [x \in Nat |-> x + HeaderBytes + Payload(l[i])]]
           end == Ends(l)
<1>1. n \in Nat /\ HeaderBytes \in Nat /\ \A i \in 1 .. n : Payload(l[i]) \in Nat
  BY LenProperties, ElementOfSeq, PayloadType DEF HeaderBytes
<1>2. step \in [1 .. n -> [Nat -> Nat]] /\ 0 \in Nat
  BY <1>1
<1>3. PICK f \in [0 .. n -> Nat] : Runs(f, n, 0, step)
  <2> HIDE DEF n, step
  <2> QED BY <1>1, <1>2, RunExists
<1>4. Is(f)
  <2>1. ASSUME NEW i \in 1 .. n PROVE f[i] = f[i - 1] + HeaderBytes + Payload(l[i])
    <3>0. i - 1 \in 0 .. n
      BY <1>1
    <3>1. f[i - 1] \in Nat
      BY <1>3, <3>0
    <3> QED BY <1>3, <3>1 DEF Runs
  <2> QED BY <1>1, <1>3, <2>1 DEF Runs
<1>5. end = CHOOSE g : Is(g)
  BY DEF Ends
<1>6. Is(end)
  <2> HIDE DEF Is, end
  <2> QED BY <1>4, <1>5
<1> HIDE DEF end
<1>7. end[0] = 0 /\ \A i \in 1 .. n : end[i] = end[i - 1] + HeaderBytes + Payload(l[i])
  BY <1>1, <1>6
<1> HIDE DEF n
<1> DEFINE S == {i \in 0 .. n : end[i] \in Nat}
           G == {i \in 0 .. n : \A j \in 0 .. i : end[j] <= end[i]}
<1>8. \A i \in 0 .. n : i \in S
  <2>1. 0 \in S
    BY <1>1, <1>7
  <2>2. ASSUME NEW i \in 1 .. n, i - 1 \in S PROVE i \in S
    <3>1. end[i - 1] \in Nat /\ i \in 0 .. n
      BY <1>1, <2>2
    <3>2. end[i] \in Nat
      BY <1>1, <1>7, <3>1
    <3> QED BY <3>1, <3>2
  <2> HIDE DEF S
  <2> QED BY <1>1, <2>1, <2>2, UpTo
<1>9. \A i \in 0 .. n : i \in G
  <2>1. 0 \in G
    BY <1>1, <1>7
  <2>2. ASSUME NEW i \in 1 .. n, i - 1 \in G PROVE i \in G
    <3>1. end[i - 1] \in Nat /\ end[i] \in Nat /\ i \in 0 .. n
      BY <1>1, <1>8
    <3>2. end[i - 1] <= end[i]
      BY <1>1, <1>7, <3>1
    <3>3. ASSUME NEW j \in 0 .. i PROVE end[j] <= end[i]
      <4>1. CASE j = i
        BY <3>1, <4>1
      <4>2. CASE j \in 0 .. i - 1
        <5>1. end[j] <= end[i - 1]
          BY <2>2, <4>2
        <5>2. end[j] \in Nat
          BY <1>1, <1>8, <4>2
        <5> QED BY <3>1, <3>2, <5>1, <5>2
      <4> QED BY <1>1, <4>1, <4>2
    <3> QED BY <3>1, <3>3
  <2> HIDE DEF G
  <2> QED BY <1>1, <2>1, <2>2, UpTo
<1>10. n \in G
  BY <1>1, <1>9
<1> QED BY <1>7, <1>8, <1>10 DEF end, n

\* In a file no longer than the buffer every payload is in one buffer.
LEMMA WholeLogDecodes ==
  ASSUME NEW l \in Seq(Line), Ends(l)[Len(l)] <= BufCap,
         \A i \in DOMAIN l : l[i].type \in {"begin", "end"} /\ Payload(l[i]) <= ReadChunk
  PROVE  Decodes(l)
<1> SUFFICES ASSUME NEW i \in DOMAIN l PROVE OneRead(l, i)
  BY DEF Decodes, DecodesAt
<1> DEFINE a == Ends(l)[i - 1]
           b == Ends(l)[i]
           z == Ends(l)[Len(l)]
           p == Payload(l[i])
<1>1. Len(l) \in Nat /\ i \in 1 .. Len(l) /\ p \in Nat /\ p > 0 /\ p <= ReadChunk /\ BufCap \in Nat \ {0}
  BY LenProperties, ElementOfSeq, PayloadType, SizeAssumption
<1>2. i \in 0 .. Len(l) /\ i - 1 \in 0 .. Len(l) /\ Len(l) \in 0 .. Len(l)
  BY <1>1
<1>3. a \in Nat /\ b \in Nat /\ z \in Nat /\ b = a + HeaderBytes + p /\ b <= z /\ z <= BufCap
  BY <1>1, <1>2, EndsGrow
<1>4. OneRead(l, i) <=> p <= ReadChunk /\ (a + HeaderBytes) \div BufCap = (a + HeaderBytes + p - 1) \div BufCap
  BY DEF OneRead, Offset
<1> HIDE DEF a, b, z, p
<1>5. ASSUME NEW x \in 0 .. BufCap - 1 PROVE x \div BufCap = 0
  <2>1. PICK c \in Nat \ {0} : c = BufCap
    BY <1>1
  <2>2. x \in Nat /\ x < c
    BY <2>1
  <2>3. x \div c = 0
    BY <2>2
  <2> QED BY <2>1, <2>3
<1>6. a + HeaderBytes \in 0 .. BufCap - 1 /\ a + HeaderBytes + p - 1 \in 0 .. BufCap - 1
  BY <1>1, <1>3 DEF HeaderBytes
<1>7. (a + HeaderBytes) \div BufCap = 0 /\ (a + HeaderBytes + p - 1) \div BufCap = 0
  BY <1>5, <1>6
<1> QED BY <1>1, <1>4, <1>7

(***************************************************************************)
(* For every log a start can find, the open lines are those the loop of    *)
(* get_unfinished_transactions is left with.                               *)
(***************************************************************************)
THEOREM RecoveryFindsOpen == Spec => []OpenIsLoop
<1>1. TypeOK => OpenIsLoop
  BY LoopLines DEF TypeOK, OpenIsLoop
<1> QED BY <1>1, TypeCorrect, PTL

(***************************************************************************)
(* For every log a start can find, restore_previous_txs replays the open   *)
(* transactions in one order only, and builds the table Replay defines.    *)
(***************************************************************************)
THEOREM RecoveryReplays == Spec => []ReplayIsRestore
<1>1. TypeOK => ReplayIsRestore
  BY ReplayRestored DEF TypeOK, ReplayIsRestore
<1> QED BY <1>1, TypeCorrect, PTL

(***************************************************************************)
(* A log of whole lines that fits the buffer, and whose payloads fit one   *)
(* read, is read back by decode_from to its end.                           *)
(***************************************************************************)
THEOREM ShortLogDecodes == Spec => []LogDecodes
<1>1. TypeOK => LogDecodes
  BY WholeLogDecodes DEF TypeOK, LogDecodes
<1> QED BY <1>1, TypeCorrect, PTL

=============================================================================
