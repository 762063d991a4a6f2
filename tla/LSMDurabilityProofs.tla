------------------------ MODULE LSMDurabilityProofs ------------------------
(***************************************************************************)
(* Durability of acknowledged transactions, for every set of keys and      *)
(* transactions, any number of crashes and I/O errors and any clock.       *)
(***************************************************************************)
EXTENDS LSMStoreProofs

(***************************************************************************)
(* What a step does to the log: nothing, or one more line, which is a      *)
(* BeginTx of a transaction that was new, the EndTx of the id that the     *)
(* EndTx loop of write_sstable has come to, or a line cut short.           *)
(***************************************************************************)
NewLine(e) ==
  \/ e.type = "begin" /\ tx[e.tx] = "new" /\ tx'[e.tx] # "new"
  \/ /\ e.type = "end" /\ flush.pc = "ending"
     /\ flush.ended + 1 \in DOMAIN txIds /\ txIds[flush.ended + 1] = e.tx
  \/ e.type \in {"short_header", "short_body"}

\* What a write cut short leaves is neither a BeginTx nor an EndTx line.
LEMMA CutLine ==
  ASSUME NEW line \in Line, NEW e \in Cut(line)
  PROVE  e.type \in {"short_header", "short_body"}
BY DEF Cut, Line

\* Every step leaves the commit log alone or appends one NewLine.
LEMMA LogStep ==
  ASSUME TypeOK, [Next]_vars
  PROVE  log' = log \/ \E e \in Line : log' = Append(log, e) /\ NewLine(e)
<1>1. CASE Crash
  <2>1. CASE log' = log
    BY <2>1
  <2>2. ASSUME NEW line \in LinesInFlight, NEW e \in {line} \cup Cut(line), e \in Line,
               log' = Append(log, e), tx[line.tx] = "new" => tx'[line.tx] = "failed"
        PROVE  NewLine(e)
    BY <2>2, InFlightLine, CutLine DEF NewLine
  <2> QED BY <1>1, <2>1, <2>2, CrashLog
<1>2. ASSUME NEW t \in Tx, BeginTransaction(t)
      PROVE  log' = Append(log, BeginTx(t)) /\ BeginTx(t) \in Line /\ NewLine(BeginTx(t))
  <2>1. tx'[t] = "logged"
    BY <1>2 DEF BeginTransaction, TypeOK
  <2> QED BY <1>2, <2>1, LineTypes DEF BeginTransaction, CanBegin, NewLine, BeginTx
<1>3. ASSUME NEW t \in Tx, BeginFails(t)
      PROVE  log' = log \/ \E e \in Line : log' = Append(log, e) /\ NewLine(e)
  <2> DEFINE line == BeginTx(t)
  <2>1. line \in Line /\ line.type = "begin" /\ line.tx = t
    BY LineTypes DEF BeginTx
  <2>2. tx[t] = "new" /\ tx'[t] = "failed"
    BY <1>3 DEF BeginFails, CanBegin, TypeOK
  <2>3. PICK rest \in Leftovers(line) : log' = log \o rest
    BY <1>3 DEF BeginFails
  <2>4. \A e \in {line} \cup Cut(line) : NewLine(e)
    <3> HIDE DEF line
    <3> QED BY <2>1, <2>2, CutLine DEF NewLine
  <2>5. log \in Seq(Line)
    BY DEF TypeOK
  <2> HIDE DEF line
  <2> QED BY <2>1, <2>3, <2>4, <2>5, LeftoversLemma
<1>4. CASE EndTransaction
  <2> DEFINE line == EndTx(txIds[flush.ended + 1])
  <2>1. flush.ended + 1 \in DOMAIN txIds /\ txIds[flush.ended + 1] \in Tx
    BY <1>4, NextIdType DEF EndTransaction
  <2>2. line \in Line /\ NewLine(line)
    BY <1>4, <2>1, LineTypes DEF NewLine, EndTransaction, EndTx
  <2> QED BY <1>4, <2>2 DEF EndTransaction
<1>5. CASE EndFails
  <2> DEFINE line == EndTx(txIds[flush.ended + 1])
  <2>1. flush.ended + 1 \in DOMAIN txIds /\ txIds[flush.ended + 1] \in Tx
    BY <1>5, NextIdType DEF EndFails
  <2>2. line \in Line /\ NewLine(line)
    BY <1>5, <2>1, LineTypes DEF NewLine, EndFails, EndTx
  <2>3. PICK rest \in Leftovers(line) : log' = log \o rest
    BY <1>5 DEF EndFails
  <2>4. \A e \in {line} \cup Cut(line) : NewLine(e)
    <3> HIDE DEF line
    <3> QED BY <2>2, CutLine DEF NewLine
  <2>5. log \in Seq(Line)
    BY DEF TypeOK
  <2> HIDE DEF line
  <2> QED BY <2>2, <2>3, <2>4, <2>5, LeftoversLemma
<1>6. CASE \/ UNCHANGED vars \/ Initialize \/ InitializeFails
           \/ BgCheck \/ BgSize \/ Signal \/ BloomStep
           \/ FlushWrite \/ FlushWriteFails \/ FlushReturn
  BY <1>6 DEF vars, disk, Initialize, InitializeFails, BgCheck, BgSize, Signal, BloomStep,
       SkipBloomMap, OpenBloomMap, WriteBloomMap, WriteBloomMapFails, FlushWrite,
       FlushWriteFails, FlushReturn
<1>7. ASSUME NEW by \in Caller, FlushStart(by) PROVE log' = log
  BY <1>7 DEF FlushStart, FlushEmpty, FlushExists, FlushCreate, disk
<1>8. ASSUME NEW t \in Tx, ApplyTransaction(t) PROVE log' = log
  BY <1>8 DEF ApplyTransaction, disk
<1> QED BY <1>1, <1>2, <1>3, <1>4, <1>5, <1>6, <1>7, <1>8
        DEF Next, Transact, Background, Shutdown, FlushRest, Caller

(***************************************************************************)
(* What a step does to a client: a transaction is never new again, and it  *)
(* is logged or acknowledged only once its BeginTx line is in the log.     *)
(***************************************************************************)
LEMMA TxStep ==
  ASSUME TypeOK, [Next]_vars, NEW t \in Tx
  PROVE  /\ tx[t] # "new" => tx'[t] # "new"
         /\ tx'[t] \in {"logged", "acked"} =>
              tx[t] \in {"logged", "acked"} \/ log' = Append(log, BeginTx(t))
<1>1. CASE Crash
  <2>1. \A u \in Tx : Interrupted[u] = IF tx[u] = "logged" THEN "failed" ELSE tx[u]
    BY DEF Interrupted
  <2>2. CASE tx' = Interrupted
    BY <2>1, <2>2
  <2>3. ASSUME NEW u \in Tx, tx' = [Interrupted EXCEPT ![u] = "failed"]
        PROVE  /\ tx[t] # "new" => tx'[t] # "new"
               /\ tx'[t] \in {"logged", "acked"} => tx[t] \in {"logged", "acked"}
    BY <2>1, <2>3 DEF Interrupted
  <2>4. \A line \in LinesInFlight : line.tx \in Tx
    BY InFlightLine DEF Line
  <2> QED BY <1>1, <2>2, <2>3, <2>4 DEF Crash
<1>2. ASSUME NEW u \in Tx, Transact(u)
      PROVE  /\ tx[t] # "new" => tx'[t] # "new"
             /\ tx'[t] \in {"logged", "acked"} =>
                  tx[t] \in {"logged", "acked"} \/ log' = Append(log, BeginTx(t))
  BY <1>2 DEF Transact, BeginTransaction, BeginFails, ApplyTransaction, CanBegin, TypeOK
<1>3. CASE \/ UNCHANGED vars \/ Initialize \/ InitializeFails
           \/ BgCheck \/ BgSize \/ Signal \/ BloomStep \/ FlushRest
  BY <1>3 DEF vars, clients, Initialize, InitializeFails, BgCheck, BgSize, Signal, BloomStep,
       SkipBloomMap, OpenBloomMap, WriteBloomMap, WriteBloomMapFails, FlushRest, FlushWrite,
       FlushWriteFails, EndTransaction, EndFails, FlushReturn
<1>4. ASSUME NEW by \in Caller, FlushStart(by) PROVE tx' = tx
  BY <1>4 DEF FlushStart, FlushEmpty, FlushExists, FlushCreate, clients
<1> QED BY <1>1, <1>2, <1>3, <1>4 DEF Next, Background, Shutdown, Caller

(***************************************************************************)
(* A step never takes a complete table away: the only file it changes is   *)
(* the one being written, which is not complete.                           *)
(***************************************************************************)
LEMMA TableStep ==
  ASSUME TypeOK, FlushConsistent, [Next]_vars
  PROVE  \A p \in DOMAIN sst : sst[p].status = "full" => p \in DOMAIN sst' /\ sst'[p] = sst[p]
<1>1. ASSUME flush.pc = "writing", NEW s \in Status,
             sst' = [sst EXCEPT ![flush.path].status = s]
      PROVE  \A p \in DOMAIN sst : sst[p].status = "full" => p \in DOMAIN sst' /\ sst'[p] = sst[p]
  BY <1>1, StatusType DEF FlushConsistent
<1>2. CASE Crash
  BY <1>1, <1>2 DEF Crash
<1>3. ASSUME NEW by \in Caller, FlushStart(by)
      PROVE  \A p \in DOMAIN sst : p \in DOMAIN sst' /\ sst'[p] = sst[p]
  BY <1>3 DEF FlushStart, FlushEmpty, FlushExists, FlushCreate, With, disk
<1>4. CASE FlushWrite
  BY <1>1, <1>4 DEF FlushWrite, Status
<1>5. CASE FlushWriteFails
  BY <1>1, <1>5 DEF FlushWriteFails
<1>6. ASSUME NEW t \in Tx, Transact(t) PROVE sst' = sst
  BY <1>6 DEF Transact, BeginTransaction, BeginFails, ApplyTransaction, disk
<1>7. CASE \/ UNCHANGED vars \/ Initialize \/ InitializeFails
           \/ BgCheck \/ BgSize \/ Signal \/ BloomStep
           \/ EndTransaction \/ EndFails \/ FlushReturn
  BY <1>7 DEF vars, disk, Initialize, InitializeFails, BgCheck, BgSize, Signal, BloomStep,
       SkipBloomMap, OpenBloomMap, WriteBloomMap, WriteBloomMapFails,
       EndTransaction, EndFails, FlushReturn
<1> QED BY <1>2, <1>3, <1>4, <1>5, <1>6, <1>7 DEF Next, Background, Shutdown, FlushRest, Caller

\* A key held by a complete table stays held by one (SSTables are never deleted).
LEMMA FullTablesStep ==
  ASSUME TypeOK, FlushConsistent, [Next]_vars, NEW k \in Key, FullTables(k) # {}
  PROVE  FullTables(k)' # {}
BY TableStep DEF FullTables

-----------------------------------------------------------------------------
(***************************************************************************)
(* Each conjunct of DurabilityInv is preserved.                            *)
(***************************************************************************)

\* The commit log is append-only: a line never moves or changes.
LEMMA LogGrows ==
  ASSUME TypeOK, [Next]_vars
  PROVE  /\ DOMAIN log \subseteq DOMAIN log'
         /\ \A i \in DOMAIN log : log'[i] = log[i]
<1>1. ASSUME NEW e \in Line, log' = Append(log, e)
      PROVE  DOMAIN log \subseteq DOMAIN log' /\ \A i \in DOMAIN log : log'[i] = log[i]
  BY <1>1, AppendLine DEF TypeOK
<1> QED BY <1>1, LogStep

\* do_transact has logged what it is applying or has acknowledged.
LEMMA BeginsLoggedStep ==
  ASSUME TypeOK, BeginsLogged, [Next]_vars
  PROVE  BeginsLogged'
<1> SUFFICES ASSUME NEW t \in Tx, tx'[t] \in {"logged", "acked"}
             PROVE  \E i \in DOMAIN log' : log'[i] = BeginTx(t)
  BY DEF BeginsLogged, BeginTx
<1>1. CASE tx[t] \in {"logged", "acked"}
  BY <1>1, LogGrows DEF BeginsLogged
<1>2. CASE log' = Append(log, BeginTx(t))
  <2>1. DOMAIN log' = 1 .. (Len(log) + 1) /\ Len(log) \in Nat /\ log'[Len(log) + 1] = BeginTx(t)
    BY <1>2, LineTypes, AppendLine DEF TypeOK
  <2> QED BY <2>1
<1> QED BY <1>1, <1>2, TxStep

\* The lines of the new log are the old ones and, at the end, the new one.
LEMMA NewLog ==
  ASSUME TypeOK, NEW e \in Line, log' = Append(log, e), NEW i \in DOMAIN log'
  PROVE  \/ i \in DOMAIN log /\ log'[i] = log[i]
         \/ i = Len(log) + 1 /\ log'[i] = e
<1>1. /\ DOMAIN log' = 1 .. (Len(log) + 1) /\ DOMAIN log = 1 .. Len(log) /\ Len(log) \in Nat
      /\ log'[Len(log) + 1] = e
      /\ \A j \in DOMAIN log : log'[j] = log[j]
  BY AppendLine DEF TypeOK
<1>2. i \in DOMAIN log \/ i = Len(log) + 1
  BY <1>1
<1>3. CASE i \in DOMAIN log
  BY <1>1, <1>3
<1>4. CASE i = Len(log) + 1
  BY <1>1, <1>4
<1> QED BY <1>2, <1>3, <1>4

\* Every line of the log carries a transaction id.
LEMMA LogTxs ==
  ASSUME TypeOK
  PROVE  \A i \in DOMAIN log : log[i] \in Line /\ log[i].tx \in Tx
<1>1. log \in Seq(Line)
  BY DEF TypeOK
<1>2. \A i \in DOMAIN log : log[i] \in Line
  BY <1>1, LenProperties, ElementOfSeq
<1> QED BY <1>2 DEF Line

\* begin_transaction is called once for each transaction id.
LEMMA BeginsOnceStep ==
  ASSUME TypeOK, BeginsOnce, [Next]_vars
  PROVE  BeginsOnce'
<1>1. \A i \in DOMAIN log : log[i].tx \in Tx
  BY LogTxs
<1>2. \A i \in DOMAIN log : log[i].type = "begin" => tx[log[i].tx] # "new" /\ tx'[log[i].tx] # "new"
  BY <1>1, TxStep DEF BeginsOnce
<1>3. CASE log' = log
  BY <1>2, <1>3 DEF BeginsOnce
<1>4. ASSUME NEW e \in Line, log' = Append(log, e), NewLine(e)
      PROVE  BeginsOnce'
  <2>1. ASSUME NEW i \in DOMAIN log', NEW j \in DOMAIN log',
               log'[i].type = "begin", log'[j].type = "begin", log'[i].tx = log'[j].tx
        PROVE  i = j
    <3>1. CASE e.type = "begin"
      BY <1>2, <1>4, <2>1, <3>1, NewLog DEF BeginsOnce, NewLine
    <3>2. CASE e.type # "begin"
      BY <1>4, <2>1, <3>2, NewLog DEF BeginsOnce
    <3> QED BY <3>1, <3>2
  <2>2. ASSUME NEW i \in DOMAIN log', log'[i].type = "begin"
        PROVE  tx'[log'[i].tx] # "new"
    BY <1>2, <1>4, <2>2, NewLog DEF NewLine
  <2> QED BY <2>1, <2>2 DEF BeginsOnce
<1> QED BY <1>3, <1>4, LogStep

\* What complete tables hold of a transaction they go on holding.
LEMMA StoredStep ==
  ASSUME TypeOK, FlushConsistent, [Next]_vars
  PROVE  \A t \in Tx : Stored(t) => Stored(t)'
BY FullTablesStep DEF Stored, Touches, OpsOn

\* While the EndTx loop runs, everything in tx_ids is in complete tables.
LEMMA EndingStored ==
  ASSUME IdsHeld, FlushConsistent, flush.pc = "ending", NEW i \in DOMAIN txIds
  PROVE  Stored(txIds[i])
BY DEF IdsHeld, FlushConsistent, Stored, EmptyTable

\* write_sstable logs EndTx only once complete tables hold the transaction.
LEMMA EndsStoredStep ==
  ASSUME TypeOK, EndsStored, IdsHeld, FlushConsistent, [Next]_vars
  PROVE  EndsStored'
<1>1. \A t \in Tx, i \in DOMAIN log : log[i].type = "end" /\ log[i].tx = t => Stored(t)'
  BY StoredStep DEF EndsStored
<1>2. CASE log' = log
  BY <1>1, <1>2, LogTxs DEF EndsStored
<1>3. ASSUME NEW e \in Line, log' = Append(log, e), NewLine(e), e.type = "end"
      PROVE  Stored(e.tx)'
  <2>1. Stored(e.tx) /\ e.tx \in Tx
    BY <1>3, EndingStored DEF NewLine, Line
  <2> QED BY <2>1, StoredStep
<1>4. ASSUME NEW e \in Line, log' = Append(log, e), NewLine(e)
      PROVE  EndsStored'
  <2> SUFFICES ASSUME NEW i \in DOMAIN log', NEW t \in Tx, log'[i].type = "end", log'[i].tx = t
               PROVE  Stored(t)'
    <3>1. \A i \in DOMAIN log' : log'[i].tx \in Tx
      BY <1>4, NewLog, LogTxs DEF Line
    <3> QED BY <3>1 DEF EndsStored
  <2> QED BY <1>1, <1>3, <1>4, NewLog
<1> QED BY <1>2, <1>4, LogStep

\* NoFlush: no write_sstable call holds the data lock.
LEMMA NoFlushIdle == NoFlush.pc = "idle"
BY DEF NoFlush

\* The steps that leave what FlushConsistent and IdsHeld speak of alone.
Idle ==
  \/ UNCHANGED vars \/ InitializeFails \/ BgCheck \/ BgSize \/ Signal \/ BloomStep
  \/ \E t \in Tx : BeginTransaction(t) \/ BeginFails(t)
  \/ \E by \in Caller : FlushEmpty(by) \/ FlushExists(by)

\* Those steps touch neither the memtable, tx_ids and SSTables nor the flush.
LEMMA IdleStep ==
  ASSUME Idle
  PROVE  /\ UNCHANGED <<memtable, txIds, flush, sst>>
         /\ flush.pc # "idle" /\ mode = "up" => mode' = "up"
BY DEF Idle, vars, volatile, disk, InitializeFails, BgCheck, BgSize, Signal, BloomStep,
       SkipBloomMap, OpenBloomMap, WriteBloomMap, WriteBloomMapFails,
       BeginTransaction, BeginFails, FlushEmpty, FlushExists

\* From its first step to its last, write_sstable owns the memtable it writes.
LEMMA FlushConsistentStep ==
  ASSUME TypeOK, FlushConsistent, [Next]_vars
  PROVE  FlushConsistent'
<1>1. CASE Idle
  BY <1>1, IdleStep DEF FlushConsistent
<1>2. CASE Initialize
  BY <1>2 DEF Initialize, FlushConsistent, disk
<1>3. CASE Crash \/ FlushWriteFails \/ EndFails \/ FlushReturn
  <2>1. flush' = NoFlush
    BY <1>3 DEF Crash, FlushWriteFails, EndFails, FlushReturn
  <2> QED BY <2>1, NoFlushIdle DEF FlushConsistent
<1>4. ASSUME NEW t \in Tx, ApplyTransaction(t) PROVE FlushConsistent'
  BY <1>4 DEF ApplyTransaction, DataUnlocked, FlushConsistent
<1>5. ASSUME NEW by \in Caller, FlushCreate(by) PROVE FlushConsistent'
  <2>1. /\ flush'.pc = "writing" /\ flush'.path = now' /\ memtable' = memtable
        /\ mode' = "up"
        /\ sst'[now'] = [status |-> "torn", table |-> memtable]
    BY <1>5 DEF FlushCreate, Wants, With
  <2> QED BY <2>1 DEF FlushConsistent
<1>6. CASE FlushWrite
  <2>1. flush'.pc = "ending" /\ memtable' = EmptyTable /\ mode' = "up"
    BY <1>6 DEF FlushWrite, FlushConsistent, TypeOK
  <2> QED BY <2>1 DEF FlushConsistent
<1>7. CASE EndTransaction
  <2>1. flush'.pc = "ending" /\ memtable' = memtable /\ mode' = mode
    BY <1>7 DEF EndTransaction, TypeOK
  <2> QED BY <1>7, <2>1 DEF EndTransaction, FlushConsistent
<1> QED BY <1>1, <1>2, <1>3, <1>4, <1>5, <1>6, <1>7
        DEF Next, Transact, Background, Shutdown, FlushStart, FlushRest, Caller, Idle

\* The ids after tx_ids.push(t) are the old ones and t.
LEMMA AppendId ==
  ASSUME TypeOK, NEW t \in Tx, txIds' = Append(txIds, t), NEW i \in DOMAIN txIds'
  PROVE  \/ i \in DOMAIN txIds /\ txIds'[i] = txIds[i]
         \/ txIds'[i] = t
<1>1. txIds \in Seq(Tx)
  BY DEF TypeOK
<1>2. /\ DOMAIN txIds = 1 .. Len(txIds) /\ Len(txIds) \in Nat
      /\ DOMAIN txIds' = 1 .. (Len(txIds) + 1)
      /\ txIds'[Len(txIds) + 1] = t
      /\ \A j \in 1 .. Len(txIds) : txIds'[j] = txIds[j]
  BY <1>1, AppendProperties, LenProperties
<1>3. i \in 1 .. Len(txIds) \/ i = Len(txIds) + 1
  BY <1>2
<1>4. CASE i \in 1 .. Len(txIds)
  BY <1>2, <1>4
<1>5. CASE i = Len(txIds) + 1
  BY <1>2, <1>5
<1> QED BY <1>3, <1>4, <1>5

\* The transactions of tx_ids are in the memtable or in complete tables.
LEMMA IdsHeldStep ==
  ASSUME TypeOK, IdsHeld, FlushConsistent, [Next]_vars
  PROVE  IdsHeld'
<1>1. \A k \in Key : FullTables(k) # {} => FullTables(k)' # {}
  BY FullTablesStep
<1>2. CASE UNCHANGED <<memtable, txIds>>
  BY <1>1, <1>2 DEF IdsHeld
<1>3. CASE txIds' = <<>>
  BY <1>3 DEF IdsHeld
<1>4. CASE Initialize
  <2>1. PICK lines \in UnfinishedLines(log) :
          txIds' = [i \in DOMAIN lines |-> log[lines[i]].tx]
    BY <1>4 DEF Initialize
  <2>2. memtable' = Replay(log) /\ log \in Seq(Line)
    BY <1>4 DEF Initialize, TypeOK
  <2>3. \A i \in DOMAIN lines : lines[i] \in Open(log)
    BY <2>2, UnfinishedLemma
  <2>4. \A i \in DOMAIN txIds', k \in Key : Touches(txIds'[i], k) => memtable'[k] # Absent
    BY <2>1, <2>2, <2>3, ReplayLemma
  <2> QED BY <2>4 DEF IdsHeld
<1>5. ASSUME NEW t \in Tx, ApplyTransaction(t) PROVE IdsHeld'
  <2>1. txIds' = Append(txIds, t) /\ memtable' = Apply(memtable, t)
    BY <1>5 DEF ApplyTransaction
  <2>2. \A k \in Key : /\ Touches(t, k) => memtable'[k] # Absent
                       /\ ~Touches(t, k) => memtable'[k] = memtable[k]
    BY <2>1, FinalIsValue DEF Apply
  <2>3. ASSUME NEW i \in DOMAIN txIds', NEW k \in Key, Touches(txIds'[i], k)
        PROVE  memtable'[k] # Absent \/ FullTables(k)' # {}
    <3>1. CASE txIds'[i] = t
      BY <2>2, <2>3, <3>1
    <3>2. CASE i \in DOMAIN txIds /\ txIds'[i] = txIds[i]
      <4>1. memtable[k] # Absent \/ FullTables(k) # {}
        BY <2>3, <3>2 DEF IdsHeld
      <4>2. CASE Touches(t, k)
        BY <2>2, <4>2
      <4>3. CASE ~Touches(t, k)
        BY <1>1, <2>2, <4>1, <4>3
      <4> QED BY <4>2, <4>3
    <3> QED BY <2>1, <3>1, <3>2, AppendId
  <2> QED BY <2>3 DEF IdsHeld
<1>6. CASE FlushWrite
  <2>1. /\ flush.path \in DOMAIN sst' /\ flush.path \in DOMAIN sst
        /\ sst'[flush.path].status = "full" /\ sst'[flush.path].table = memtable
    <3>1. flush.path \in DOMAIN sst /\ sst[flush.path] = [status |-> "torn", table |-> memtable]
      BY <1>6 DEF FlushWrite, FlushConsistent, TypeOK
    <3>2. sst' = [sst EXCEPT ![flush.path].status = "full"]
      BY <1>6 DEF FlushWrite
    <3> QED BY <3>1, <3>2
  <2>2. \A k \in Key : memtable[k] # Absent => flush.path \in FullTables(k)'
    BY <2>1 DEF FullTables, FileKeys, KeysOf
  <2>3. txIds' = txIds
    BY <1>6 DEF FlushWrite
  <2> QED BY <1>1, <2>2, <2>3 DEF IdsHeld
<1>7. CASE Idle
  BY <1>2, <1>7, IdleStep
<1>8. CASE Crash \/ FlushReturn
  BY <1>3, <1>8 DEF Crash, FlushReturn
<1>9. CASE FlushWriteFails \/ EndTransaction \/ EndFails
  BY <1>2, <1>9 DEF FlushWriteFails, EndTransaction, EndFails
<1>10. ASSUME NEW by \in Caller, FlushCreate(by) PROVE IdsHeld'
  BY <1>2, <1>10 DEF FlushCreate
<1> QED BY <1>4, <1>5, <1>6, <1>7, <1>8, <1>9, <1>10
        DEF Next, Transact, Background, Shutdown, FlushStart, FlushRest, Caller, Idle

-----------------------------------------------------------------------------
(***************************************************************************)
(* The theorems.                                                           *)
(***************************************************************************)

\* The empty log, memtable and data_dir of a first start satisfy the invariant.
LEMMA InitDurability == Init => DurabilityInv
<1> SUFFICES ASSUME Init PROVE DurabilityInv
  OBVIOUS
<1>1. DOMAIN log = {} /\ DOMAIN txIds = {} /\ flush.pc = "idle"
  BY NoFlushIdle, EmptySeq DEF Init
<1>2. \A t \in Tx : tx[t] = "new"
  BY DEF Init
<1> QED BY <1>1, <1>2
        DEF DurabilityInv, BeginsLogged, BeginsOnce, EndsStored, IdsHeld, FlushConsistent

(***************************************************************************)
(* DurabilityInv gives AckedIsDurable: the one BeginTx line of the         *)
(* transaction is open unless an EndTx line closes it, and then complete   *)
(* tables hold all it wrote.                                               *)
(***************************************************************************)
LEMMA InvIsDurable == TypeOK /\ DurabilityInv => AckedIsDurable
<1> SUFFICES ASSUME TypeOK, DurabilityInv, NEW t \in Tx, tx[t] = "acked"
             PROVE  Stored(t) \/ \E i \in Open(log) : log[i].tx = t
  BY DEF AckedIsDurable
<1>1. PICK i \in DOMAIN log : log[i] = BeginTx(t)
  BY DEF DurabilityInv, BeginsLogged
<1>2. log[i].type = "begin" /\ log[i].tx = t
  BY <1>1 DEF BeginTx
<1>3. CASE i \in Open(log)
  BY <1>2, <1>3
<1>4. CASE i \notin Open(log)
  <2>1. PICK j \in DOMAIN log : j > i /\ log[j].type \in {"begin", "end"} /\ log[j].tx = t
    BY <1>2, <1>4 DEF Open
  <2>2. i \in Int /\ j \in Int
    BY LenProperties DEF TypeOK
  <2>3. log[j].type = "end"
    BY <1>2, <2>1, <2>2 DEF DurabilityInv, BeginsOnce
  <2> QED BY <2>1, <2>3 DEF DurabilityInv, EndsStored
<1> QED BY <1>3, <1>4

(***************************************************************************)
(* The invariant of do_transact, write_sstable and recovery that explains  *)
(* durability holds in every reachable state.                              *)
(***************************************************************************)
THEOREM DurabilityInvariant == Spec => []DurabilityInv
<1>1. TypeOK /\ DurabilityInv /\ [Next]_vars => DurabilityInv'
  BY BeginsLoggedStep, BeginsOnceStep, EndsStoredStep, IdsHeldStep, FlushConsistentStep
     DEF DurabilityInv
<1> QED BY <1>1, InitDurability, TypeCorrect, PTL DEF Spec

(***************************************************************************)
(* Durability: at no moment, whatever crashes, I/O errors, flushes and     *)
(* restarts came before, is a transaction that transact acknowledged       *)
(* neither open in the commit log nor held by complete SSTables.           *)
(***************************************************************************)
THEOREM Durable == Spec => []AckedIsDurable
BY DurabilityInvariant, TypeCorrect, InvIsDurable, PTL

(***************************************************************************)
(* SSTable::write never changes a complete table, even when the clock that *)
(* names the files repeats a time stamp or goes back.                      *)
(***************************************************************************)
THEOREM CompleteTablesImmutable == Spec => TablesImmutable
<1> DEFINE Kept == \A p \in DOMAIN sst :
                     sst[p].status = "full" => p \in DOMAIN sst' /\ sst'[p] = sst[p]
<1>1. TypeOK /\ DurabilityInv /\ [Next]_vars => [Kept]_vars
  BY TableStep DEF DurabilityInv
<1> QED BY <1>1, DurabilityInvariant, TypeCorrect, PTL DEF Spec, TablesImmutable

=============================================================================
