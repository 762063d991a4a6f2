--------------------------- MODULE LSMReadProofs ---------------------------
(***************************************************************************)
(* What get and scan return, for every set of keys and transactions and    *)
(* any number of crashes and I/O errors.  get depends on the bloom map and *)
(* its file, hence on a clock that moves on between two time stamps.       *)
(***************************************************************************)
EXTENDS LSMDurabilityProofs

-----------------------------------------------------------------------------
(***************************************************************************)
(* What a step does to the clock, the tables and the log.                  *)
(***************************************************************************)

\* The clock moves on whenever it is read.
LEMMA TickAdvances ==
  ASSUME ClockAdvances, now \in Int, Tick
  PROVE  now' \in Int /\ now' > now
BY BoundsAssumption DEF ClockAdvances, Tick

\* Time does not go back, and what is appended to the log is stamped with it.
LEMMA ClockStep ==
  ASSUME TypeOK, ClockAdvances, [Next]_vars
  PROVE  /\ now' \in Int /\ now' >= now
         /\ UNCHANGED <<log, logMtime>> \/ (now' > now /\ logMtime' = now')
<1>0. now \in Int
  BY DEF TypeOK
<1>1. ASSUME NEW t \in Tx, Transact(t)
      PROVE  /\ now' = now \/ Tick
             /\ UNCHANGED <<log, logMtime>> \/ (Tick /\ logMtime' = now')
  <2>1. CASE BeginFails(t)
    <3>1. PICK rest \in Leftovers(BeginTx(t)) :
            log' = log \o rest /\ logMtime' = IF rest = <<>> THEN logMtime ELSE now'
      BY <2>1 DEF BeginFails
    <3>2. rest = <<>> => log' = log
      BY <3>1, ConcatEmptySeq DEF TypeOK
    <3> QED BY <2>1, <3>1, <3>2 DEF BeginFails
  <2> QED BY <1>1, <2>1 DEF Transact, BeginTransaction, ApplyTransaction, disk
<1>2. ASSUME NEW by \in Caller, FlushStart(by)
      PROVE  (now' = now \/ Tick) /\ UNCHANGED <<log, logMtime>>
  BY <1>2 DEF FlushStart, FlushEmpty, FlushExists, FlushCreate, disk
<1>3. CASE EndTransaction
  BY <1>0, <1>3, TickAdvances DEF EndTransaction
<1>4. CASE EndFails
  <2>1. PICK rest \in Leftovers(EndTx(txIds[flush.ended + 1])) :
          log' = log \o rest /\ logMtime' = IF rest = <<>> THEN logMtime ELSE now'
    BY <1>4 DEF EndFails
  <2>2. rest = <<>> => log' = log
    BY <2>1, ConcatEmptySeq DEF TypeOK
  <2>3. Tick
    BY <1>4 DEF EndFails
  <2> QED BY <1>0, <2>1, <2>2, <2>3, TickAdvances
<1>5. CASE Crash
  <2>1. Tick /\ (UNCHANGED <<log, logMtime>> \/ logMtime' = now')
    BY <1>5 DEF Crash
  <2> QED BY <1>0, <2>1, TickAdvances
<1>6. CASE \/ UNCHANGED vars \/ Initialize \/ InitializeFails \/ BgCheck \/ BgSize \/ Signal
           \/ SkipBloomMap \/ FlushWrite \/ FlushWriteFails \/ FlushReturn
  BY <1>0, <1>6 DEF vars, disk, Initialize, InitializeFails, BgCheck, BgSize, Signal,
       SkipBloomMap, FlushWrite, FlushWriteFails, FlushReturn
<1>7. CASE OpenBloomMap \/ WriteBloomMap \/ WriteBloomMapFails
  <2>1. Tick /\ UNCHANGED <<log, logMtime>>
    BY <1>7 DEF OpenBloomMap, WriteBloomMap, WriteBloomMapFails
  <2> QED BY <1>0, <2>1, TickAdvances
<1> QED BY <1>0, <1>1, <1>2, <1>3, <1>4, <1>5, <1>6, <1>7, TickAdvances
        DEF Next, Background, Shutdown, FlushRest, BloomStep, Caller

\* A step leaves the tables alone, creates one, or ends the writing of one.
LEMMA SstStep ==
  ASSUME TypeOK, [Next]_vars
  PROVE  \/ sst' = sst
         \/ \E by \in Caller : FlushCreate(by)
         \/ /\ flush.pc = "writing"
            /\ FlushWrite \/ FlushWriteFails \/ Crash
            /\ \E s \in Status : sst' = [sst EXCEPT ![flush.path].status = s]
<1>1. CASE Crash
  BY <1>1 DEF Crash
<1>2. CASE FlushWrite
  BY <1>2 DEF FlushWrite, Status
<1>3. CASE FlushWriteFails
  BY <1>3 DEF FlushWriteFails
<1>4. ASSUME NEW t \in Tx, Transact(t) PROVE sst' = sst
  BY <1>4 DEF Transact, BeginTransaction, BeginFails, ApplyTransaction, disk
<1>5. CASE \/ UNCHANGED vars \/ Initialize \/ InitializeFails
           \/ BgCheck \/ BgSize \/ Signal \/ BloomStep
           \/ EndTransaction \/ EndFails \/ FlushReturn
  BY <1>5 DEF vars, disk, Initialize, InitializeFails, BgCheck, BgSize, Signal, BloomStep,
       SkipBloomMap, OpenBloomMap, WriteBloomMap, WriteBloomMapFails,
       EndTransaction, EndFails, FlushReturn
<1>6. ASSUME NEW by \in Caller, FlushEmpty(by) \/ FlushExists(by) PROVE sst' = sst
  BY <1>6 DEF FlushEmpty, FlushExists, disk
<1> QED BY <1>1, <1>2, <1>3, <1>4, <1>5, <1>6
        DEF Next, Background, Shutdown, FlushStart, FlushRest, Caller

\* A table keeps its keys, and a complete one stays as it is.
LEMMA TablesKept ==
  ASSUME TypeOK, FlushConsistent, [Next]_vars, NEW p \in DOMAIN sst
  PROVE  /\ p \in DOMAIN sst' /\ sst'[p].table = sst[p].table
         /\ sst[p].status = "full" => sst'[p].status = "full"
<1>1. CASE sst' = sst
  BY <1>1
<1>2. ASSUME NEW by \in Caller, FlushCreate(by) PROVE p \in DOMAIN sst' /\ sst'[p] = sst[p]
  BY <1>2 DEF FlushCreate, With
<1>3. ASSUME NEW s \in Status, sst' = [sst EXCEPT ![flush.path].status = s]
      PROVE  p \in DOMAIN sst' /\ sst'[p].table = sst[p].table
  <2>1. sst[p] \in File
    BY DEF TypeOK
  <2>2. CASE p = flush.path
    BY <1>3, <2>1, <2>2 DEF File
  <2>3. CASE p # flush.path
    BY <1>3, <2>3
  <2> QED BY <2>2, <2>3
<1> QED BY <1>1, <1>2, <1>3, SstStep, TableStep

\* A table that was not there is the one write_sstable has just created.
LEMMA NewTable ==
  ASSUME TypeOK, [Next]_vars, NEW p \in DOMAIN sst', p \notin DOMAIN sst
  PROVE  /\ p = now' /\ flush'.pc = "writing" /\ flush'.path = now'
         /\ sst'[p] = [status |-> "torn", table |-> memtable]
         /\ memtable' = memtable /\ mode = "up" /\ mode' = "up"
<1>1. PICK by \in Caller : FlushCreate(by)
  BY SstStep
<1>2. sst' = With(sst, now', [status |-> "torn", table |-> memtable])
  BY <1>1 DEF FlushCreate
<1>3. p = now' /\ sst'[p] = [status |-> "torn", table |-> memtable]
  BY <1>2 DEF With
<1> QED BY <1>1, <1>3 DEF FlushCreate, Wants

\* A table that has become complete is the one that was being written.
LEMMA NewFull ==
  ASSUME TypeOK, FlushConsistent, [Next]_vars, NEW k \in Key, NEW p \in FullTables(k)'
  PROVE  \/ p \in FullTables(k)
         \/ /\ flush.pc = "writing" /\ p = flush.path /\ memtable[k] # Absent
            /\ FlushWrite \/ FlushWriteFails \/ Crash
<1>1. p \in DOMAIN sst' /\ sst'[p].status = "full" /\ k \in FileKeys(sst'[p])
  BY DEF FullTables
<1>2. p \in DOMAIN sst
  BY <1>1, NewTable
<1>3. k \in FileKeys(sst[p])
  BY <1>1, <1>2, TablesKept DEF FileKeys
<1>4. CASE sst[p].status = "full"
  BY <1>2, <1>3, <1>4 DEF FullTables
<1>5. CASE sst[p].status # "full"
  <2>1. sst'[p] # sst[p]
    BY <1>1, <1>5
  <2>2. ~\E by \in Caller : FlushCreate(by)
    BY <1>2, <2>1 DEF FlushCreate, With
  <2>3. /\ flush.pc = "writing"
        /\ FlushWrite \/ FlushWriteFails \/ Crash
        /\ \E s \in Status : sst' = [sst EXCEPT ![flush.path].status = s]
    BY <2>1, <2>2, SstStep
  <2>4. p = flush.path
    BY <1>2, <2>1, <2>3
  <2>5. memtable[k] # Absent
    BY <1>3, <2>3, <2>4 DEF FlushConsistent, FileKeys, KeysOf
  <2> QED BY <2>3, <2>4, <2>5
<1> QED BY <1>4, <1>5

\* A complete table goes on holding its keys.
LEMMA FullKept ==
  ASSUME TypeOK, FlushConsistent, [Next]_vars, NEW k \in Key, NEW p \in FullTables(k)
  PROVE  p \in FullTables(k)'
BY TablesKept DEF FullTables, FileKeys

\* What the log would replay it goes on replaying, until the EndTx loop.
LEMMA CoveredStep ==
  ASSUME TypeOK, BeginsOnce, [Next]_vars, flush.pc # "ending", NEW k \in Key, Covered(k)
  PROVE  Covered(k)'
<1>1. PICK i \in Open(log) : Touches(log[i].tx, k)
  BY DEF Covered
<1>2. CASE log' = log
  BY <1>1, <1>2 DEF Covered
<1>3. ASSUME NEW e \in Line, log' = Append(log, e), NewLine(e)
      PROVE  Covered(k)'
  <2>1. i \in DOMAIN log' /\ log'[i] = log[i]
    BY <1>1, LogGrows DEF Open
  <2>2. log[i].type = "begin" /\ tx[log[i].tx] # "new" /\ i \in DOMAIN log
    BY <1>1 DEF Open, BeginsOnce
  <2>3. e.type \in {"begin", "end"} => e.tx # log[i].tx
    BY <1>3, <2>2 DEF NewLine
  <2>4. ASSUME NEW j \in DOMAIN log', j > i, log'[j].type \in {"begin", "end"}
        PROVE  log'[j].tx # log'[i].tx
    BY <1>1, <1>3, <2>1, <2>3, <2>4, NewLog DEF Open
  <2>5. i \in Open(log')
    BY <2>1, <2>2, <2>4 DEF Open
  <2> QED BY <1>1, <2>1, <2>5 DEF Covered
<1> QED BY <1>2, <1>3, LogStep

\* What a step does to the memtable and the bloom map.
LEMMA MemStep ==
  ASSUME TypeOK, [Next]_vars
  PROVE  \/ UNCHANGED <<memtable, bloomMap, mode>>
         \/ InitializeFails \/ Initialize \/ FlushWrite \/ Crash
         \/ \E t \in Tx : ApplyTransaction(t)
<1>1. ASSUME NEW t \in Tx, BeginTransaction(t) \/ BeginFails(t)
      PROVE  UNCHANGED <<memtable, bloomMap, mode>>
  BY <1>1 DEF BeginTransaction, BeginFails, volatile
<1>2. ASSUME NEW by \in Caller, FlushStart(by) PROVE UNCHANGED <<memtable, bloomMap, mode>>
  BY <1>2 DEF FlushStart, FlushEmpty, FlushExists, FlushCreate
<1>3. CASE \/ UNCHANGED vars \/ BgCheck \/ BgSize \/ Signal \/ BloomStep
           \/ FlushWriteFails \/ EndTransaction \/ EndFails \/ FlushReturn
  BY <1>3 DEF vars, volatile, BgCheck, BgSize, Signal, BloomStep, SkipBloomMap, OpenBloomMap,
       WriteBloomMap, WriteBloomMapFails, FlushWriteFails, EndTransaction, EndFails, FlushReturn
<1> QED BY <1>1, <1>2, <1>3 DEF Next, Transact, Background, Shutdown, FlushRest, Caller

\* What a step does to the bloom_map file and the shutdown task that writes it.
LEMMA BloomFileStep ==
  ASSUME TypeOK, [Next]_vars
  PROVE  /\ \/ bloomFile' = bloomFile
            \/ OpenBloomMap
            \/ /\ sdpc = "bloomwrite" /\ bloomFile'.map = bloomFile.map
               /\ bloomFile'.mtime \in {bloomFile.mtime, now'}
         /\ sdpc' = "bloomwrite" => sdpc = "bloomwrite" \/ OpenBloomMap
<1>1. ASSUME NEW t \in Tx, Transact(t) PROVE UNCHANGED <<bloomFile, sdpc>>
  BY <1>1 DEF Transact, BeginTransaction, BeginFails, ApplyTransaction, volatile, disk
<1>2. ASSUME NEW by \in Caller, FlushStart(by) PROVE bloomFile' = bloomFile /\ sdpc' \in {sdpc, "dead", "bloom"}
  BY <1>2 DEF FlushStart, FlushEmpty, FlushExists, FlushCreate, disk, Returns
<1>3. CASE FlushRest
  BY <1>3 DEF FlushRest, FlushWrite, FlushWriteFails, EndTransaction, EndFails, FlushReturn,
       disk, Returns
<1>4. CASE UNCHANGED vars \/ InitializeFails \/ BgCheck \/ BgSize
  BY <1>4 DEF vars, volatile, disk, InitializeFails, BgCheck, BgSize
<1>5. CASE Initialize \/ Signal \/ SkipBloomMap
  BY <1>5 DEF disk, Initialize, Signal, SkipBloomMap
<1>6. CASE WriteBloomMap \/ WriteBloomMapFails
  BY <1>6 DEF WriteBloomMap, WriteBloomMapFails
<1>7. CASE Crash
  BY <1>7 DEF Crash
<1> QED BY <1>1, <1>2, <1>3, <1>4, <1>5, <1>6, <1>7 DEF Next, Background, Shutdown, BloomStep, Caller

\* A flush begins with FlushCreate; until it ends its path stays the same.
LEMMA FlushStep ==
  ASSUME TypeOK, [Next]_vars
  PROVE  /\ flush'.pc = "writing" => flush' = flush \/ \E by \in Caller : FlushCreate(by)
         /\ flush'.pc # "idle" => flush.pc # "idle" \/ \E by \in Caller : FlushCreate(by)
<1>1. ASSUME NEW t \in Tx, Transact(t) PROVE flush' = flush
  BY <1>1 DEF Transact, BeginTransaction, BeginFails, ApplyTransaction, volatile
<1>2. ASSUME NEW by \in Caller, FlushEmpty(by) \/ FlushExists(by) PROVE flush' = flush
  BY <1>2 DEF FlushEmpty, FlushExists
<1>3. CASE \/ UNCHANGED vars \/ Initialize \/ InitializeFails
           \/ BgCheck \/ BgSize \/ Signal \/ BloomStep
  BY <1>3 DEF vars, volatile, Initialize, InitializeFails, BgCheck, BgSize, Signal, BloomStep,
       SkipBloomMap, OpenBloomMap, WriteBloomMap, WriteBloomMapFails
<1>4. CASE FlushWrite \/ EndTransaction
  <2>1. flush.pc # "idle" /\ flush'.pc = "ending"
    BY <1>4 DEF FlushWrite, EndTransaction, TypeOK
  <2> QED BY <2>1
<1>5. CASE Crash \/ FlushWriteFails \/ EndFails \/ FlushReturn
  <2>1. flush' = NoFlush
    BY <1>5 DEF Crash, FlushWriteFails, EndFails, FlushReturn
  <2> QED BY <2>1, NoFlushIdle
<1> QED BY <1>1, <1>2, <1>3, <1>4, <1>5 DEF Next, Background, Shutdown, FlushStart, FlushRest, Caller

\* A transaction once answered, or gone, stays so; a stopped store has none
\* on the way.
LEMMA ResolvedStep ==
  ASSUME TypeOK, [Next]_vars, NEW t \in Tx
  PROVE  /\ tx[t] \in {"acked", "failed"} => tx'[t] \in {"acked", "failed"}
         /\ mode' # "up" => tx'[t] # "logged" \/ (mode # "up" /\ tx' = tx)
<1>1. CASE Crash
  <2>1. \A u \in Tx : Interrupted[u] = IF tx[u] = "logged" THEN "failed" ELSE tx[u]
    BY DEF Interrupted
  <2>2. CASE tx' = Interrupted
    BY <2>1, <2>2
  <2>3. ASSUME NEW u \in Tx, tx' = [Interrupted EXCEPT ![u] = "failed"]
        PROVE  /\ tx[t] \in {"acked", "failed"} => tx'[t] \in {"acked", "failed"}
               /\ tx'[t] # "logged"
    BY <2>1, <2>3 DEF Interrupted
  <2>4. \A line \in LinesInFlight : line.tx \in Tx
    BY InFlightLine DEF Line
  <2> QED BY <1>1, <2>2, <2>3, <2>4 DEF Crash
<1>2. ASSUME NEW u \in Tx, Transact(u)
      PROVE  /\ tx[t] \in {"acked", "failed"} => tx'[t] \in {"acked", "failed"}
             /\ mode' = "up"
  BY <1>2 DEF Transact, BeginTransaction, BeginFails, ApplyTransaction, CanBegin, TypeOK
<1>3. CASE \/ UNCHANGED vars \/ Initialize \/ InitializeFails
           \/ BgCheck \/ BgSize \/ Signal \/ BloomStep \/ FlushRest
  <2>1. tx' = tx /\ (mode' # "up" => mode # "up")
    BY <1>3 DEF vars, clients, Initialize, InitializeFails, BgCheck, BgSize, Signal, BloomStep,
       SkipBloomMap, OpenBloomMap, WriteBloomMap, WriteBloomMapFails, FlushRest, FlushWrite,
       FlushWriteFails, EndTransaction, EndFails, FlushReturn
  <2> QED BY <2>1
<1>4. ASSUME NEW by \in Caller, FlushStart(by) PROVE tx' = tx /\ mode' = mode
  BY <1>4 DEF FlushStart, FlushEmpty, FlushExists, FlushCreate, clients
<1> QED BY <1>1, <1>2, <1>3, <1>4 DEF Next, Background, Shutdown, Caller

-----------------------------------------------------------------------------
(***************************************************************************)
(* Each conjunct of ReadInv is preserved.                                  *)
(***************************************************************************)

\* Files are stamped with the present time, which does not go back.
LEMMA TimesPastStep ==
  ASSUME TypeOK, ClockAdvances, TimesPast, [Next]_vars
  PROVE  TimesPast'
<1>1. now \in Int /\ now' \in Int /\ now' >= now
  BY ClockStep DEF TypeOK
<1>2. bloomFile'.mtime <= now'
  <2>1. bloomFile.mtime \in Int /\ bloomFile.mtime <= now
    BY DEF TypeOK, TimesPast
  <2>2. bloomFile'.mtime \in {bloomFile.mtime, now'}
    BY BloomFileStep DEF OpenBloomMap
  <2> QED BY <1>1, <2>1, <2>2
<1>3. ASSUME NEW p \in DOMAIN sst' PROVE p <= now'
  <2>1. CASE p \in DOMAIN sst
    <3>1. p \in Int /\ p <= now
      BY <2>1 DEF TypeOK, TimesPast
    <3> QED BY <1>1, <3>1
  <2>2. CASE p \notin DOMAIN sst
    BY <1>1, <2>2, <1>3, NewTable
  <2> QED BY <2>1, <2>2
<1>4. ASSUME NEW p \in DOMAIN sst', flush'.pc = "writing" PROVE p <= flush'.path
  <2>1. CASE \E by \in Caller : FlushCreate(by)
    BY <1>3, <2>1 DEF FlushCreate
  <2>2. CASE flush' = flush /\ ~\E by \in Caller : FlushCreate(by)
    <3>1. p \in DOMAIN sst
      BY <2>2, SstStep
    <3> QED BY <1>4, <2>2, <3>1 DEF TimesPast
  <2> QED BY <1>4, <2>1, <2>2, FlushStep
<1> QED BY <1>2, <1>3, <1>4 DEF TimesPast

\* The ids in tx_ids after a step: the old ones, one just acknowledged, or
\* those of the open lines of the log.
LEMMA IdsStep ==
  ASSUME TypeOK, [Next]_vars, NEW i \in DOMAIN txIds'
  PROVE  \/ i \in DOMAIN txIds /\ txIds'[i] = txIds[i]
         \/ txIds'[i] \in Tx /\ tx'[txIds'[i]] = "acked"
         \/ mode # "up" /\ tx' = tx /\ \E j \in Open(log) : txIds'[i] = log[j].tx
<1>1. CASE txIds' = txIds
  BY <1>1
<1>2. CASE txIds' = <<>>
  BY <1>2, EmptySeq
<1>3. ASSUME NEW t \in Tx, ApplyTransaction(t)
      PROVE  \/ i \in DOMAIN txIds /\ txIds'[i] = txIds[i]
             \/ txIds'[i] \in Tx /\ tx'[txIds'[i]] = "acked"
  <2>1. txIds' = Append(txIds, t) /\ tx'[t] = "acked"
    BY <1>3 DEF ApplyTransaction, TypeOK
  <2>2. txIds'[i] = t \/ (i \in DOMAIN txIds /\ txIds'[i] = txIds[i])
    BY <2>1, AppendId
  <2> QED BY <2>1, <2>2
<1>4. CASE Initialize
  <2>1. PICK lines \in UnfinishedLines(log) :
          txIds' = [j \in DOMAIN lines |-> log[lines[j]].tx]
    BY <1>4 DEF Initialize
  <2>2. \A j \in DOMAIN lines : lines[j] \in Open(log)
    BY UnfinishedLemma DEF TypeOK
  <2> QED BY <1>4, <2>1, <2>2 DEF Initialize, clients
<1>5. CASE Crash \/ FlushReturn
  BY <1>2, <1>5 DEF Crash, FlushReturn
<1>6. CASE Idle \/ FlushWrite \/ FlushWriteFails \/ EndTransaction \/ EndFails
  BY <1>1, <1>6, IdleStep DEF FlushWrite, FlushWriteFails, EndTransaction, EndFails
<1>7. ASSUME NEW by \in Caller, FlushCreate(by) PROVE txIds' = txIds
  BY <1>7 DEF FlushCreate
<1> QED BY <1>1, <1>3, <1>4, <1>5, <1>6, <1>7
        DEF Next, Transact, Background, Shutdown, FlushStart, FlushRest, Caller, Idle

\* Only what is acknowledged, or interrupted by a crash, is ever ended.
LEMMA EndsResolvedStep ==
  ASSUME TypeOK, BeginsOnce, EndsResolved, [Next]_vars
  PROVE  EndsResolved'
<1> DEFINE Resolved(t) == tx[t] \in {"acked", "failed"}
<1>1. \A t \in Tx : Resolved(t) => tx'[t] \in {"acked", "failed"}
  BY ResolvedStep
<1>2. \A i \in DOMAIN txIds : txIds[i] \in Tx
  BY LenProperties, ElementOfSeq DEF TypeOK
<1>3. ASSUME NEW i \in DOMAIN txIds' PROVE tx'[txIds'[i]] \in {"acked", "failed"}
  <2>1. CASE i \in DOMAIN txIds /\ txIds'[i] = txIds[i]
    BY <1>1, <1>2, <2>1 DEF EndsResolved
  <2>2. ASSUME mode # "up", tx' = tx, NEW j \in Open(log), txIds'[i] = log[j].tx
        PROVE  tx'[txIds'[i]] \in {"acked", "failed"}
    <3>1. j \in DOMAIN log /\ log[j].type = "begin"
      BY DEF Open
    <3>2. log[j].tx \in Tx /\ tx[log[j].tx] # "new" /\ tx[log[j].tx] # "logged"
      BY <2>2, <3>1, LogTxs DEF BeginsOnce, EndsResolved
    <3> QED BY <2>2, <3>2 DEF TypeOK
  <2> QED BY <2>1, <2>2, IdsStep
<1>4. ASSUME NEW i \in DOMAIN log', log'[i].type = "end"
      PROVE  tx'[log'[i].tx] \in {"acked", "failed"}
  <2>1. CASE i \in DOMAIN log /\ log'[i] = log[i]
    BY <1>1, <1>4, <2>1, LogTxs DEF EndsResolved
  <2>2. ASSUME NEW e \in Line, log'[i] = e, NewLine(e)
        PROVE  tx'[log'[i].tx] \in {"acked", "failed"}
    <3>1. PICK j \in DOMAIN txIds : txIds[j] = e.tx
      BY <1>4, <2>2 DEF NewLine
    <3> QED BY <1>1, <1>2, <2>2, <3>1 DEF EndsResolved
  <2>3. CASE log' = log
    BY <2>1, <2>3
  <2> QED BY <2>1, <2>2, <2>3, LogStep, NewLog
<1>5. ASSUME mode' # "up", NEW t \in Tx PROVE tx'[t] # "logged"
  BY <1>5, ResolvedStep DEF EndsResolved
<1> QED BY <1>3, <1>4, <1>5 DEF EndsResolved

\* What is being applied is open in the log.
LEMMA LoggedIsOpen ==
  ASSUME TypeOK, BeginsLogged, BeginsOnce, EndsResolved, NEW t \in Tx, tx[t] = "logged"
  PROVE  \E i \in Open(log) : log[i].tx = t
<1>1. PICK i \in DOMAIN log : log[i] = BeginTx(t)
  BY DEF BeginsLogged
<1>2. log[i].type = "begin" /\ log[i].tx = t /\ i \in Int
  BY <1>1, LenProperties DEF BeginTx, TypeOK
<1>3. ASSUME NEW j \in DOMAIN log, j > i, log[j].type \in {"begin", "end"}, log[j].tx = t
      PROVE  FALSE
  <2>1. log[j].type = "begin"
    BY <1>3 DEF EndsResolved
  <2>2. i = j
    BY <1>2, <1>3, <2>1 DEF BeginsOnce
  <2> QED BY <1>2, <1>3, <2>2
<1> QED BY <1>2, <1>3 DEF Open

\* The memtable has nothing that the log would not replay.
LEMMA MemtableLoggedStep ==
  ASSUME TypeOK, DurabilityInv, EndsResolved, MemtableLogged, [Next]_vars
  PROVE  MemtableLogged'
<1> SUFFICES ASSUME mode' = "up", NEW k \in Key, memtable'[k] # Absent
             PROVE  Covered(k)'
  BY DEF MemtableLogged
<1>1. CASE memtable' = memtable /\ mode = "up"
  <2>1. Covered(k)
    BY <1>1 DEF MemtableLogged
  <2>2. flush.pc # "ending"
    BY <1>1 DEF DurabilityInv, FlushConsistent, EmptyTable
  <2> QED BY <2>1, <2>2, CoveredStep DEF DurabilityInv
<1>2. CASE Initialize
  <2>1. memtable' = Replay(log) /\ log' = log
    BY <1>2 DEF Initialize, disk
  <2>2. OpenOn(log, k) # {}
    BY <2>1 DEF Replay
  <2>3. Covered(k)
    BY <2>2 DEF OpenOn, Covered
  <2> QED BY <2>1, <2>3 DEF Covered
<1>3. ASSUME NEW t \in Tx, ApplyTransaction(t) PROVE Covered(k)'
  <2>1. memtable' = Apply(memtable, t) /\ log' = log /\ tx[t] = "logged" /\ mode = "up"
    BY <1>3 DEF ApplyTransaction, disk
  <2>2. Touches(t, k) \/ memtable[k] # Absent
    BY <2>1 DEF Apply
  <2>3. Covered(k)
    BY <2>1, <2>2, LoggedIsOpen DEF DurabilityInv, MemtableLogged, Covered
  <2> QED BY <2>1, <2>3 DEF Covered
<1>4. CASE FlushWrite
  BY <1>4 DEF FlushWrite, EmptyTable
<1>5. CASE Crash \/ InitializeFails
  BY <1>5 DEF Crash, InitializeFails
<1> QED BY <1>1, <1>2, <1>3, <1>4, <1>5, MemStep

\* What FlushWrite does, in the words of the invariants.
LEMMA FlushWritten ==
  ASSUME TypeOK, FlushConsistent, FlushWrite
  PROVE  /\ flush.path \in DOMAIN sst /\ sst[flush.path].table = memtable
         /\ flush.path \in DOMAIN sst' /\ sst'[flush.path].status = "full"
         /\ sst'[flush.path].table = memtable
         /\ bloomMap' = With(bloomMap, flush.path, KeysOf(memtable))
<1>1. flush.path \in DOMAIN sst /\ sst[flush.path] = [status |-> "torn", table |-> memtable]
  BY DEF FlushWrite, FlushConsistent, TypeOK
<1>2. sst' = [sst EXCEPT ![flush.path].status = "full"]
  BY DEF FlushWrite
<1> QED BY <1>1, <1>2 DEF FlushWrite

\* A filter in memory or in the file is that of an existing table.
LEMMA FiltersTrueStep ==
  ASSUME TypeOK, FlushConsistent, FiltersTrue, [Next]_vars
  PROVE  FiltersTrue'
<1>1. \A p \in DOMAIN sst : p \in DOMAIN sst' /\ FileKeys(sst'[p]) = FileKeys(sst[p])
  BY TablesKept DEF FileKeys
<1>2. ASSUME NEW p \in DOMAIN bloomMap'
      PROVE  p \in DOMAIN sst' /\ bloomMap'[p] = FileKeys(sst'[p])
  <2>1. CASE bloomMap' = bloomMap
    BY <1>1, <1>2, <2>1 DEF FiltersTrue
  <2>2. CASE Initialize
    <3>1. bloomMap' = IF BloomFileUpToDate THEN bloomFile.map
                      ELSE [q \in DOMAIN sst |-> FileKeys(sst[q])]
      BY <2>2 DEF Initialize, RestoredBloomMap
    <3> QED BY <1>1, <1>2, <3>1 DEF FiltersTrue
  <2>3. CASE FlushWrite
    <3>1. FileKeys(sst[flush.path]) = KeysOf(memtable)
      BY <2>3, FlushWritten DEF FileKeys
    <3>2. p = flush.path \/ (p # flush.path /\ p \in DOMAIN bloomMap /\ bloomMap'[p] = bloomMap[p])
      BY <1>2, <2>3, FlushWritten DEF With
    <3>3. p = flush.path => bloomMap'[p] = KeysOf(memtable)
      BY <1>2, <2>3, FlushWritten DEF With
    <3> QED BY <1>1, <2>3, <3>1, <3>2, <3>3, FlushWritten DEF FiltersTrue
  <2>4. CASE Crash
    BY <1>2, <2>4 DEF Crash, NoPaths
  <2>5. CASE InitializeFails \/ \E t \in Tx : ApplyTransaction(t)
    BY <2>1, <2>5 DEF InitializeFails, ApplyTransaction, volatile
  <2> QED BY <2>1, <2>2, <2>3, <2>4, <2>5, MemStep
<1>3. ASSUME NEW p \in DOMAIN bloomFile'.map
      PROVE  p \in DOMAIN sst' /\ bloomFile'.map[p] = FileKeys(sst'[p])
  <2>1. CASE bloomFile'.map = bloomFile.map
    BY <1>1, <1>3, <2>1 DEF FiltersTrue
  <2>2. CASE OpenBloomMap
    BY <1>1, <1>3, <2>2 DEF OpenBloomMap, FiltersTrue
  <2> QED BY <2>1, <2>2, BloomFileStep
<1> QED BY <1>2, <1>3 DEF FiltersTrue

\* A table cut short goes on hiding nothing.
LEMMA TornHiddenStep ==
  ASSUME TypeOK, DurabilityInv, TimesPast, MemtableLogged, TornHidden, [Next]_vars
  PROVE  TornHidden'
<1>0. BeginsOnce /\ FlushConsistent /\ log \in Seq(Line) /\ memtable \in Table
  BY DEF DurabilityInv, TypeOK
<1> SUFFICES ASSUME NEW p \in DOMAIN sst', NEW k \in Key,
                    sst'[p].status # "full", k \in FileKeys(sst'[p])
             PROVE  Held(k)' \/ \E q \in FullTables(k)' : q > p
  BY DEF TornHidden
<1>1. CASE p \notin DOMAIN sst
  <2>1. mode' = "up" /\ memtable' = memtable /\ sst'[p].table = memtable
    BY <1>1, NewTable
  <2> QED BY <2>1 DEF Held, FileKeys, KeysOf
<1>2. CASE p \in DOMAIN sst
  <2>1. sst[p].status # "full" /\ k \in FileKeys(sst[p])
    BY <1>0, <1>2, TablesKept DEF FileKeys
  <2>2. ASSUME NEW q \in FullTables(k), q > p PROVE \E r \in FullTables(k)' : r > p
    BY <1>0, <2>2, FullKept
  <2>3. ASSUME Held(k) PROVE Held(k)' \/ \E q \in FullTables(k)' : q > p
    <3>1. CASE mode = "up" /\ mode' = "up" /\ memtable' = memtable
      BY <2>3, <3>1 DEF Held
    <3>2. CASE mode # "up" /\ mode' # "up"
      <4>1. Covered(k) /\ flush.pc # "ending"
        BY <1>0, <2>3, <3>2 DEF Held, FlushConsistent
      <4>2. Covered(k)'
        BY <1>0, <4>1, CoveredStep
      <4> QED BY <3>2, <4>2 DEF Held
    <3>3. CASE Initialize
      <4>1. Covered(k) /\ memtable' = Replay(log) /\ mode' = "up"
        BY <2>3, <3>3 DEF Held, Initialize
      <4>2. Replay(log)[k] # Absent
        BY <1>0, <4>1, ReplayLemma DEF Covered
      <4> QED BY <4>1, <4>2 DEF Held
    <3>4. ASSUME NEW t \in Tx, ApplyTransaction(t) PROVE Held(k)'
      <4>1. mode = "up" /\ mode' = "up" /\ memtable' = Apply(memtable, t)
        BY <3>4 DEF ApplyTransaction
      <4>2. memtable'[k] # Absent
        BY <1>0, <2>3, <4>1, ApplyLemma DEF Held
      <4> QED BY <4>1, <4>2 DEF Held
    <3>5. CASE FlushWrite
      <4>1. mode = "up" /\ flush.pc = "writing"
        BY <1>0, <3>5 DEF FlushWrite, FlushConsistent
      <4>2. memtable[k] # Absent
        BY <2>3, <4>1 DEF Held
      <4>3. flush.path \in FullTables(k)'
        BY <1>0, <3>5, <4>2, FlushWritten DEF FullTables, FileKeys, KeysOf
      <4>4. p # flush.path /\ p <= flush.path /\ p \in Int /\ flush.path \in Int
        BY <1>0, <1>2, <3>5, <4>1, FlushWritten DEF TimesPast, TypeOK
      <4> QED BY <4>3, <4>4
    <3>6. CASE Crash
      <4>1. mode = "up" /\ mode' = "down"
        BY <3>6 DEF Crash
      <4>2. memtable[k] # Absent
        BY <2>3, <4>1 DEF Held
      <4>3. flush.pc # "ending" /\ Covered(k)
        BY <1>0, <4>1, <4>2 DEF FlushConsistent, EmptyTable, MemtableLogged
      <4>4. Covered(k)'
        BY <1>0, <4>3, CoveredStep
      <4> QED BY <4>1, <4>4 DEF Held
    <3>7. CASE InitializeFails
      BY <3>2, <3>7 DEF InitializeFails
    <3> QED BY <3>1, <3>2, <3>3, <3>4, <3>5, <3>6, <3>7, MemStep
  <2> QED BY <1>2, <2>1, <2>2, <2>3 DEF TornHidden
<1> QED BY <1>1, <1>2

\* The bloom map in memory goes on leading to every complete table.
LEMMA BloomMapLeadsStep ==
  ASSUME TypeOK, FlushConsistent, TimesPast, FiltersTrue, BloomMapLeads, BloomFileLeads,
         [Next]_vars
  PROVE  BloomMapLeads'
<1> SUFFICES ASSUME mode' = "up", NEW k \in Key, NEW p \in FullTables(k)'
             PROVE  memtable'[k] # Absent \/ Leads(bloomMap', p, k)
  BY DEF BloomMapLeads, Leads
<1>1. log \in Seq(Line) /\ memtable \in Table
  BY DEF TypeOK
<1>2. CASE FlushWrite
  <2>1. flush.pc = "writing" /\ mode = "up" /\ flush.path \in Int
    BY <1>2 DEF FlushWrite, FlushConsistent, TypeOK
  <2>2. /\ flush.path \in DOMAIN bloomMap' /\ bloomMap'[flush.path] = KeysOf(memtable)
        /\ \A q \in DOMAIN bloomMap : q \in DOMAIN bloomMap' /\ (q # flush.path => bloomMap'[q] = bloomMap[q])
    BY <1>2, FlushWritten DEF With
  <2>3. flush.path \in DOMAIN bloomMap => bloomMap[flush.path] = KeysOf(memtable)
    BY <1>2, FlushWritten DEF FiltersTrue, FileKeys
  <2>4. p \in FullTables(k) \/ (p = flush.path /\ memtable[k] # Absent)
    BY NewFull
  <2>5. p <= flush.path
    BY <2>1, <2>4 DEF TimesPast, FullTables
  <2>6. CASE memtable[k] # Absent
    BY <2>2, <2>5, <2>6 DEF Leads, KeysOf
  <2>7. CASE p \in FullTables(k) /\ Leads(bloomMap, p, k)
    BY <2>2, <2>3, <2>7 DEF Leads
  <2> QED BY <2>1, <2>4, <2>6, <2>7 DEF BloomMapLeads
<1>3. CASE Initialize
  <2>1. /\ sst' = sst /\ memtable' = Replay(log)
        /\ bloomMap' = IF BloomFileUpToDate THEN bloomFile.map
                       ELSE [q \in DOMAIN sst |-> FileKeys(sst[q])]
    BY <1>3 DEF Initialize, RestoredBloomMap, disk
  <2>2. p \in FullTables(k) /\ p \in DOMAIN sst /\ k \in FileKeys(sst[p]) /\ p \in Int
    BY <2>1 DEF FullTables, TypeOK
  <2>3. CASE Covered(k)
    BY <1>1, <2>1, <2>3, ReplayLemma DEF Covered
  <2>4. CASE ~BloomFileUpToDate
    BY <2>1, <2>2, <2>4 DEF Leads
  <2>5. CASE BloomFileUpToDate /\ Leads(bloomFile.map, p, k)
    BY <2>1, <2>5
  <2> QED BY <2>2, <2>3, <2>4, <2>5 DEF BloomFileLeads
<1>4. CASE UNCHANGED <<memtable, bloomMap, mode>>
  BY <1>4, NewFull DEF BloomMapLeads
<1>5. ASSUME NEW t \in Tx, ApplyTransaction(t)
      PROVE  memtable'[k] # Absent \/ Leads(bloomMap', p, k)
  <2>1. mode = "up" /\ sst' = sst /\ bloomMap' = bloomMap /\ memtable' = Apply(memtable, t)
    BY <1>5 DEF ApplyTransaction, disk
  <2>2. p \in FullTables(k)
    BY <2>1 DEF FullTables
  <2> QED BY <1>1, <2>1, <2>2, ApplyLemma DEF BloomMapLeads
<1>6. CASE Crash \/ InitializeFails
  BY <1>6 DEF Crash, InitializeFails
<1> QED BY <1>2, <1>3, <1>4, <1>5, <1>6, MemStep

\* The shutdown task runs in a running store, and keeps flushes out while it
\* writes the bloom_map file.
LEMMA ShutdownTaskStep ==
  ASSUME TypeOK, FlushConsistent, mode # "up" => sdpc = "off",
         sdpc = "bloomwrite" => flush.pc = "idle", [Next]_vars
  PROVE  /\ mode' # "up" => sdpc' = "off"
         /\ sdpc' = "bloomwrite" => flush'.pc = "idle"
<1>1. mode' # "up" => sdpc' = "off"
  <2>1. ASSUME NEW t \in Tx, Transact(t) PROVE mode' = "up"
    BY <2>1 DEF Transact, BeginTransaction, BeginFails, ApplyTransaction, CanBegin
  <2>2. ASSUME NEW by \in Caller, FlushStart(by) PROVE mode' = "up"
    BY <2>2 DEF FlushStart, FlushEmpty, FlushExists, FlushCreate, Wants
  <2>3. CASE FlushWrite \/ EndTransaction \/ UNCHANGED vars \/ InitializeFails
    BY <2>3 DEF FlushWrite, EndTransaction, vars, volatile, InitializeFails
  <2>4. CASE FlushWriteFails \/ EndFails \/ FlushReturn
    BY <2>4 DEF FlushWriteFails, EndFails, FlushReturn, FlushConsistent
  <2>5. CASE BgCheck \/ BgSize \/ Signal \/ Initialize
    BY <2>5 DEF BgCheck, BgSize, Signal, Initialize
  <2>6. CASE BloomStep
    BY <2>6 DEF BloomStep, SkipBloomMap, OpenBloomMap, WriteBloomMap, WriteBloomMapFails
  <2>7. CASE Crash
    BY <2>7 DEF Crash
  <2> QED BY <2>1, <2>2, <2>3, <2>4, <2>5, <2>6, <2>7 DEF Next, Background, Shutdown, FlushRest, Caller
<1>2. ASSUME sdpc' = "bloomwrite" PROVE flush'.pc = "idle"
  <2>1. CASE OpenBloomMap
    BY <2>1 DEF OpenBloomMap
  <2>2. CASE sdpc = "bloomwrite"
    <3>1. ~\E by \in Caller : FlushCreate(by)
      BY <2>2 DEF FlushCreate, BloomMapUnlocked
    <3> QED BY <2>2, <3>1, FlushStep
  <2> QED BY <1>2, <2>1, <2>2, BloomFileStep
<1> QED BY <1>1, <1>2

\* The bloom_map file goes on leading to every complete table, or is older
\* than the log.
LEMMA BloomFileLeadsStep ==
  ASSUME TypeOK, ClockAdvances, DurabilityInv, TimesPast, MemtableLogged, BloomMapLeads,
         BloomFileLeads, [Next]_vars
  PROVE  BloomFileLeads'
<1>0. BeginsOnce /\ FlushConsistent
  BY DEF DurabilityInv
<1>1. (mode' # "up" => sdpc' = "off") /\ (sdpc' = "bloomwrite" => flush'.pc = "idle")
  BY <1>0, ShutdownTaskStep DEF BloomFileLeads
<1>2. now \in Int /\ now' \in Int /\ logMtime \in Int /\ bloomFile.mtime \in Int /\ bloomFile.mtime <= now
  BY ClockStep DEF TypeOK, TimesPast
<1> SUFFICES ASSUME NEW k \in Key, NEW p \in FullTables(k)'
             PROVE  \/ Covered(k)' \/ Leads(bloomFile'.map, p, k)
                    \/ ~BloomFileUpToDate' /\ sdpc' # "bloomwrite"
  BY <1>1 DEF BloomFileLeads, Leads
<1>3. CASE p \notin FullTables(k)
  <2>1. flush.pc = "writing" /\ memtable[k] # Absent
    BY <1>0, <1>3, NewFull
  <2>2. Covered(k)
    BY <1>0, <2>1 DEF FlushConsistent, MemtableLogged
  <2> QED BY <1>0, <2>1, <2>2, CoveredStep
<1>4. CASE OpenBloomMap /\ p \in FullTables(k)
  <2>1. mode = "up" /\ log' = log /\ bloomFile'.map = bloomMap
    BY <1>4 DEF OpenBloomMap, BloomFileLeads
  <2>2. CASE memtable[k] # Absent
    BY <2>1, <2>2 DEF MemtableLogged, Covered
  <2>3. CASE Leads(bloomMap, p, k)
    BY <2>1, <2>3
  <2> QED BY <1>4, <2>1, <2>2, <2>3 DEF BloomMapLeads
<1>5. CASE ~OpenBloomMap /\ p \in FullTables(k)
  <2>1. bloomFile'.map = bloomFile.map /\ (sdpc # "bloomwrite" => bloomFile' = bloomFile /\ sdpc' # "bloomwrite")
    BY <1>5, BloomFileStep
  <2>2. CASE Leads(bloomFile.map, p, k)
    BY <2>1, <2>2
  <2>3. CASE ~BloomFileUpToDate /\ sdpc # "bloomwrite"
    <3>1. logMtime' = logMtime \/ (now' > now /\ logMtime' = now')
      BY ClockStep
    <3>2. ~BloomFileUpToDate'
      BY <1>2, <2>1, <2>3, <3>1 DEF BloomFileUpToDate
    <3> QED BY <2>1, <2>3, <3>2
  <2>4. CASE Covered(k) /\ flush.pc # "ending"
    BY <1>0, <2>4, CoveredStep
  <2>5. CASE Covered(k) /\ flush.pc = "ending"
    <3>1. sdpc # "bloomwrite"
      BY <2>5 DEF BloomFileLeads
    <3>2. CASE log' = log
      BY <2>5, <3>2 DEF Covered
    <3>3. CASE now' > now /\ logMtime' = now'
      BY <1>2, <2>1, <3>1, <3>3 DEF BloomFileUpToDate
    <3> QED BY <3>2, <3>3, ClockStep
  <2> QED BY <1>5, <2>2, <2>3, <2>4, <2>5 DEF BloomFileLeads
<1> QED BY <1>3, <1>4, <1>5

-----------------------------------------------------------------------------
(***************************************************************************)
(* From the invariant to what a reader sees.                               *)
(***************************************************************************)

\* There is only one latest member.
LEMMA LatestUnique ==
  ASSUME NEW S \in SUBSET Int, NEW m \in S, \A j \in S : j <= m
  PROVE  Latest(S) = m
<1>1. Latest(S) \in S /\ \A j \in S : j <= Latest(S)
  BY DEF Latest
<1>2. Latest(S) <= m /\ m <= Latest(S) /\ Latest(S) \in Int /\ m \in Int
  BY <1>1
<1> QED BY <1>2

\* A table leads search to its keys, with a value or an error, never None.
LEMMA SearchFound ==
  ASSUME TypeOK, NEW p \in DOMAIN sst, NEW k \in FileKeys(sst[p])
  PROVE  /\ Search(sst[p], k) # Absent
         /\ sst[p].status = "full" => Search(sst[p], k) = sst[p].table[k]
<1>1. sst[p].status \in Status /\ sst[p].table[k] # Absent
  BY DEF TypeOK, File, FileKeys, KeysOf
<1> QED BY <1>1, SentinelAssumption DEF Search, Status

\* The complete tables that hold a key have a latest one.
LEMMA LatestFull ==
  ASSUME TypeOK, TimesPast, NEW k \in Key, FullTables(k) # {}
  PROVE  /\ Latest(FullTables(k)) \in FullTables(k)
         /\ \A p \in FullTables(k) : p <= Latest(FullTables(k))
<1> DEFINE S == FullTables(k)
<1>1. now \in Int /\ S \in SUBSET Int /\ S # {} /\ \A i \in S : i <= now
  BY DEF TypeOK, TimesPast, FullTables
<1> HIDE DEF S
<1>2. Latest(S) \in S /\ \A j \in S : j <= Latest(S)
  BY <1>1, LatestExists
<1> QED BY <1>2 DEF S

(***************************************************************************)
(* The newest table the bloom map leads to is the newest complete one:     *)
(* newer tables with the key were cut short, and the memtable has the key. *)
(***************************************************************************)
LEMMA SearchIsCurrent ==
  ASSUME TypeOK, ReadInv, mode = "up", NEW k \in Key, memtable[k] = Absent
  PROVE  SearchSSTables(k) = CurrentEntry(k)
<1> DEFINE hits == {p \in SSTablesForKey(k) : Search(sst[p], k) # Absent}
           F == FullTables(k)
<1>1. ASSUME NEW p \in hits PROVE p \in DOMAIN sst /\ k \in FileKeys(sst[p]) /\ p \in Int
  BY DEF SSTablesForKey, ReadInv, FiltersTrue, TypeOK
<1>2. ASSUME NEW p \in DOMAIN bloomMap, k \in bloomMap[p] PROVE p \in hits
  <2>1. p \in DOMAIN sst /\ k \in FileKeys(sst[p])
    BY <1>2 DEF ReadInv, FiltersTrue
  <2> QED BY <1>2, <2>1, SearchFound DEF SSTablesForKey
<1>3. ASSUME NEW p \in hits PROVE p \in F \/ \E q \in F : q > p
  <2>1. sst[p].status # "full" => \E q \in F : q > p
    BY <1>1 DEF ReadInv, TornHidden, Held
  <2> QED BY <1>1, <2>1 DEF FullTables
<1>4. CurrentEntry(k) = IF F # {} THEN sst[Latest(F)].table[k] ELSE Absent
  BY DEF CurrentEntry, CurrentMemtable
<1>5. SearchSSTables(k) = IF hits = {} THEN Absent ELSE Search(sst[Latest(hits)], k)
  BY DEF SearchSSTables
<1>6. CASE F = {}
  <2>1. hits = {}
    BY <1>3, <1>6
  <2> QED BY <1>4, <1>5, <1>6, <2>1
<1>7. CASE F # {}
  <2>1. PICK m \in F : m = Latest(F) /\ \A p \in F : p <= m
    BY <1>7, LatestFull DEF ReadInv
  <2>2. F \subseteq Int /\ hits \subseteq Int
    BY <1>1 DEF FullTables, TypeOK
  <2>3. \A p \in hits : p <= m
    BY <1>3, <2>1, <2>2
  <2>4. PICK q \in DOMAIN bloomMap : q >= m /\ k \in bloomMap[q]
    BY <2>1 DEF ReadInv, BloomMapLeads, Leads
  <2>5. q \in hits
    BY <1>2, <2>4
  <2>6. m \in hits
    BY <2>2, <2>3, <2>4, <2>5
  <2>7. Latest(hits) = m
    <3> HIDE DEF hits, F
    <3> QED BY <2>2, <2>3, <2>6, LatestUnique
  <2>8. Search(sst[m], k) = sst[m].table[k]
    BY <2>1, SearchFound DEF FullTables
  <2> QED BY <1>4, <1>5, <1>7, <2>1, <2>6, <2>7, <2>8
<1> QED BY <1>6, <1>7

\* ReadInv gives what get promises.
LEMMA InvIsGet == TypeOK /\ ReadInv => GetReturnsContents
<1> SUFFICES ASSUME TypeOK, ReadInv, mode = "up", NEW k \in Key, memtable[k] # Tombstone
             PROVE  Get(k) = Contents[k]
  BY DEF GetReturnsContents
<1>1. Contents[k] = AsOption(CurrentEntry(k))
  BY DEF Contents
<1>2. AsOption(memtable[k]) = memtable[k]
  BY DEF AsOption
<1>3. CASE memtable[k] # Absent
  <2>1. CurrentEntry(k) = memtable[k]
    BY <1>3 DEF CurrentEntry, CurrentMemtable
  <2> QED BY <1>1, <1>2, <1>3, <2>1 DEF Get
<1>4. CASE memtable[k] = Absent
  BY <1>1, <1>2, <1>4, SearchIsCurrent DEF Get
<1> QED BY <1>3, <1>4

\* ReadInv gives what the bloom map promises.
LEMMA InvIsComplete == TypeOK /\ ReadInv => BloomMapComplete
<1> SUFFICES ASSUME TypeOK, ReadInv, mode = "up", NEW p \in DOMAIN sst,
                    sst[p].status = "full", NEW k \in FileKeys(sst[p])
             PROVE  memtable[k] # Absent \/ \E q \in DOMAIN bloomMap : q >= p /\ k \in bloomMap[q]
  BY DEF BloomMapComplete
<1>1. k \in Key /\ p \in FullTables(k)
  BY DEF FileKeys, KeysOf, FullTables
<1> QED BY <1>1 DEF ReadInv, BloomMapLeads, Leads

(***************************************************************************)
(* scan merges the entry get would have to find: when no table in data_dir *)
(* fails it, the tables with a key of the range are complete.              *)
(***************************************************************************)
LEMMA ScanIsCurrent ==
  ASSUME TypeOK, mode = "up", NEW from, NEW to, NEW k \in KeyRange(from, to),
         ~\E p \in DOMAIN sst : ScanFails(sst[p], KeyRange(from, to))
  PROVE  ScanEntry(k) = CurrentEntry(k)
<1> DEFINE paths == {p \in DOMAIN sst : k \in FileKeys(sst[p])}
<1>1. ASSUME NEW p \in paths PROVE sst[p].status = "full"
  <2>1. sst[p].status \in Status
    BY DEF TypeOK, File
  <2>2. ~ScanFails(sst[p], KeyRange(from, to)) /\ k \in FileKeys(sst[p]) \cap KeyRange(from, to)
    OBVIOUS
  <2> QED BY <2>1, <2>2 DEF ScanFails, Status
<1>2. paths = FullTables(k)
  BY <1>1 DEF FullTables
<1>3. ScanEntry(k) = IF memtable[k] # Absent THEN memtable[k]
                     ELSE IF paths # {} THEN sst[Latest(paths)].table[k] ELSE Absent
  BY DEF ScanEntry
<1>4. CurrentEntry(k) = IF memtable[k] # Absent THEN memtable[k]
                        ELSE IF FullTables(k) # {} THEN sst[Latest(FullTables(k))].table[k] ELSE Absent
  BY DEF CurrentEntry, CurrentMemtable
<1>5. ScanEntry(k) = IF memtable[k] # Absent THEN memtable[k]
                     ELSE IF FullTables(k) # {} THEN sst[Latest(FullTables(k))].table[k] ELSE Absent
  <2> HIDE DEF paths
  <2> QED BY <1>2, <1>3
<1> QED BY <1>4, <1>5

\* A scan of a running store is the current contents or an error.
LEMMA TypesGiveScan == TypeOK => ScanReturnsContents
<1> SUFFICES ASSUME TypeOK, mode = "up", NEW from, NEW to
             PROVE  Scan(from, to) \in
               {Error, [k \in {j \in KeyRange(from, to) : Contents[j] # Absent} |-> Contents[k]]}
  BY DEF ScanReturnsContents
<1> DEFINE S == {j \in KeyRange(from, to) : AsOption(ScanEntry(j)) # Absent}
           C == {j \in KeyRange(from, to) : Contents[j] # Absent}
<1>1. CASE \E p \in DOMAIN sst : ScanFails(sst[p], KeyRange(from, to))
  BY <1>1 DEF Scan
<1>2. CASE ~\E p \in DOMAIN sst : ScanFails(sst[p], KeyRange(from, to))
  <2>1. \A k \in KeyRange(from, to) : k \in Key /\ Contents[k] = AsOption(ScanEntry(k))
    <3> SUFFICES ASSUME NEW k \in KeyRange(from, to)
                 PROVE  k \in Key /\ Contents[k] = AsOption(ScanEntry(k))
      OBVIOUS
    <3>1. k \in Key
      BY DEF KeyRange
    <3>2. ScanEntry(k) = CurrentEntry(k)
      BY <1>2, ScanIsCurrent
    <3> QED BY <3>1, <3>2 DEF Contents
  <2>2. S = C
    BY <2>1
  <2>3. \A k \in S : ScanEntry(k) = Contents[k]
    BY <2>1 DEF AsOption
  <2>4. [k \in S |-> ScanEntry(k)] = [k \in C |-> Contents[k]]
    <3> HIDE DEF S, C
    <3> QED BY <2>2, <2>3
  <2>5. Scan(from, to) = [k \in S |-> ScanEntry(k)]
    BY <1>2 DEF Scan
  <2> QED BY <2>4, <2>5
<1> QED BY <1>1, <1>2

\* A first start, with no file at all, satisfies the invariant.
LEMMA InitRead == Init => ReadInv
<1> SUFFICES ASSUME Init PROVE ReadInv
  OBVIOUS
<1>1. /\ DOMAIN log = {} /\ DOMAIN txIds = {} /\ DOMAIN sst = {}
      /\ DOMAIN bloomMap = {} /\ DOMAIN bloomFile.map = {}
      /\ bloomFile.mtime <= now /\ mode = "down" /\ sdpc = "off"
  BY EmptySeq DEF Init, NoPaths, NoBloomFile
<1>2. \A t \in Tx : tx[t] = "new"
  BY DEF Init
<1>3. \A k \in Key : FullTables(k) = {}
  BY <1>1 DEF FullTables
<1> QED BY <1>1, <1>2, <1>3 DEF ReadInv, TimesPast, EndsResolved, MemtableLogged, FiltersTrue,
            TornHidden, BloomMapLeads, BloomFileLeads

-----------------------------------------------------------------------------
(***************************************************************************)
(* The theorems.                                                           *)
(***************************************************************************)

(***************************************************************************)
(* The invariant that ties memtable, commit log, SSTables, bloom map and   *)
(* bloom_map file together holds at every moment, provided that the clock  *)
(* moves on between two time stamps.                                       *)
(***************************************************************************)
THEOREM ReadInvariant == ASSUME ClockAdvances PROVE Spec => []ReadInv
<1>1. TypeOK /\ DurabilityInv /\ ReadInv /\ [Next]_vars => ReadInv'
  BY ClockAdvances, TimesPastStep, EndsResolvedStep, MemtableLoggedStep, FiltersTrueStep,
     TornHiddenStep, BloomMapLeadsStep, BloomFileLeadsStep
     DEF ReadInv, DurabilityInv
<1> QED BY <1>1, InitRead, TypeCorrect, DurabilityInvariant, PTL DEF Spec

(***************************************************************************)
(* get returns the current entry of every key without a tombstone in the   *)
(* memtable, never an error and never an old value, whatever flushes,      *)
(* crashes, I/O errors, recoveries and bloom_map files came before.        *)
(***************************************************************************)
THEOREM GetIsRight == ASSUME ClockAdvances PROVE Spec => []GetReturnsContents
BY ReadInvariant, TypeCorrect, InvIsGet, PTL

(***************************************************************************)
(* The bloom map of a running store, whether restored from its file or     *)
(* rebuilt from the tables, leads to every key of every complete table.    *)
(***************************************************************************)
THEOREM BloomMapIsComplete == ASSUME ClockAdvances PROVE Spec => []BloomMapComplete
BY ReadInvariant, TypeCorrect, InvIsComplete, PTL

(***************************************************************************)
(* scan returns the current entries of its range or an error, never an old *)
(* value, however the clock behaves: it reads every table in data_dir.     *)
(***************************************************************************)
THEOREM ScanIsCorrect == Spec => []ScanReturnsContents
BY TypeCorrect, TypesGiveScan, PTL

=============================================================================
