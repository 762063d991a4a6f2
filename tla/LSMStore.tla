------------------------------ MODULE LSMStore ------------------------------
(***************************************************************************)
(* The LSM-tree store of src/src/store/lsm.rs: client transactions, the    *)
(* background flush task and the shutdown task running concurrently over   *)
(* the shared memtable, bloom map and commit log, with crashes, I/O errors *)
(* and restarts.                                                           *)
(*                                                                         *)
(* Atomicity follows the RwLocks.  A step that holds `data` for writing    *)
(* (applying a transaction, all of write_sstable) excludes the other; the  *)
(* `commit_log` lock is taken for one line by begin_transaction and for    *)
(* the whole EndTx loop by write_sstable.  write_sstable is cut where a    *)
(* crash, an I/O error or a transaction being logged can come in between.  *)
(***************************************************************************)
EXTENDS CommitLog, SSTable

CONSTANTS
  ClockSteps,        \* how far the clock may move between two time stamps
  MaxWriters,        \* how many transactions clients run at the same time
  MaxFaults,         \* bound on crashes and I/O errors together
  MaxIoErrors,       \* bound on I/O errors
  MemtableMaxBytes,  \* memtable_max_bytes
  Subscribers        \* whether anyone holds a receiver from events()

ASSUME BoundsAssumption ==
  /\ ClockSteps \subseteq Int
  /\ {MaxWriters, MaxFaults, MaxIoErrors, MemtableMaxBytes} \subseteq Nat
  /\ Subscribers \in BOOLEAN

VARIABLES
  mode,        \* "down", "up", or "failed": initialize returned Err
  memtable,    \* LSMData.memtable
  txIds,       \* LSMData.tx_ids
  bloomMap,    \* path -> keys of its bloom filter
  isShutdown,  \* LSMState.is_shutdown
  flush,       \* the write_sstable call holding the data lock
  bgpc,        \* where the background flush task is
  sdpc,        \* where the shutdown task is
  log,         \* the commit log file
  logMtime,    \* its modification time
  sst,         \* the SSTable files in data_dir: path -> file
  bloomFile,   \* the bloom_map file
  now,         \* the clock
  tx,          \* what each client knows of its transaction
  before,      \* before[t]: transactions resolved when t began (history)
  crashes,     \* crashes so far
  ioErrors     \* I/O errors so far

volatile == <<memtable, txIds, bloomMap, isShutdown, flush, bgpc, sdpc>>
disk == <<log, logMtime, sst, bloomFile>>
clients == <<tx, before>>
faults == <<crashes, ioErrors>>
vars == <<mode, volatile, disk, now, clients, faults>>

Caller == {"bg", "sd"}
NoFlush == [pc |-> "idle", by |-> "bg", path |-> 0, ended |-> 0]
\* Reading the clock, or having a file stamped with it.
Tick == \E d \in ClockSteps : now' = now + d

\* A write or a sync may return Err.
IoMayFail == ioErrors < MaxIoErrors /\ crashes + ioErrors < MaxFaults

NoPaths == [p \in {} |-> {}]
NoBloomFile == [status |-> "none", map |-> NoPaths, mtime |-> 0]

(***************************************************************************)
(* Types.  A path is the time stamp in the file's name.                    *)
(***************************************************************************)
IsBloomMap(m) ==
  DOMAIN m \subseteq Int /\ m \in [DOMAIN m -> SUBSET Key]

TypeOK ==
  /\ mode \in {"down", "up", "failed"}
  /\ memtable \in Table
  /\ txIds \in Seq(Tx)
  /\ IsBloomMap(bloomMap)
  /\ isShutdown \in BOOLEAN
  /\ flush \in [pc : {"idle", "writing", "ending"}, by : Caller,
                path : Int, ended : Nat]
  /\ flush.pc = "writing" => flush.path \in DOMAIN sst
  /\ bgpc \in {"off", "check", "size", "flush", "stopped", "dead"}
  /\ sdpc \in {"off", "idle", "flush", "bloom", "bloomwrite", "done", "dead"}
  /\ log \in Seq(Line)
  /\ logMtime \in Int
  /\ DOMAIN sst \subseteq Int /\ sst \in [DOMAIN sst -> File]
  /\ bloomFile.status \in {"none", "torn", "full"}
  /\ IsBloomMap(bloomFile.map) /\ bloomFile.mtime \in Int
  /\ now \in Int
  /\ tx \in [Tx -> {"new", "logged", "acked", "failed"}]
  /\ before \in [Tx -> SUBSET Tx]
  /\ crashes \in Nat /\ ioErrors \in Nat

(***************************************************************************)
(* Reads.  get and scan hold the data lock for reading, so they run when   *)
(* no flush is under way, and change nothing.                              *)
(***************************************************************************)
DataUnlocked == flush.pc = "idle"

\* sstables_for_key: the paths whose filter has the key.  A false positive
\* adds a path whose search answers None and the loop goes on to the next.
SSTablesForKey(k) == {p \in DOMAIN bloomMap : k \in bloomMap[p]}

\* search_sstables: the newest of them that knows the key answers.
\* Faulty variant: the tables are searched oldest first.
SearchSSTablesOldestFirst(k) ==
  LET hits == {p \in SSTablesForKey(k) : Search(sst[p], k) # Absent}
  IN  IF hits = {} THEN Absent
      ELSE Search(sst[CHOOSE p \in hits : \A q \in hits : p <= q], k)
SearchSSTables(k) ==
  LET hits == {p \in SSTablesForKey(k) : Search(sst[p], k) # Absent}
  IN  IF hits = {} THEN Absent ELSE Search(sst[Latest(hits)], k)

Get(k) ==
  IF AsOption(memtable[k]) # Absent THEN memtable[k] ELSE AsOption(SearchSSTables(k))

\* scan over [from, to): all the tables in data_dir, oldest first, each
\* overwriting the ones before, then the memtable; tombstones are dropped.
KeyRange(from, to) == {k \in Key : from <= k /\ k < to}
\* Faulty variant of ScanEntry: the memtable is merged in before the tables.
ScanEntryTablesLast(k) ==
  LET paths == {p \in DOMAIN sst : k \in FileKeys(sst[p])}
  IN  IF paths # {} THEN sst[Latest(paths)].table[k] ELSE memtable[k]
ScanEntry(k) ==
  LET paths == {p \in DOMAIN sst : k \in FileKeys(sst[p])}
  IN  CASE memtable[k] # Absent                -> memtable[k]
        [] memtable[k] = Absent /\ paths # {}  -> sst[Latest(paths)].table[k]
        [] memtable[k] = Absent /\ paths = {}  -> Absent
Scan(from, to) ==
  IF \E p \in DOMAIN sst : ScanFails(sst[p], KeyRange(from, to)) THEN Error
  ELSE [k \in {j \in KeyRange(from, to) : AsOption(ScanEntry(j)) # Absent} |-> ScanEntry(k)]

(***************************************************************************)
(* Start of the process: LSMStore::initialize.  Nothing else runs yet, so  *)
(* it is one step; it fails when any of the files it reads is unreadable.  *)
(***************************************************************************)
Init ==
  /\ mode = "down"
  /\ memtable = EmptyTable /\ txIds = <<>> /\ bloomMap = NoPaths
  /\ isShutdown = FALSE /\ flush = NoFlush /\ bgpc = "off" /\ sdpc = "off"
  /\ log = <<>> /\ logMtime = 0 /\ sst = NoPaths /\ bloomFile = NoBloomFile
  /\ now = 0
  /\ tx = [t \in Tx |-> "new"] /\ before = [t \in Tx |-> {}]
  /\ crashes = 0 /\ ioErrors = 0

\* restore_bloom_map_from_file takes the file unless the log is newer.
\* Faulty variant: the file is taken whenever it exists.
BloomFileExists == bloomFile.status # "none"
BloomFileUpToDate == bloomFile.status # "none" /\ ~(logMtime > bloomFile.mtime)

RestorableBloomMap ==
  \/ BloomFileUpToDate /\ bloomFile.status = "full"
  \/ ~BloomFileUpToDate /\ \A p \in DOMAIN sst : IndexReadable(sst[p])

RestoredBloomMap ==
  IF BloomFileUpToDate THEN bloomFile.map
  ELSE [p \in DOMAIN sst |-> FileKeys(sst[p])]

Initialize ==
  /\ mode # "up"
  /\ RestorableBloomMap
  /\ Decodes(log)
  /\ mode' = "up"
  /\ bloomMap' = RestoredBloomMap
  /\ memtable' = Replay(log)
  /\ \E lines \in UnfinishedLines(log) : txIds' = [i \in DOMAIN lines |-> log[lines[i]].tx]
  /\ bgpc' = "check" /\ sdpc' = "idle"
  /\ UNCHANGED <<isShutdown, flush, disk, now, clients, faults>>

InitializeFails ==
  /\ mode # "up"
  /\ ~(RestorableBloomMap /\ Decodes(log))
  /\ mode' = "failed"
  /\ UNCHANGED <<volatile, disk, now, clients, faults>>

(***************************************************************************)
(* Clients: do_transact.  begin_transaction holds the commit log lock for  *)
(* one line, then lets go of it; the operations are applied later, under   *)
(* the data lock, and transact returns Ok.                                 *)
(***************************************************************************)
InFlight == {t \in Tx : tx[t] = "logged"}

CanBegin(t) ==
  /\ mode = "up" /\ tx[t] = "new" /\ flush.pc # "ending"
  /\ Cardinality(InFlight) < MaxWriters

Began(t) == before' = [before EXCEPT ![t] = {u \in Tx : tx[u] \in {"acked", "failed"}}]

\* Faulty variant of BeginTransaction: the line is not written.
BeginUnlogged(t) ==
  /\ CanBegin(t)
  /\ Tick
  /\ tx' = [tx EXCEPT ![t] = "logged"] /\ Began(t)
  /\ UNCHANGED <<mode, volatile, disk, faults>>
BeginTransaction(t) ==
  /\ CanBegin(t)
  /\ Tick
  /\ log' = Append(log, BeginTx(t)) /\ logMtime' = now'
  /\ tx' = [tx EXCEPT ![t] = "logged"] /\ Began(t)
  /\ UNCHANGED <<mode, volatile, sst, bloomFile, faults>>

\* The write or the sync of the line returns Err, and so does transact.
BeginFails(t) ==
  /\ CanBegin(t) /\ IoMayFail
  /\ ioErrors' = ioErrors + 1
  /\ Tick
  /\ \E rest \in Leftovers(BeginTx(t)) :
       log' = log \o rest /\ logMtime' = IF rest = <<>> THEN logMtime ELSE now'
  /\ tx' = [tx EXCEPT ![t] = "failed"] /\ Began(t)
  /\ UNCHANGED <<mode, volatile, sst, bloomFile, crashes>>

ApplyTransaction(t) ==
  /\ mode = "up" /\ tx[t] = "logged" /\ DataUnlocked
  /\ txIds' = Append(txIds, t)
  /\ memtable' = Apply(memtable, t)
  /\ tx' = [tx EXCEPT ![t] = "acked"]
  /\ UNCHANGED <<mode, bloomMap, isShutdown, flush, bgpc, sdpc, disk, now, before, faults>>

(***************************************************************************)
(* write_sstable, called by the background task or the shutdown task.  It  *)
(* holds the data lock from its first to its last step.                    *)
(***************************************************************************)
Wants(by) ==
  mode = "up" /\ DataUnlocked /\ IF by = "bg" THEN bgpc = "flush" ELSE sdpc = "flush"

\* What the caller does with the result: the background task publishes an
\* event, and panics on Err or when the event has no receiver; the shutdown
\* task goes on to write the bloom map, and panics on Err.
Returns(by, result) ==
  IF by = "bg"
  THEN /\ bgpc' = IF result = "none" \/ (result = "path" /\ Subscribers) THEN "check" ELSE "dead"
       /\ UNCHANGED sdpc
  ELSE /\ sdpc' = IF result = "error" THEN "dead" ELSE "bloom"
       /\ UNCHANGED bgpc

FlushEmpty(by) ==
  /\ Wants(by) /\ memtable = EmptyTable
  /\ Returns(by, "none")
  /\ UNCHANGED <<mode, memtable, txIds, bloomMap, isShutdown, flush, disk, now, clients, faults>>

\* The bloom map lock, which write_bloom_map holds while it writes.
BloomMapUnlocked == sdpc # "bloomwrite"

\* SSTable::write refuses to overwrite the file of another flush.
FlushExists(by) ==
  /\ Wants(by) /\ memtable # EmptyTable /\ BloomMapUnlocked
  /\ Tick /\ now' \in DOMAIN sst
  /\ Returns(by, "error")
  /\ UNCHANGED <<mode, memtable, txIds, bloomMap, isShutdown, flush, disk, clients, faults>>

With(f, p, v) == [q \in DOMAIN f \cup {p} |-> IF q = p THEN v ELSE f[q]]

\* Faulty variants of FlushCreate: an existing file is overwritten; the time
\* in the path is read a second time for the file that is opened.
FlushOverwrite(by) ==
  /\ Wants(by) /\ memtable # EmptyTable /\ BloomMapUnlocked
  /\ Tick
  /\ sst' = With(sst, now', [status |-> "torn", table |-> memtable])
  /\ flush' = [pc |-> "writing", by |-> by, path |-> now', ended |-> 0]
  /\ UNCHANGED <<mode, memtable, txIds, bloomMap, isShutdown, bgpc, sdpc,
                 log, logMtime, bloomFile, clients, faults>>
FlushPathTwice(by) ==
  /\ Wants(by) /\ memtable # EmptyTable /\ BloomMapUnlocked
  /\ Tick /\ now' \notin DOMAIN sst
  /\ sst' = With(sst, now', [status |-> "torn", table |-> memtable])
  /\ flush' = [pc |-> "writing", by |-> by, path |-> now' + 1, ended |-> 0]
  /\ UNCHANGED <<mode, memtable, txIds, bloomMap, isShutdown, bgpc, sdpc,
                 log, logMtime, bloomFile, clients, faults>>

FlushCreate(by) ==
  /\ Wants(by) /\ memtable # EmptyTable /\ BloomMapUnlocked
  /\ Tick /\ now' \notin DOMAIN sst
  /\ sst' = With(sst, now', [status |-> "torn", table |-> memtable])
  /\ flush' = [pc |-> "writing", by |-> by, path |-> now', ended |-> 0]
  /\ UNCHANGED <<mode, memtable, txIds, bloomMap, isShutdown, bgpc, sdpc,
                 log, logMtime, bloomFile, clients, faults>>

\* The file is synced, its filter filled, the memtable replaced by an empty
\* one, and the commit log locked.
FlushWrite ==
  /\ flush.pc = "writing"
  /\ sst' = [sst EXCEPT ![flush.path].status = "full"]
  /\ bloomMap' = With(bloomMap, flush.path, KeysOf(memtable))
  /\ memtable' = EmptyTable
  /\ flush' = [flush EXCEPT !.pc = "ending"]
  /\ UNCHANGED <<mode, txIds, isShutdown, bgpc, sdpc, log, logMtime, bloomFile,
                 now, clients, faults>>

\* Faulty variant of FlushWriteFails: the error is dropped.
FlushWriteErrorIgnored ==
  /\ flush.pc = "writing" /\ IoMayFail
  /\ ioErrors' = ioErrors + 1
  /\ bloomMap' = With(bloomMap, flush.path, KeysOf(memtable))
  /\ memtable' = EmptyTable
  /\ flush' = [flush EXCEPT !.pc = "ending"]
  /\ UNCHANGED <<mode, txIds, isShutdown, bgpc, sdpc, disk, now, clients, crashes>>

FlushWriteFails ==
  /\ flush.pc = "writing" /\ IoMayFail
  /\ ioErrors' = ioErrors + 1
  /\ \E s \in Status : sst' = [sst EXCEPT ![flush.path].status = s]
  /\ flush' = NoFlush
  /\ Returns(flush.by, "error")
  /\ UNCHANGED <<mode, memtable, txIds, bloomMap, isShutdown, log, logMtime,
                 bloomFile, now, clients, crashes>>

\* Faulty variant of EndTransaction: the ids are ended in the reverse order.
EndReversed ==
  /\ flush.pc = "ending" /\ flush.ended < Len(txIds)
  /\ Tick
  /\ log' = Append(log, EndTx(txIds[Len(txIds) - flush.ended])) /\ logMtime' = now'
  /\ flush' = [flush EXCEPT !.ended = @ + 1]
  /\ UNCHANGED <<mode, memtable, txIds, bloomMap, isShutdown, bgpc, sdpc, sst,
                 bloomFile, clients, faults>>
EndTransaction ==
  /\ flush.pc = "ending" /\ flush.ended < Len(txIds)
  /\ Tick
  /\ log' = Append(log, EndTx(txIds[flush.ended + 1])) /\ logMtime' = now'
  /\ flush' = [flush EXCEPT !.ended = @ + 1]
  /\ UNCHANGED <<mode, memtable, txIds, bloomMap, isShutdown, bgpc, sdpc, sst,
                 bloomFile, clients, faults>>

\* One EndTx fails: the rest are not written and tx_ids keeps every id.
EndFails ==
  /\ flush.pc = "ending" /\ flush.ended < Len(txIds) /\ IoMayFail
  /\ ioErrors' = ioErrors + 1
  /\ Tick
  /\ \E rest \in Leftovers(EndTx(txIds[flush.ended + 1])) :
       log' = log \o rest /\ logMtime' = IF rest = <<>> THEN logMtime ELSE now'
  /\ flush' = NoFlush
  /\ Returns(flush.by, "error")
  /\ UNCHANGED <<mode, memtable, txIds, bloomMap, isShutdown, sst, bloomFile, clients, crashes>>

FlushReturn ==
  /\ flush.pc = "ending" /\ flush.ended = Len(txIds)
  /\ txIds' = <<>>
  /\ flush' = NoFlush
  /\ Returns(flush.by, "path")
  /\ UNCHANGED <<mode, memtable, bloomMap, isShutdown, disk, now, clients, faults>>

(***************************************************************************)
(* The background flush task.  Each tick it reads is_shutdown under the    *)
(* state lock, lets go of it, then sizes the memtable, then flushes.       *)
(***************************************************************************)
\* shutdown() holds the state lock for as long as it runs.
StateUnlocked == sdpc \notin {"flush", "bloom", "bloomwrite"}

\* mem::size_of_val on a BTreeMap: the size of the struct, not its entries.
MemtableSizeOfVal == 24

\* Faulty variant: the comparison is the wrong way round.
ShouldFlushSmallMemtable == memtable # EmptyTable /\ MemtableSizeOfVal < MemtableMaxBytes

ShouldFlushMemtable == memtable # EmptyTable /\ MemtableSizeOfVal >= MemtableMaxBytes

\* Faulty variant of BgCheck: is_shutdown is not looked at.
BgCheckNoShutdown ==
  /\ mode = "up" /\ bgpc = "check" /\ StateUnlocked
  /\ bgpc' = "size"
  /\ UNCHANGED <<mode, memtable, txIds, bloomMap, isShutdown, flush, sdpc, disk, now, clients, faults>>

BgCheck ==
  /\ mode = "up" /\ bgpc = "check" /\ StateUnlocked
  /\ bgpc' = IF isShutdown THEN "stopped" ELSE "size"
  /\ UNCHANGED <<mode, memtable, txIds, bloomMap, isShutdown, flush, sdpc, disk, now, clients, faults>>

BgSize ==
  /\ mode = "up" /\ bgpc = "size" /\ DataUnlocked
  /\ bgpc' = IF ShouldFlushMemtable THEN "flush" ELSE "check"
  /\ UNCHANGED <<mode, memtable, txIds, bloomMap, isShutdown, flush, sdpc, disk, now, clients, faults>>

(***************************************************************************)
(* The shutdown task: once signalled it flushes, then writes the bloom map *)
(* (if it has any path) to its file, truncating what was there.            *)
(***************************************************************************)
Signal ==
  /\ mode = "up" /\ sdpc = "idle"
  /\ isShutdown' = TRUE /\ sdpc' = "flush"
  /\ UNCHANGED <<mode, memtable, txIds, bloomMap, flush, bgpc, disk, now, clients, faults>>

SkipBloomMap ==
  /\ sdpc = "bloom" /\ flush.pc = "idle" /\ DOMAIN bloomMap = {}
  /\ sdpc' = "done"
  /\ UNCHANGED <<mode, memtable, txIds, bloomMap, isShutdown, flush, bgpc, disk, now, clients, faults>>

OpenBloomMap ==
  /\ sdpc = "bloom" /\ flush.pc = "idle" /\ DOMAIN bloomMap # {}
  /\ Tick
  /\ bloomFile' = [status |-> "torn", map |-> bloomMap, mtime |-> now']
  /\ sdpc' = "bloomwrite"
  /\ UNCHANGED <<mode, memtable, txIds, bloomMap, isShutdown, flush, bgpc,
                 log, logMtime, sst, clients, faults>>

WriteBloomMap ==
  /\ sdpc = "bloomwrite"
  /\ Tick
  /\ bloomFile' = [status |-> "full", map |-> bloomFile.map, mtime |-> now']
  /\ sdpc' = "done"
  /\ UNCHANGED <<mode, memtable, txIds, bloomMap, isShutdown, flush, bgpc,
                 log, logMtime, sst, clients, faults>>

WriteBloomMapFails ==
  /\ sdpc = "bloomwrite" /\ IoMayFail
  /\ ioErrors' = ioErrors + 1
  /\ Tick
  /\ \E s \in {"torn", "full"} :
       bloomFile' = [status |-> s, map |-> bloomFile.map, mtime |-> now']
  /\ sdpc' = "dead"
  /\ UNCHANGED <<mode, memtable, txIds, bloomMap, isShutdown, flush, bgpc,
                 log, logMtime, sst, clients, crashes>>

(***************************************************************************)
(* The process dies, or main returns.  A file being written keeps any part *)
(* of what was being written; what was synced stays.  A commit log line is *)
(* in flight when a client is logging its transaction or when the EndTx    *)
(* loop is running, and may have reached the file whole or in part.        *)
(***************************************************************************)
LinesInFlight ==
  IF flush.pc = "ending"
  THEN {EndTx(txIds[i]) : i \in {flush.ended + 1} \cap DOMAIN txIds}
  ELSE {BeginTx(t) : t \in {u \in Tx : CanBegin(u)}}

\* The client of a transaction that was not acknowledged never learns more.
Interrupted == [t \in Tx |-> IF tx[t] = "logged" THEN "failed" ELSE tx[t]]

Crash ==
  /\ mode = "up" /\ crashes + ioErrors < MaxFaults
  /\ mode' = "down" /\ crashes' = crashes + 1
  /\ memtable' = EmptyTable /\ txIds' = <<>> /\ bloomMap' = NoPaths
  /\ isShutdown' = FALSE /\ flush' = NoFlush /\ bgpc' = "off" /\ sdpc' = "off"
  /\ IF flush.pc = "writing"
     THEN \E s \in Status : sst' = [sst EXCEPT ![flush.path].status = s]
     ELSE UNCHANGED sst
  /\ Tick
  /\ IF sdpc = "bloomwrite"
     THEN \E s \in {"torn", "full"}, m \in {bloomFile.mtime, now'} :
            bloomFile' = [status |-> s, map |-> bloomFile.map, mtime |-> m]
     ELSE UNCHANGED bloomFile
  /\ \/ UNCHANGED <<log, logMtime, before>> /\ tx' = Interrupted
     \/ \E line \in LinesInFlight :
          /\ \E rest \in Leftovers(line) \ {<<>>} : log' = log \o rest
          /\ logMtime' = now'
          /\ IF tx[line.tx] = "new"
             THEN tx' = [Interrupted EXCEPT ![line.tx] = "failed"] /\ Began(line.tx)
             ELSE tx' = Interrupted /\ UNCHANGED before
  /\ UNCHANGED ioErrors

(***************************************************************************)
(* The specification.                                                      *)
(***************************************************************************)
Transact(t) == BeginTransaction(t) \/ BeginFails(t) \/ ApplyTransaction(t)
FlushStart(by) == FlushEmpty(by) \/ FlushExists(by) \/ FlushCreate(by)
FlushRest == FlushWrite \/ FlushWriteFails \/ EndTransaction \/ EndFails \/ FlushReturn
Background == BgCheck \/ BgSize \/ FlushStart("bg")
BloomStep == SkipBloomMap \/ OpenBloomMap \/ WriteBloomMap \/ WriteBloomMapFails
Shutdown == FlushStart("sd") \/ BloomStep

Next ==
  \/ Initialize \/ InitializeFails \/ Crash
  \/ \E t \in Tx : Transact(t)
  \/ Background \/ FlushRest
  \/ Signal \/ Shutdown

Spec == Init /\ [][Next]_vars

\* tokio polls every task that can run: the flush task (its 1s interval
\* keeps ticking), the shutdown task, and the connection that runs a
\* transaction.  A client need not start one and no signal need come.
Fairness ==
  /\ WF_vars(Initialize)
  /\ WF_vars(Background)
  /\ WF_vars(FlushRest)
  /\ WF_vars(Shutdown)
  /\ \A t \in Tx : WF_vars(ApplyTransaction(t))

FairSpec == Spec /\ Fairness

(***************************************************************************)
(* Properties.                                                             *)
(*                                                                         *)
(* CurrentEntry(k) is the newest entry the store holds for k: in the       *)
(* memtable, or else in the newest complete SSTable.  While the process is *)
(* down the memtable is the one that replaying the log would build.        *)
(***************************************************************************)
CurrentMemtable == IF mode = "up" THEN memtable ELSE Replay(log)
FullTables(k) == {p \in DOMAIN sst : sst[p].status = "full" /\ k \in FileKeys(sst[p])}
CurrentEntry(k) ==
  LET entry  == CurrentMemtable[k]
      tables == FullTables(k)
  IN  IF entry # Absent THEN entry
      ELSE IF tables # {} THEN sst[Latest(tables)].table[k] ELSE Absent
Contents == [k \in Key |-> AsOption(CurrentEntry(k))]

(***************************************************************************)
(* Durability of transact (lsm.rs do_transact and write_sstable): once a   *)
(* client has its Ok, at every moment, crashes and I/O errors included,    *)
(* either the commit log would replay the transaction or every key it      *)
(* touched is in a complete SSTable.  EndTx is never logged too early.     *)
(***************************************************************************)
Stored(t) == \A k \in Key : Touches(t, k) => FullTables(k) # {}
AckedIsDurable ==
  \A t \in Tx : tx[t] = "acked" => Stored(t) \/ \E i \in Open(log) : log[i].tx = t

(***************************************************************************)
(* Why AckedIsDurable holds, as an invariant that every step preserves.    *)
(* do_transact logs a BeginTx once, before anything else; an EndTx line is *)
(* only for what complete tables hold; the ids in tx_ids are covered by    *)
(* the memtable and complete tables together; and a flush under way writes *)
(* exactly the memtable, then clears it.                                   *)
(***************************************************************************)
BeginsLogged ==
  \A t \in Tx : tx[t] \in {"logged", "acked"} => \E i \in DOMAIN log : log[i] = BeginTx(t)
BeginsOnce ==
  /\ \A i, j \in DOMAIN log :
       log[i].type = "begin" /\ log[j].type = "begin" /\ log[i].tx = log[j].tx => i = j
  /\ \A i \in DOMAIN log : log[i].type = "begin" => tx[log[i].tx] # "new"
EndsStored ==
  \A i \in DOMAIN log : log[i].type = "end" => Stored(log[i].tx)
IdsHeld ==
  \A i \in DOMAIN txIds, k \in Key :
    Touches(txIds[i], k) => memtable[k] # Absent \/ FullTables(k) # {}
FlushConsistent ==
  /\ flush.pc # "idle" => mode = "up"
  /\ flush.pc = "writing" => sst[flush.path] = [status |-> "torn", table |-> memtable]
  /\ flush.pc = "ending" => memtable = EmptyTable
DurabilityInv ==
  BeginsLogged /\ BeginsOnce /\ EndsStored /\ IdsHeld /\ FlushConsistent

(***************************************************************************)
(* No lost update (do_transact, write_sstable, restore_previous_txs): the  *)
(* current entry of a key an acknowledged t wrote was written by t or by a *)
(* transaction that was not already acknowledged when t began.  It holds   *)
(* across flushes, crashes and recoveries.  Without I/O errors a           *)
(* transaction that a crash had resolved before t began does not come back *)
(* either.                                                                 *)
(***************************************************************************)
NoLostUpdate ==
  \A k \in Key :
    LET entry == CurrentEntry(k)
        source == {u \in Tx : Touches(u, k) /\ tx[u] # "new" /\ entry = Final(u, k)}
    IN  \A t \in Tx : tx[t] = "acked" /\ Touches(t, k) =>
          \E u \in source : ~(u \in before[t] /\ (tx[u] = "acked" \/ ioErrors = 0))

(***************************************************************************)
(* Why NoLostUpdate holds when the clock moves on between two time stamps, *)
(* as an invariant that every step preserves.  Settled(u) says when the    *)
(* order of u before later transactions is kept.                           *)
(***************************************************************************)
Started(t) == \E i \in DOMAIN log : log[i] = BeginTx(t)
Ended(t) == \E i \in DOMAIN log : log[i] = EndTx(t)
Settled(u) == tx[u] = "acked" \/ (tx[u] = "failed" /\ ioErrors = 0)

\* BeginTx lines stand in the order in which transactions began, and each
\* EndTx line, and each id in tx_ids, is that of a BeginTx line before it.
LinesOrdered ==
  /\ \A t \in Tx : \A u \in before[t] : tx[u] \in {"acked", "failed"}
  /\ \A i, j \in DOMAIN log :
       log[i].type = "begin" /\ log[j].type = "begin" /\ log[i].tx \in before[log[j].tx] => i < j
  /\ \A i \in DOMAIN log :
       log[i].type = "end" => \E j \in DOMAIN log : j < i /\ log[j] = BeginTx(log[i].tx)
  /\ \A i \in DOMAIN txIds : Started(txIds[i])
\* write_sstable will end what is settled, and has ended the ids it passed.
SettledHeld ==
  /\ mode = "up" =>
       \A u \in Tx : Settled(u) /\ Started(u) => Ended(u) \/ \E i \in DOMAIN txIds : txIds[i] = u
  /\ flush.pc # "idle" =>
       \A i \in DOMAIN txIds : i <= flush.ended => Ended(txIds[i])
\* tx_ids, and so the EndTx lines, follow the order of the transactions.
EndsOrdered ==
  /\ \A i \in DOMAIN txIds : \A u \in before[txIds[i]] : Settled(u) /\ Started(u) =>
       Ended(u) \/ \E j \in DOMAIN txIds : j < i /\ txIds[j] = u
  /\ \A t \in Tx : Ended(t) => \A u \in before[t] : Settled(u) /\ Started(u) => Ended(u)
\* u may be what an acknowledged transaction on k left or was followed by.
Fresh(u, k) ==
  /\ Touches(u, k) /\ tx[u] # "new"
  /\ \A t \in Tx : tx[t] = "acked" /\ Touches(t, k) => ~(u \in before[t] /\ Settled(u))
EntriesFresh ==
  \A k \in Key : (\E t \in Tx : tx[t] = "acked" /\ Touches(t, k)) =>
    \E u \in Tx : Fresh(u, k) /\ CurrentEntry(k) = Final(u, k)
OrderInv == LinesOrdered /\ SettledHeld /\ EndsOrdered /\ EntriesFresh

(***************************************************************************)
(* All or nothing (do_transact, write_sstable, Replay): every entry can be *)
(* put down to a transaction in the log such that, when one key shows t,   *)
(* every other key t touched shows t too or a transaction that was not     *)
(* settled before t began.  No crash or flush leaves half of t.            *)
(***************************************************************************)
WrittenBy(writer) ==
  \A k \in DOMAIN writer :
    /\ Started(writer[k]) /\ Touches(writer[k], k) /\ CurrentEntry(k) = Final(writer[k], k)
    /\ \A l \in Key : Touches(writer[k], l) =>
         l \in DOMAIN writer /\ ~(writer[l] \in before[writer[k]] /\ Settled(writer[l]))
AllOrNothing ==
  \E writer \in [{k \in Key : CurrentEntry(k) # Absent} -> Tx] : WrittenBy(writer)

(***************************************************************************)
(* For every log the store starts from, Open has exactly the lines that    *)
(* the loop of get_unfinished_transactions is left with.                   *)
(***************************************************************************)
OpenIsLoop == mode = "down" /\ Decodes(log) => Open(log) = {Loop(log)[t] : t \in Tx} \ {0}

(***************************************************************************)
(* For every log the store starts from, there is one ascending list of     *)
(* those lines, and applying its transactions one by one, as               *)
(* restore_previous_txs does, builds the table that Replay defines.        *)
(***************************************************************************)
ReplayIsRestore ==
  mode = "down" /\ Decodes(log) =>
    \E lines \in UnfinishedLines(log) :
      /\ UnfinishedLines(log) = {lines}
      /\ Replay(log) = Restored([i \in DOMAIN lines |-> log[lines[i]].tx])

(***************************************************************************)
(* decode_from (commit_log.rs): a log whose lines were all written whole   *)
(* reads back if it fits the BufReader's buffer and no payload has more    *)
(* than the ReadChunk bytes that the one read of a payload returns.        *)
(***************************************************************************)
LogDecodes ==
  mode = "down" /\ Ends(log)[Len(log)] <= BufCap
    /\ (\A i \in DOMAIN log : log[i].type \in {"begin", "end"} /\ Payload(log[i]) <= ReadChunk)
    => Decodes(log)

(***************************************************************************)
(* get (lsm.rs) through the bloom map returns the current entry of every   *)
(* key without a tombstone in the memtable, and never an error, whatever   *)
(* flushes, crashes and bloom map files came before.                       *)
(***************************************************************************)
GetReturnsContents ==
  mode = "up" /\ DataUnlocked =>
    \A k \in Key : memtable[k] # Tombstone => Get(k) = Contents[k]

(***************************************************************************)
(* scan (lsm.rs) returns exactly the current entries in its range, deleted *)
(* keys left out, or an error: never an old value.                         *)
(***************************************************************************)
ScanReturnsContents ==
  mode = "up" /\ DataUnlocked =>
    LET c == Contents IN
    \A from, to \in Key \cup {k + 1 : k \in Key} : from <= to =>
      Scan(from, to) \in
        {Error, [k \in {j \in KeyRange(from, to) : c[j] # Absent} |-> c[k]]}

(***************************************************************************)
(* The bloom map a running store uses (restore_bloom_map, write_sstable)   *)
(* leads to every key of every complete SSTable: the memtable answers for  *)
(* it, or the filter of that table or of a newer one has it.               *)
(***************************************************************************)
BloomMapComplete ==
  mode = "up" /\ DataUnlocked =>
    \A p \in DOMAIN sst : sst[p].status = "full" =>
      \A k \in FileKeys(sst[p]) :
        memtable[k] # Absent \/ \E q \in DOMAIN bloomMap : q >= p /\ k \in bloomMap[q]

(***************************************************************************)
(* Why GetReturnsContents and BloomMapComplete hold when the clock moves   *)
(* on between two time stamps, as an invariant that every step preserves.  *)
(* Covered(k): recovery would replay a transaction on k.  Held(k): the     *)
(* memtable, or the one recovery would build, has an entry for k.          *)
(***************************************************************************)
ClockAdvances == \A d \in ClockSteps : d > 0

Covered(k) == \E i \in Open(log) : Touches(log[i].tx, k)
Held(k) == IF mode = "up" THEN memtable[k] # Absent ELSE Covered(k)
Leads(map, p, k) == \E q \in DOMAIN map : q >= p /\ k \in map[q]

\* Files were stamped in the past, and the one being written last.
TimesPast ==
  /\ \A p \in DOMAIN sst : p <= now /\ (flush.pc = "writing" => p <= flush.path)
  /\ bloomFile.mtime <= now
\* write_sstable ends only transactions whose client was answered or is gone.
EndsResolved ==
  /\ \A i \in DOMAIN txIds : tx[txIds[i]] \in {"acked", "failed"}
  /\ \A i \in DOMAIN log : log[i].type = "end" => tx[log[i].tx] \in {"acked", "failed"}
  /\ mode # "up" => \A t \in Tx : tx[t] # "logged"
\* The memtable has nothing that the log would not bring back.
MemtableLogged == mode = "up" => \A k \in Key : memtable[k] # Absent => Covered(k)
\* The filters are those of existing tables.
FiltersTrue ==
  /\ \A p \in DOMAIN bloomMap : p \in DOMAIN sst /\ bloomMap[p] = FileKeys(sst[p])
  /\ \A p \in DOMAIN bloomFile.map : p \in DOMAIN sst /\ bloomFile.map[p] = FileKeys(sst[p])
\* A table that was not written to its end hides nothing.
TornHidden ==
  \A p \in DOMAIN sst, k \in Key :
    sst[p].status # "full" /\ k \in FileKeys(sst[p]) => Held(k) \/ \E q \in FullTables(k) : q > p
BloomMapLeads ==
  mode = "up" =>
    \A k \in Key : \A p \in FullTables(k) : memtable[k] # Absent \/ Leads(bloomMap, p, k)
\* The bloom_map file leads as far, unless recovery will not use it.
BloomFileLeads ==
  /\ mode # "up" => sdpc = "off"
  /\ sdpc = "bloomwrite" => flush.pc = "idle"
  /\ \A k \in Key : \A p \in FullTables(k) :
       \/ Covered(k) \/ Leads(bloomFile.map, p, k)
       \/ ~BloomFileUpToDate /\ sdpc # "bloomwrite"
ReadInv ==
  /\ TimesPast /\ EndsResolved /\ MemtableLogged /\ FiltersTrue
  /\ TornHidden /\ BloomMapLeads /\ BloomFileLeads

(***************************************************************************)
(* SSTable::write never touches a complete table again.                    *)
(***************************************************************************)
TablesImmutable ==
  [][\A p \in DOMAIN sst : sst[p].status = "full" => p \in DOMAIN sst' /\ sst'[p] = sst[p]]_vars

(***************************************************************************)
(* With one client at a time, the store implements MemoryStore: every step *)
(* leaves the contents alone or applies one transaction, whole and for the *)
(* first time.  A transaction that a crash interrupts after its line was   *)
(* logged runs at that moment, as the log will replay it.                  *)
(***************************************************************************)
Ran ==
  {t \in Tx : \/ tx[t] = "acked"
              \/ tx[t] = "failed" /\ \E i \in DOMAIN log : log[i] = BeginTx(t)}
Abstract == INSTANCE MemoryStore WITH data <- Contents, done <- Ran
ImplementsMemoryStore == Abstract!Spec

(***************************************************************************)
(* Why it does when the clock moves on and no I/O error occurs, as an      *)
(* invariant that every step preserves: each transaction begins after all  *)
(* those before it in the log were resolved, and the entry of a key is the *)
(* one that the last of them that ran gave it.                             *)
(***************************************************************************)
RanOn(k) ==
  {i \in DOMAIN log : log[i].type = "begin" /\ log[i].tx \in Ran /\ Touches(log[i].tx, k)}
LinesSerial ==
  \A i, j \in DOMAIN log :
    log[i].type = "begin" /\ log[j].type = "begin" /\ i < j => log[i].tx \in before[log[j].tx]
EntriesSerial ==
  \A k \in Key :
    CurrentEntry(k) = IF RanOn(k) = {} THEN Absent ELSE Final(log[Latest(RanOn(k))].tx, k)
SerialInv == ioErrors = 0 /\ LinesSerial /\ EntriesSerial

(***************************************************************************)
(* Every acknowledged transaction is eventually flushed and marked ended   *)
(* by the background task, unless the store is told to shut down.          *)
(***************************************************************************)
AckedIsFlushed ==
  \A t \in Tx : tx[t] = "acked" ~> (isShutdown \/ \E i \in DOMAIN log : log[i] = EndTx(t))

(***************************************************************************)
(* A signalled shutdown runs to its end, and the background task stops:    *)
(* the locks they share with clients and each other never block for ever.  *)
(***************************************************************************)
ShutdownCompletes ==
  isShutdown ~> (sdpc \in {"done", "dead"} /\ bgpc \in {"stopped", "dead"})

(***************************************************************************)
(* What comments and assertions in the source say, and the code does not   *)
(* keep to under every configuration.                                      *)
(***************************************************************************)

(***************************************************************************)
(* MemoryStore (mod.rs:91) removes a deleted key; get on LSMStore should   *)
(* find nothing either when the newest entry of a key is a tombstone.      *)
(***************************************************************************)
GetHidesDeleted ==
  mode = "up" /\ DataUnlocked =>
    \A k \in Key : CurrentEntry(k) = Tombstone => Get(k) = Absent

(***************************************************************************)
(* commit_log.rs:2: after an unplanned shutdown the store recovers, that   *)
(* is, initialize never returns an error.                                  *)
(***************************************************************************)
RecoverySucceeds == mode # "failed"

=============================================================================
