# TLA+ verification of kave

kave is a key/value server in Rust. A process has a *store* (an LSM tree with a
commit log), a *client server* and a *cluster server* speaking over TLS, and a
`main` that starts them and shuts them down. This directory models the store
(transactions against flushes, crashes, I/O errors, shutdown and other clients),
the bytes of an SSTable file, the wire protocol of a client connection, and the
life of the process's tasks from start to shutdown.

## Inventory of the system

| part | source | state and operations | modelled by |
|------|--------|----------------------|-------------|
| values and transactions | `store/mod.rs`, `store/lsm.rs` | `Operation`, `Transaction`, `Value` | `Transactions` |
| in-memory store | `store/mod.rs` | one map behind a mutex; `get`, `scan`, `transact` | `MemoryStore` |
| commit log | `store/lsm/commit_log.rs` | an append-only file; `begin_transaction`, `end_transaction`, `get_unfinished_transactions` | `CommitLog` |
| SSTables | `store/lsm/sstable.rs` | immutable files; `write`, `search`, `scan`, `keys` | `SSTableFormat` (bytes), `SSTable` (what the store sees) |
| LSM store | `store/lsm.rs` | memtable, `tx_ids`, bloom map and its file, `is_shutdown`; `initialize`, `transact`, `get`, `scan`, flush task, shutdown task | `LSMStore` |
| wire protocol | `proto.rs` | a read buffer and a parser with its residual bytes; the answers | `Proto` |
| client connections | `server/client.rs` | `handle`: read, run on the store, answer | `Connection` |
| client server | `server/client.rs` | accept loop, kill broadcast | `Server` |
| cluster server | `server/cluster.rs` | start and stop of the client server, accept loop, echo connections | `Server` |
| process | `main.rs` | ctrl-c against server end, two timeouts | `Server` |
| client library, configuration, setup, errors, crypto | `client.rs`, `config.rs`, `main.rs`, `server/mod.rs`, `error.rs`, `lib.rs`, `crypto.rs` | none that changes | no, see *Not modelled* |

`PROJECT.json` has the same list, the source lines of every definition, and the
hazards: what can go wrong in this code that a test would hardly reach.

How they interact: `Connection` uses the store through `get` and `transact`
(here a map whose calls may fail; `LSMStore` is what is behind it); `Server`
starts and ends connections and asks the store to shut down (`StoreShutdown`
there is `Signal` and what follows it in `LSMStore`; the process's end is
`Crash` there, at any point). `LSMStore` uses files as `SSTable` describes them,
and `SSTableFormat` shows that the bytes behave so.

## The modules

* **Transactions** — keys (integers, so that ranges have an order), values,
  transaction ids and their operations. `Apply(table, t)` runs the operations of
  `t` in order: the last one on a key decides. Ids come from `Uuid::new_v4` and
  are taken to be unique.
* **MemoryStore** — the reference implementation of the `Store` trait, used as
  the abstract specification.
* **CommitLog** — a log is a sequence of lines: `BeginTx`, `EndTx`, or a line cut
  short in its length (`short_header`) or its payload (`short_body`). `Decodes`
  says whether recovery can read it: each payload is decoded from *one*
  `read_buf` call, which returns at most `ReadChunk` (64) bytes and stops at the
  end of the `BufReader`'s buffer (`BufCap`, 8 KiB). `Open` has the lines of
  unfinished transactions and `Replay` the memtable they rebuild; `Loop` and
  `Restored` are the two loops of the code, step by step, to compare them with.
* **SSTable** — a file is `full`, has a complete index but not all its values
  (`index`), or not even that (`torn`).
* **SSTableFormat** — the bytes of that file. `write` appends the size of the
  index, the index and the values one by one; `Cut` ends it at any byte. A byte
  is a pair of the part it belongs to and its place there, so a read from a
  wrong offset or of too few bytes shows. `AsFile` maps the bytes to `SSTable`.
* **LSMStore** — everything in `lsm.rs`. Atomicity follows the locks: a
  step that holds the `data` lock for writing excludes the others, and
  `write_sstable` is cut where a crash, an I/O error or a transaction being
  logged can come in between:

  | action | code |
  |--------|------|
  | `Initialize`, `InitializeFails` | `initialize`: bloom map from file or tables, replay of the log, start of the tasks |
  | `BeginTransaction`, `BeginFails` | `do_transact` up to the release of the commit log lock |
  | `ApplyTransaction` | the rest of `do_transact`; the client gets its Ok |
  | `FlushEmpty`, `FlushExists`, `FlushCreate` | `write_sstable` to the creation of the file |
  | `FlushWrite`, `FlushWriteFails` | the rest of `SSTable::write`, bloom filter, new memtable |
  | `EndTransaction`, `EndFails`, `FlushReturn` | the `EndTx` loop, `tx_ids` reset, and what the caller does with the result |
  | `BgCheck`, `BgSize` | the flush task reads `is_shutdown`, then sizes the memtable |
  | `Signal`, `SkipBloomMap`, `OpenBloomMap`, `WriteBloomMap`, `WriteBloomMapFails` | the shutdown task |
  | `Crash` | the process dies, or `main` returns, with any file write half done |

  `get` and `scan` change nothing and hold the `data` lock for reading; they
  are the operators `Get` and `Scan`, compared with the contents in every state
  in which that lock is free.
* **Proto** — `Proto::read`. `rd` has the locals of the call under way, `buf` and
  `fresh` the fields that outlive it; one action is one pass of `'state_loop`
  (one byte of a length). `ReadBuf(n)` returns any number of the bytes that are
  there, so requests are cut into reads in every way. `ptr` is set to 3 or 4
  after an operation, as in the code.
* **Connection** — `Connection::handle` over `Proto` and a store, with a client
  that sends requests as the doc comment of `Proto::read` describes them, waits
  for each answer, and may go at any byte: with a clean close, without
  (`eof`), or with a reset.
* **Server** — `run()`, both servers, their connections and the store's shutdown
  task, and the channels between them. A task that ends or panics drops its ends
  of the channels: receivers of the other side get ready, senders fail. So
  `client \in Stopped` stands for "`client_svr_shutdown_recv` is ready", and so on.
* **MCLSMStore**, **MCConnection**, **MCSSTableFormat** — small instances.
  `Server` needs no definitions of its own for its instance.
* **LSMStoreProofs**, **LSMDurabilityProofs**, **LSMReadProofs**,
  **LSMOrderProofs**, **LSMRefinementProofs** (each extends the one before it),
  **SSTableFormatProofs** and **ServerProofs** — theorems.
* **Loops** — two facts about loops of any length that those proofs share.

Definitions marked "Faulty variant" are what a plausible bug would make of the
definition below them; each property of a passing run is violated when one of
them takes that definition's place.

### What the model assumes

* What `sync_all` returned Ok for is on disk, its directory entry included; what
  was being written when the process died is there whole, in part (a prefix) or
  not at all. A write error is returned by the write or by `sync_all`.
* Bytes read from the wrong place after a torn line do not decode (the length
  read there is 0, and an empty payload does not deserialize).
* In `LSMStore` a file whose values are incomplete answers Err for every value
  in it. That is pessimistic: `SearchIsRight` shows that the bytes give either
  that Err or the right value.
* A false positive of a bloom filter makes `search` answer None and the loop go
  on to the next table, so filters are exact sets of keys.
* Modification times and the time in SSTable names come from one clock, `now`.
  `ClockSteps` says how it may move: always forward, standing still, or back.
* `scan` is called with `from <= to` (`BTreeMap::range` panics otherwise).
* A read on a TLS stream returns Ok(0) after close_notify, `UnexpectedEof` when
  the other side is gone without it, and another error after a reset.
* Library facts the model uses: `bytes` reserves 64 bytes for a read into an
  empty `Vec`; `BufReader` holds 8 KiB; one read of a tokio file returns at most
  16 KiB (`MaxRead`); bincode sizes; a broadcast `send` without receivers is an
  error; `select!` picks at random among the branches that are ready.

## The runs

Bounds of the store's runs: one key and two transactions are enough for two
writers of one key to race each other, a flush and a crash; the runs about whole
transactions use two keys and two or three transactions, one of them with two
operations. Every transaction writes values of its own, so a value tells who
wrote it. `MaxFaults` bounds crashes and I/O errors together: two let a store
crash, recover and crash while it flushes what it recovered, or meet a failing
write before or after a crash.
`sst_format` takes every table over three keys of two lengths with values that
are deleted, empty, long or longer: the index and the long value take exactly
the bytes one read returns, the longer value one byte more. `connection` has one request of each kind with a padding before
the newline, values full of colons and digits and a two digit length; reads of
up to 6 bytes make every state of the parser resume at every byte. `server` has
two client connections and one cluster connection, so that the kill finds none,
some or all of them subscribed. A process may stop for good, a client may never
send again, and a file is written once: deadlock is not checked.

| run | shows |
|-----|-------|
| `lsm_crash` | With a flush at every tick and two faults anywhere: `AckedIsDurable` (what transact acknowledged is in the log or in complete tables), `NoLostUpdate` (no acknowledged write is undone by an older one), `GetReturnsContents` and `BloomMapComplete` (reads find it through the bloom map, however that was restored); and the inductive invariants of the proofs, `DurabilityInv`, `ReadInv` and `OrderInv`. |
| `lsm_production` | With the production limit, no event subscriber and a crash: `AllOrNothing`, `NoLostUpdate`, `ScanReturnsContents`. For every log a start finds: `OpenIsLoop` and `ReplayIsRestore` (the declarative definitions agree with the code's loops), and `LogDecodes` (the log reads back) with payloads of exactly 64 bytes. |
| `lsm_refines` | With one client at a time LSMStore implements MemoryStore: every step, a crash and a recovery included, leaves `Contents` alone or applies one whole transaction, once. `SerialInv` is the inductive invariant of its proof. The clock may stand still, so two flushes can get the same path: `TablesImmutable`. |
| `lsm_live` | `AckedIsFlushed` and `ShutdownCompletes`. |
| `sst_format` | `SearchIsRight` and `ScanIsRight`: through the offsets `write` stored, on a file cut anywhere, the answer is the right one or an error that `SSTable` allows; never another key's value, never a part of a range. `FormatInv` is the inductive invariant of their proof. |
| `connection` | `ReadsWhatWasSent` (however the bytes are cut), `AnswersMatch` (what the client can decode is right, also after store errors), `ErrOnlyForShortRead`, `RequestsAnswered`, `KillEndsConnection`, `EofEndsConnection`. |
| `server` | `OrderlyEnd` (what Ok of `run()` means) and its inductive form `EndInv`; `ShutdownSucceeds` and `StopsTogether`: with bind errors, panics and timeouts at any point, a stop of one task reaches the others. |

Properties that need care to read:

* `GetReturnsContents` leaves out keys whose entry in the memtable is a
  tombstone; that case is `GetHidesDeleted`, below.
* `ImplementsMemoryStore` holds for one client at a time. With two, logging and
  applying may happen in opposite orders, and a crash then changes which of two
  concurrent writes is seen.
* A transaction whose client was told of an error may still take effect.
* `NoLostUpdate` needs a clock that is not set back: tables are ordered by the
  wall clock time in their names (`lsm.rs:280`). `BloomMapComplete` needs one
  that does not stand still: equal modification times count as up to date
  (`lsm.rs:393`).
* `AckedIsFlushed` needs a subscriber to the event channel (`lsm.rs:223` panics
  without) and a limit of at most 24 bytes, the size of the `BTreeMap` struct
  (`lsm.rs:266`). `main.rs` has neither: there only shutdown flushes.
* `LogDecodes` says what it needs: payloads of at most one read, in a log of at
  most one buffer (`commit_log.rs:46`). So does the exact half of `SearchIsRight`
  and `ScanIsRight` (`OneReadEach`, `sstable.rs:94`); that the answer is never a
  wrong one holds for every size.
* `AllOrNothing` looks for one writer per key that explains the whole state: a
  transaction shown by one key is shown by all of its keys, unless one that was
  not over when it began wrote there too.
* `ErrOnlyForShortRead` in `connection` is for a client whose next request never
  shares a read with the end of the last, and whose arguments have no newline.
* `RequestsAnswered` leaves out a client that closes cleanly in the middle of a
  request: reads then return Ok(0) at once, and the task spins until the kill.

Fairness. `LSMStore`: tokio polls every task that can run, so the flush task
(its interval keeps ticking), a flush under way, the shutdown task, start-up and
the connection applying a transaction all go on (weak fairness). Nobody has to
start a transaction or send a signal, and no fault has to happen. `Connection`:
weak fairness of the handler's steps; strong fairness of `ReadingKilled`, because
`select!` chooses at random, so a pending kill is taken in the end although the
socket may be ready each time. The client need not do anything. `Server`: weak
fairness of `run()`, both servers and the store's shutdown task; nobody presses
ctrl-c, connects or sends, and no timeout has to fire.

### Where the code differs from what it says

Each of these runs checks one statement found in a comment, a doc or an
assertion, and TLC finds a behaviour of the code that breaks it.

| run | statement | what happens |
|-----|-----------|--------------|
| `v_delete` | `mod.rs:91`, Delete removes the key | `get` skips the memtable's tombstone and returns the value in an older table |
| `v_recovery` | `commit_log.rs:2`, the log serves to recover from an unplanned shutdown | a line, index or bloom map cut short makes every later start fail |
| `v_residual` | `proto.rs:270` and `350`, bytes behind a request are kept for the next | `ptr` is set to 3 or 4 instead of being advanced (`proto.rs:359`): a request that shares a read with the end of the one before is refused |
| `v_newline` | `proto.rs:198`, raw byte values separated by their lengths | the next `read` takes a newline inside the last argument for the end of that request (`proto.rs:315`) |
| `v_answer` | `proto.rs:201`, SET returns the number of bytes saved | `client.rs:83` drops the error of `transact` and answers as if saved |

## The proofs

For every set of keys, values and transactions and, unless stated otherwise, any
number of writers, crashes and I/O errors and any clock, from the named
assumptions on the constants (`SentinelAssumption`, `KeyAssumption`,
`OperationsAssumption`, `SizeAssumption`, `BoundsAssumption`):

* `TypeCorrect`: `Spec => []TypeOK`, one lemma per group of actions.
* `DurabilityInvariant`, `Durable`: `Spec => []AckedIsDurable`. That property
  alone is not inductive: it does not say why an EndTx line may be written.
  `DurabilityInv` adds it: every logged or acknowledged transaction has its one
  BeginTx line (`BeginsLogged`, `BeginsOnce`); an EndTx line is only there for
  transactions complete tables hold (`EndsStored`); what is in `tx_ids` is
  in the memtable or in complete tables (`IdsHeld`), also after recovery, where
  `ReplayLemma` gives it; and a flush writes exactly the memtable and then
  clears it (`FlushConsistent`), so in the EndTx loop, when the memtable is
  empty, all of `tx_ids` is in complete tables. A step appends at most one line
  to the log (`LogStep`) and never takes a complete table away (`TableStep`).
* `CompleteTablesImmutable`: `Spec => TablesImmutable`, from `TableStep`.
* `ScanIsCorrect`: `Spec => []ScanReturnsContents`. `scan` reads every file in
  the directory, so it only needs that an Err of a torn one is passed on.
* `ReadInvariant`, `GetIsRight`, `BloomMapIsComplete`: with `ClockAdvances`
  (every clock step is positive), `Spec => []GetReturnsContents` and
  `Spec => []BloomMapComplete`. `get` stops at the first table whose filter has
  the key, so the argument has to follow three things through crashes, failed
  writes and restarts. `ReadInv` says: what the log would replay covers the
  memtable (`MemtableLogged`), which rests on EndTx lines being only for resolved
  transactions (`EndsResolved`); a table not written to its end is hidden by the
  memtable or by a newer complete table (`TornHidden`); the bloom map leads to
  every complete table (`BloomMapLeads`); and so does its file, unless the log
  would replay the key or recovery will find the file out of date
  (`BloomFileLeads`). Times are in the past (`TimesPast`), which makes a new table
  the newest and a new EndTx line newer than the bloom map file; this is where
  `ClockAdvances` is used.
* `OrderInvariant`, `NoUpdateIsLost`: with `ClockAdvances`,
  `Spec => []NoLostUpdate`, for any number of writers, crashes and I/O errors.
  The property compares a key's entry with the acknowledged writes on it, and is
  not inductive: a later replay could bring an older value back. `OrderInv` says
  why none does. A transaction that was resolved before another began has the
  earlier BeginTx line (`LinesOrdered`); everything settled and not yet ended is
  in `tx_ids` (`SettledHeld`); `tx_ids` and the `EndTx` lines follow that order,
  so nothing a crash leaves open is older than what is ended (`EndsOrdered`); and
  the entry of a key is that of a transaction which no acknowledged one on the
  key came after (`EntriesFresh`). The last one is taken through a recovery by
  `ReplayFresh`, and through a flush by `FlushKeepsEntry`: the new table is the
  newest, where `ClockAdvances` is used once more.
* `SerialInvariant`, `Refinement`: with `ClockAdvances` and `OneClient` (one
  writer at a time, no I/O error, finitely many transactions),
  `Spec => ImplementsMemoryStore`: for every set of keys and transactions and any
  number of crashes. `SerialInv` says that each transaction in the log began
  after those before it were resolved (`LinesSerial`), and that the entry of a
  key is the one the last transaction to run on it gave it (`EntriesSerial`).
  From it every step changes `Contents` by the one transaction that it makes
  run, or not at all (`AbstractStep`); a transaction that a crash interrupts
  between its line and its answer runs at the crash. The run has a clock that may
  stand still too, which the theorem does not cover: it rests on `OrderInv`.
* `ServerTypeCorrect`, `EndInvariant`, `EndsInOrder`: for any set of connections,
  `Spec => []OrderlyEnd` of `Server`. `OrderlyEnd` speaks of the end of `run()`;
  `EndInv` adds what holds on the way: `run()` gets past the confirmation only
  when the store is through, and the cluster server stops only after the client
  server, when it gave up on it, or when it never listened.

* `TransactionsAreWhole`: with `ClockAdvances`, `Spec => []AllOrNothing`. The
  witness is kept from state to state: applying a transaction makes it the writer
  of its keys (`AppliedWhole`); a step that leaves the entries alone keeps the
  writers (`UnchangedWhole`), which needs that who is settled before a
  transaction began never changes; and at a crash (`StoppedWhole`) the keys that
  the log would replay get the last open transaction on them as their writer
  while the others keep theirs. That no replayed transaction is older than a
  writer it meets, and that a key left to its table was not touched by an open
  transaction, is `EndsOrdered` and `MemtableLogged`, from the two invariants
  above.
* `RecoveryFindsOpen`, `RecoveryReplays`, `ShortLogDecodes`: for a log of any
  length, `Open` is what the loop over the lines is left with (`LoopLines`: an
  invariant of the loop, line by line), `Replay` is what applying the unfinished
  transactions in ascending order of their lines gives (`RestoredLast`,
  `ReplayRestored`; that this order exists and is one is `ListExists`,
  `ListUnique`), and a log within one buffer with payloads within one read
  decodes (`EndsGrow`, `WholeLogDecodes`).
* `FormatTypeCorrect`, `FormatInvariant`, `SearchCorrect`, `ScanCorrect`: for
  every finite table, any sizes of keys, values and reads, and any cut:
  `Spec => []SearchIsRight` and `Spec => []ScanIsRight` of `SSTableFormat`. The
  two speak of what a reader finds; `FormatInv` says why: each byte in the file
  is the one the offsets in the index lead to (`BytesPlaced`), and what is written
  so far ends where the value of the least key still to be written begins
  (`WrittenInOrder`). The offsets are sums over sets of keys; `TotalRemove`,
  `TotalAdd` and `TotalMonotone` give what the layout needs of them
  (`ValuePlace`: values do not overlap and lie inside the file).

How the proofs count. A recursive function over `0..n` is shown to exist and to
be the only one by `UpTo` and `RunExists` of **Loops**, which put the induction
as a fact about a set of naturals; sums over finite sets, which the community
modules define by `MapThenSumSet`, are treated alike in `SSTableFormatProofs`.

Only model-checked: `Proto` and `Connection`, whose properties follow a request
byte by byte through the parser, and all liveness (out of the prover's reach).

## Not modelled

* `client.rs`: resolves a name, opens a TLS connection and compares the server's
  certificate. It keeps no state and sends no request; the client of
  `Connection` is a user of the documented protocol.
* `config.rs`, command line, logging, certificate loading (`main.rs:76` on,
  `server/mod.rs`): read once at start. Their failing is `MainStartFails`.
* `crypto.rs`: no other module calls it, and cryptography is out of TLC's reach.
* `error.rs`, `lib.rs`: conversions and re-exports.
* The bytes a cluster connection echoes: it sends back each buffer it read.
* More than one connection over one store in `Connection`: the store's calls are
  atomic there, and concurrent writers are the subject of `LSMStore`.
* I/O errors of reads: `initialize`, `get` and `scan` fail in the model only on
  what is in the files. In `Connection` any store call may fail.
