------------------------ MODULE LSMRefinementProofs ------------------------
(***************************************************************************)
(* With one client at a time, no I/O error and a clock that moves on       *)
(* between two time stamps, the LSM store implements MemoryStore, for      *)
(* every set of keys and transactions and any number of crashes.           *)
(***************************************************************************)
EXTENDS LSMOrderProofs

OneClient == MaxWriters = 1 /\ MaxIoErrors = 0 /\ IsFiniteSet(Tx)

\* What the other invariants say, as far as it is used here.
Known == TypeOK /\ DurabilityInv /\ ReadInv /\ OrderInv

-----------------------------------------------------------------------------
(***************************************************************************)
(* The order of the BeginTx lines.                                         *)
(***************************************************************************)

\* Without I/O errors none is ever counted.
LEMMA NoErrorStep ==
  ASSUME TypeOK, OneClient, ioErrors = 0, [Next]_vars
  PROVE  ioErrors' = 0
<1>1. ~IoMayFail
  BY DEF IoMayFail, OneClient
<1>2. ASSUME NEW t \in Tx, Transact(t) PROVE ioErrors' = ioErrors
  BY <1>1, <1>2 DEF Transact, BeginTransaction, BeginFails, ApplyTransaction, faults
<1>3. ASSUME NEW by \in Caller, FlushStart(by) PROVE ioErrors' = ioErrors
  BY <1>3 DEF FlushStart, FlushEmpty, FlushExists, FlushCreate, faults
<1>4. CASE FlushRest \/ BloomStep
  BY <1>1, <1>4 DEF FlushRest, FlushWrite, FlushWriteFails, EndTransaction, EndFails, FlushReturn,
       BloomStep, SkipBloomMap, OpenBloomMap, WriteBloomMap, WriteBloomMapFails, faults
<1>5. CASE UNCHANGED vars \/ Initialize \/ InitializeFails \/ BgCheck \/ BgSize \/ Signal \/ Crash
  BY <1>5 DEF vars, faults, Initialize, InitializeFails, BgCheck, BgSize, Signal, Crash
<1> QED BY <1>2, <1>3, <1>4, <1>5 DEF Next, Background, Shutdown, Caller

\* A client begins only when no other one is under way.
LEMMA AloneWhenBeginning ==
  ASSUME OneClient, TypeOK, NEW t \in Tx, CanBegin(t), NEW u \in Tx
  PROVE  tx[u] # "logged"
<1>1. IsFiniteSet(InFlight) /\ Cardinality(InFlight) < 1
  BY FS_Subset DEF OneClient, CanBegin, InFlight
<1>2. Cardinality(InFlight) \in Nat
  BY <1>1, FS_CardinalityType
<1>3. InFlight = {}
  BY <1>1, <1>2, FS_EmptySet
<1> QED BY <1>3 DEF InFlight

\* Only a transaction that may begin does, and all that was resolved comes
\* before it.
LEMMA BeginStep ==
  ASSUME TypeOK, EndsResolved, [Next]_vars, NEW t \in Tx, tx[t] = "new", tx'[t] # "new"
  PROVE  CanBegin(t) /\ before'[t] = {u \in Tx : tx[u] \in {"acked", "failed"}}
<1>1. ASSUME NEW u \in Tx, Began(u), CanBegin(u), u = t
      PROVE  CanBegin(t) /\ before'[t] = {v \in Tx : tx[v] \in {"acked", "failed"}}
  BY <1>1 DEF Began, TypeOK
<1>2. CASE Crash
  <2>1. \A u \in Tx : Interrupted[u] = IF tx[u] = "logged" THEN "failed" ELSE tx[u]
    BY DEF Interrupted
  <2>2. tx' # Interrupted
    BY <2>1
  <2>3. PICK line \in LinesInFlight :
          /\ tx[line.tx] = "new" /\ Began(line.tx)
          /\ tx' = [Interrupted EXCEPT ![line.tx] = "failed"]
    BY <1>2, <2>2 DEF Crash
  <2>4. line.tx \in Tx /\ line.tx = t
    <3>1. line.tx \in Tx
      BY InFlightLine DEF Line
    <3> QED BY <2>1, <2>3, <3>1 DEF Interrupted
  <2>5. flush.pc # "ending"
    BY <2>3, InFlightLine DEF EndsResolved, LinesInFlight, EndTx
  <2>6. CanBegin(line.tx)
    BY <2>5 DEF LinesInFlight, BeginTx
  <2> QED BY <1>1, <2>3, <2>4, <2>6
<1>3. ASSUME NEW u \in Tx, BeginTransaction(u) \/ BeginFails(u)
      PROVE  Began(u) /\ CanBegin(u) /\ u = t
  BY <1>3 DEF BeginTransaction, BeginFails, TypeOK
<1>4. ASSUME NEW u \in Tx, ApplyTransaction(u) PROVE FALSE
  BY <1>4 DEF ApplyTransaction, TypeOK
<1>5. CASE \/ UNCHANGED vars \/ Initialize \/ InitializeFails
           \/ BgCheck \/ BgSize \/ Signal \/ BloomStep \/ FlushRest
  BY <1>5 DEF vars, clients, Initialize, InitializeFails, BgCheck, BgSize, Signal, BloomStep,
       SkipBloomMap, OpenBloomMap, WriteBloomMap, WriteBloomMapFails, FlushRest, FlushWrite,
       FlushWriteFails, EndTransaction, EndFails, FlushReturn
<1>6. ASSUME NEW by \in Caller, FlushStart(by) PROVE FALSE
  BY <1>6 DEF FlushStart, FlushEmpty, FlushExists, FlushCreate, clients
<1> QED BY <1>1, <1>2, <1>3, <1>4, <1>5, <1>6 DEF Next, Transact, Background, Shutdown, Caller

\* Each transaction begins after all those before it in the log were resolved.
LEMMA LinesSerialStep ==
  ASSUME OneClient, TypeOK, BeginsOnce, EndsResolved, LinesSerial, [Next]_vars
  PROVE  LinesSerial'
<1> SUFFICES ASSUME NEW i \in DOMAIN log', NEW j \in DOMAIN log', log'[i].type = "begin",
                    log'[j].type = "begin", i < j
             PROVE  log'[i].tx \in before'[log'[j].tx]
  BY DEF LinesSerial
<1>1. /\ \A m \in DOMAIN log : log[m].tx \in Tx /\ m \in Nat /\ m <= Len(log)
      /\ Len(log) \in Nat
  BY LogTxs, LenProperties DEF TypeOK
<1>2. CASE i \in DOMAIN log /\ log'[i] = log[i] /\ j \in DOMAIN log /\ log'[j] = log[j]
  <2>1. log[i].tx \in before[log[j].tx]
    BY <1>2 DEF LinesSerial
  <2>2. log[j].tx \in Tx /\ tx[log[j].tx] # "new"
    BY <1>1, <1>2 DEF BeginsOnce
  <2> QED BY <1>2, <2>1, <2>2, BeforeStep
<1>3. CASE log' = log
  BY <1>2, <1>3
<1>4. ASSUME NEW e \in Line, log' = Append(log, e), NewLine(e),
             i \in DOMAIN log, log'[i] = log[i], log'[j] = e
      PROVE  log'[i].tx \in before'[log'[j].tx]
  <2>1. e.tx \in Tx /\ tx[e.tx] = "new" /\ tx'[e.tx] # "new"
    BY <1>4 DEF NewLine, Line
  <2>2. CanBegin(e.tx) /\ before'[e.tx] = {u \in Tx : tx[u] \in {"acked", "failed"}}
    BY <2>1, BeginStep
  <2>3. log[i].tx \in Tx /\ tx[log[i].tx] # "new" /\ tx[log[i].tx] # "logged"
    BY <1>1, <1>4, <2>1, <2>2, AloneWhenBeginning DEF BeginsOnce
  <2> QED BY <1>4, <2>2, <2>3 DEF TypeOK
<1>5. ASSUME NEW e \in Line, log' = Append(log, e) PROVE i # Len(log) + 1
  <2>1. j \in Nat /\ j <= Len(log) + 1
    BY <1>1, <1>5, NewLog
  <2> QED BY <1>1, <2>1
<1> QED BY <1>2, <1>3, <1>4, <1>5, LogStep, NewLog

-----------------------------------------------------------------------------
(***************************************************************************)
(* The transactions that ran.                                              *)
(***************************************************************************)

\* A transaction ran when it is resolved and its BeginTx line is in the log.
LEMMA RanIs ==
  ASSUME TypeOK, BeginsLogged, NEW u \in Tx
  PROVE  u \in Ran <=> Started(u) /\ tx[u] \in {"acked", "failed"}
BY DEF Ran, Started, BeginsLogged

\* What ran has run.
LEMMA RanGrows ==
  ASSUME TypeOK, BeginsLogged, BeginsLogged', [Next]_vars, NEW u \in Tx
  PROVE  /\ u \in Ran => u \in Ran'
         /\ u \in Ran' => Started(u)' /\ tx'[u] \in {"acked", "failed"}
         /\ u \in Ran' /\ u \notin Ran => tx[u] \in {"new", "logged"}
<1>1. u \in Ran <=> Started(u) /\ tx[u] \in {"acked", "failed"}
  BY RanIs
<1>2. u \in Ran' <=> Started(u)' /\ tx'[u] \in {"acked", "failed"}
  BY DEF Ran, Started, BeginsLogged, BeginTx
<1> QED BY <1>1, <1>2, AnswerStep, LineStep DEF TypeOK

\* A transaction that has just run has the last BeginTx line: what is before
\* a line of the log was resolved when it was written.
LEMMA NewRanIsLast ==
  ASSUME TypeOK, BeginsLogged, LinesOrdered, BeginsLogged', LinesSerial', [Next]_vars,
         DOMAIN log' \subseteq Int, \A i \in DOMAIN log' : log'[i].tx \in Tx,
         NEW u \in Tx, u \in Ran', u \notin Ran
  PROVE  \E b \in DOMAIN log' :
           /\ log'[b] = BeginTx(u)
           /\ \A j \in DOMAIN log' : log'[j].type = "begin" => j <= b
<1>1. Started(u)' /\ tx[u] \in {"new", "logged"}
  BY RanGrows
<1>2. PICK b \in DOMAIN log' : log'[b] = BeginTx(u)
  BY <1>1 DEF Started, BeginTx
<1>3. log'[b].type = "begin" /\ log'[b].tx = u
  BY <1>2 DEF BeginTx
<1>4. ASSUME NEW j \in DOMAIN log', log'[j].type = "begin", b < j PROVE FALSE
  <2>1. u \in before'[log'[j].tx]
    BY <1>3, <1>4 DEF LinesSerial
  <2>2. tx[u] \in {"acked", "failed"}
    BY <2>1, BeforeStep DEF LinesOrdered
  <2> QED BY <1>1, <2>2
<1>5. \A j \in DOMAIN log' : log'[j].type = "begin" => j <= b
  BY <1>4
<1> QED BY <1>2, <1>5

\* The lines on a key of the transactions that ran stay the same as long as
\* none on the key runs.
LEMMA RanOnSame ==
  ASSUME TypeOK, BeginsLogged, BeginsLogged', BeginsOnce', [Next]_vars, NEW k \in Key,
         \A i \in DOMAIN log' : log'[i].tx \in Tx,
         \A u \in Tx : u \in Ran' /\ u \notin Ran => ~Touches(u, k)
  PROVE  RanOn(k)' = RanOn(k) /\ \A i \in RanOn(k) : log'[i] = log[i]
<1>1. ASSUME NEW i \in RanOn(k) PROVE i \in RanOn(k)' /\ log'[i] = log[i]
  <2>1. i \in DOMAIN log /\ log[i].type = "begin" /\ log[i].tx \in Ran /\ Touches(log[i].tx, k)
    BY DEF RanOn
  <2>2. i \in DOMAIN log' /\ log'[i] = log[i] /\ log[i].tx \in Ran'
    BY <2>1, LogTxs, LogGrows, RanGrows
  <2> QED BY <2>1, <2>2 DEF RanOn, Touches, OpsOn
<1>2. ASSUME NEW i \in RanOn(k)' PROVE i \in RanOn(k)
  <2> DEFINE u == log'[i].tx
  <2>1. i \in DOMAIN log' /\ log'[i].type = "begin" /\ u \in Ran' /\ Touches(u, k) /\ u \in Tx
    BY DEF RanOn, Touches, OpsOn
  <2>2. u \in Ran
    BY <2>1
  <2>3. PICK b \in DOMAIN log : log[b] = BeginTx(u)
    BY <2>1, <2>2, RanIs DEF Started
  <2>4. b \in DOMAIN log' /\ log'[b] = log[b] /\ log[b].type = "begin" /\ log[b].tx = u
    BY <2>3, LogGrows DEF BeginTx
  <2>5. i = b
    BY <2>1, <2>4 DEF BeginsOnce
  <2> QED BY <2>1, <2>2, <2>4, <2>5 DEF RanOn
<1> QED BY <1>1, <1>2

\* What recovery replays last on a key is the last that ran on it.
ReplayIsSerial ==
  mode # "up" => \A k \in Key : Covered(k) =>
    RanOn(k) # {} /\ Replay(log)[k] = Final(log[Latest(RanOn(k))].tx, k)

\* The serial order of the lines makes the replay end with the last one that ran.
LEMMA ReplaySerial ==
  /\ TypeOK /\ BeginsLogged /\ BeginsOnce /\ EndsResolved /\ LinesOrdered /\ EndsOrdered
  /\ LinesSerial /\ ioErrors = 0
  => ReplayIsSerial
<1> SUFFICES ASSUME TypeOK, BeginsLogged, BeginsOnce, EndsResolved, LinesOrdered, EndsOrdered,
                    LinesSerial, ioErrors = 0, mode # "up", NEW k \in Key, Covered(k)
             PROVE  RanOn(k) # {} /\ Replay(log)[k] = Final(log[Latest(RanOn(k))].tx, k)
  BY DEF ReplayIsSerial
<1>1. Open(log) \subseteq DOMAIN log /\ DOMAIN log = 1 .. Len(log) /\ Len(log) \in Nat
  BY LenProperties DEF Open, TypeOK
<1>2. PICK m \in OpenOn(log, k) : m = Latest(OpenOn(log, k)) /\ \A j \in OpenOn(log, k) : j <= m
  <2> DEFINE S == OpenOn(log, k)
             n == Len(log)
  <2>1. n \in Int /\ S \in SUBSET Int /\ S # {} /\ \A i \in S : i <= n
    BY <1>1 DEF OpenOn, Covered
  <2> HIDE DEF S, n
  <2>2. Latest(S) \in S /\ \A j \in S : j <= Latest(S)
    BY <2>1, LatestExists
  <2> QED BY <2>2 DEF S
<1> DEFINE u == log[m].tx
<1>3. /\ m \in Open(log) /\ m \in DOMAIN log /\ log[m].type = "begin" /\ u \in Tx /\ Touches(u, k)
      /\ tx[u] \in {"acked", "failed"} /\ Started(u) /\ ~Ended(u)
  <2>1. m \in Open(log) /\ Touches(u, k)
    BY <1>2 DEF OpenOn
  <2>2. /\ m \in DOMAIN log /\ log[m].type = "begin" /\ u \in Tx
        /\ tx[u] # "new" /\ Started(u) /\ ~Ended(u)
    BY <2>1, OpenIsUnended
  <2> QED BY <2>1, <2>2 DEF EndsResolved, TypeOK
<1>4. m \in RanOn(k)
  BY <1>3, RanIs DEF RanOn
<1>5. ASSUME NEW j \in RanOn(k), m < j PROVE FALSE
  <2>1. j \in DOMAIN log /\ log[j].type = "begin" /\ Touches(log[j].tx, k) /\ log[j].tx \in Tx
    BY LogTxs DEF RanOn
  <2>2. u \in before[log[j].tx]
    BY <1>3, <1>5, <2>1 DEF LinesSerial
  <2>3. ~Ended(log[j].tx)
    BY <1>3, <2>1, <2>2 DEF EndsOrdered, Settled
  <2>4. j \in OpenOn(log, k)
    BY <2>1, <2>3, ClosedIsEnded DEF OpenOn
  <2>5. j <= m /\ j \in Int /\ m \in Int
    BY <1>1, <1>2, <1>3, <2>1, <2>4
  <2> QED BY <1>5, <2>5
<1>6. Latest(RanOn(k)) = m
  <2> DEFINE S == RanOn(k)
  <2>1. S \in SUBSET Int /\ m \in S /\ \A j \in S : j <= m
    BY <1>1, <1>4, <1>5 DEF RanOn
  <2> HIDE DEF S
  <2>2. Latest(S) = m
    BY <2>1, LatestUnique
  <2> QED BY <2>2 DEF S
<1>7. Replay(log)[k] = Final(u, k)
  BY <1>2 DEF Replay
<1> QED BY <1>4, <1>6, <1>7

\* What the invariants and the lemmas above give for the next state.
NextKnown ==
  /\ TypeOK /\ BeginsLogged /\ BeginsOnce /\ LinesSerial /\ ioErrors = 0
  /\ ReplayIsSerial /\ StartedIsOpenOrEnded

\* The log of the next state, as the lemmas need it.
LEMMA NextLog ==
  ASSUME NextKnown'
  PROVE  log' \in Seq(Line) /\ DOMAIN log' \subseteq Int /\ \A i \in DOMAIN log' : log'[i].tx \in Tx
<1>1. log' \in Seq(Line)
  BY DEF NextKnown, TypeOK
<1>2. DOMAIN log' = 1 .. Len(log') /\ \A i \in 1 .. Len(log') : log'[i] \in Line
  BY <1>1, LenProperties, ElementOfSeq
<1> QED BY <1>1, <1>2 DEF Line

\* A transaction that has just run is the last that ran on each of its keys.
LEMMA RanOnNew ==
  ASSUME Known, NextKnown', [Next]_vars, NEW u \in Tx, u \in Ran', u \notin Ran,
         NEW k \in Key, Touches(u, k)
  PROVE  RanOn(k)' # {} /\ log'[Latest(RanOn(k)')].tx = u
<1> DEFINE S == RanOn(k)'
<1>1. PICK b \in DOMAIN log' :
        log'[b] = BeginTx(u) /\ \A j \in DOMAIN log' : log'[j].type = "begin" => j <= b
  BY NextLog, NewRanIsLast DEF Known, DurabilityInv, OrderInv, NextKnown
<1>2. b \in S
  BY <1>1 DEF RanOn, BeginTx, Touches, OpsOn
<1>3. S \in SUBSET Int /\ \A j \in S : j <= b
  BY <1>1, NextLog DEF RanOn
<1>4. Latest(S) = b
  <2> HIDE DEF S
  <2> QED BY <1>2, <1>3, LatestUnique
<1> QED BY <1>1, <1>2, <1>4 DEF BeginTx

\* The entry of a key is the one the last transaction that ran gave it.
LEMMA EntriesSerialStep ==
  ASSUME Known, EntriesSerial, NextKnown', [Next]_vars
  PROVE  EntriesSerial'
<1>0. /\ TypeOK /\ DurabilityInv /\ BeginsLogged /\ FlushConsistent
      /\ TimesPast /\ MemtableLogged /\ EndsResolved /\ BeginsLogged' /\ BeginsOnce'
  BY DEF Known, DurabilityInv, ReadInv, NextKnown
<1> SUFFICES ASSUME NEW k \in Key
             PROVE  CurrentEntry(k)' = IF RanOn(k)' = {} THEN Absent
                                       ELSE Final(log'[Latest(RanOn(k)')].tx, k)
  BY DEF EntriesSerial, Latest, Final, OpsOn
<1>1. ASSUME CurrentEntry(k)' = CurrentEntry(k),
             \A u \in Tx : u \in Ran' /\ u \notin Ran => ~Touches(u, k)
      PROVE  CurrentEntry(k)' = IF RanOn(k)' = {} THEN Absent
                                ELSE Final(log'[Latest(RanOn(k)')].tx, k)
  <2>1. RanOn(k)' = RanOn(k) /\ \A i \in RanOn(k) : log'[i] = log[i]
    BY <1>0, <1>1, NextLog, RanOnSame
  <2>2. CurrentEntry(k) = IF RanOn(k) = {} THEN Absent ELSE Final(log[Latest(RanOn(k))].tx, k)
    BY DEF EntriesSerial
  <2>3. RanOn(k) # {} => Latest(RanOn(k)) \in RanOn(k)
    <3> DEFINE S == RanOn(k)
               n == Len(log)
    <3>1. n \in Int /\ S \in SUBSET Int /\ \A i \in S : i <= n
      BY <1>0, LenProperties DEF RanOn, TypeOK
    <3> HIDE DEF S, n
    <3>2. S # {} => Latest(S) \in S
      BY <3>1, LatestExists
    <3> QED BY <3>2 DEF S
  <2> QED BY <1>1, <2>1, <2>2, <2>3
<1>2. CASE mode' # "up" /\ Covered(k)'
  <2>1. RanOn(k)' # {} /\ Replay(log')[k] = Final(log'[Latest(RanOn(k)')].tx, k)
    BY <1>2 DEF NextKnown, ReplayIsSerial, Latest, Final, OpsOn, Replay, OpenOn, Touches
  <2>2. Replay(log')[k] # Absent
    BY <1>2, NextLog, ReplayLemma DEF Covered, Touches, OpsOn
  <2>3. CurrentEntry(k)' = Replay(log')[k]
    BY <1>2, <2>2 DEF CurrentEntry, CurrentMemtable
  <2> QED BY <2>1, <2>3
<1>3. CASE mode' # "up" /\ ~Covered(k)'
  <2>1. ASSUME NEW u \in Tx, u \in Ran', u \notin Ran, Touches(u, k) PROVE FALSE
    <3>1. Started(u)' /\ tx[u] \in {"new", "logged"}
      BY <1>0, <2>1, RanGrows
    <3>2. \A i \in Open(log)' : log'[i].tx # u
      BY <1>3, <2>1 DEF Covered, Touches, OpsOn
    <3>3. Ended(u)'
      BY <3>1, <3>2 DEF NextKnown, StartedIsOpenOrEnded
    <3>4. Ended(u) => tx[u] \in {"acked", "failed"}
      BY <1>0 DEF Ended, EndTx, EndsResolved
    <3>5. Ended(u)
      BY <1>0, <3>1, <3>3, LineStep DEF EndsResolved
    <3> QED BY <3>1, <3>4, <3>5
  <2> QED BY <1>0, <1>1, <1>3, <2>1, UncoveredKeepsEntry
<1>4. ASSUME NEW t \in Tx, ApplyTransaction(t), Touches(t, k)
      PROVE  CurrentEntry(k)' = IF RanOn(k)' = {} THEN Absent
                                ELSE Final(log'[Latest(RanOn(k)')].tx, k)
  <2>1. tx[t] = "logged" /\ tx'[t] = "acked"
    BY <1>0, <1>4 DEF ApplyTransaction, TypeOK
  <2>2. t \in Ran' /\ t \notin Ran
    BY <2>1 DEF Ran
  <2>3. RanOn(k)' # {} /\ log'[Latest(RanOn(k)')].tx = t
    BY <1>4, <2>2, RanOnNew
  <2> QED BY <1>0, <1>4, <2>3, AppliedEntry
<1>5. CASE mode' = "up" /\ \A t \in Tx : ApplyTransaction(t) => ~Touches(t, k)
  <2>1. ASSUME NEW u \in Tx, u \in Ran', u \notin Ran PROVE ApplyTransaction(u)
    <3>1. tx'[u] \in {"acked", "failed"} /\ tx[u] \in {"new", "logged"}
      BY <1>0, <2>1, RanGrows
    <3>2. ioErrors' = 0
      BY DEF NextKnown
    <3> QED BY <1>0, <1>5, <3>1, <3>2, AnswerStep
  <2> QED BY <1>0, <1>1, <1>5, <2>1, EntryStep
<1> QED BY <1>2, <1>3, <1>4, <1>5

-----------------------------------------------------------------------------
(***************************************************************************)
(* The refinement.                                                         *)
(***************************************************************************)

\* The operators of Transactions are the same in MemoryStore.
LEMMA SameOperators ==
  ASSUME NEW u, NEW k
  PROVE  /\ Abstract!Touches(u, k) = Touches(u, k)
         /\ Abstract!AsOption(Abstract!Final(u, k)) = AsOption(Final(u, k))
<1>1. Abstract!OpsOn(u, k) = OpsOn(u, k)
  BY DEF OpsOn, Abstract!OpsOn
<1>2. Abstract!Touches(u, k) = Touches(u, k)
  BY <1>1 DEF Touches, Abstract!Touches
<1>3. \A S : Abstract!Latest(S) = Latest(S)
  BY Zenon DEF Latest, Abstract!Latest
<1>4. Abstract!Final(u, k) = Final(u, k)
  BY <1>1, <1>3, Zenon DEF Final, Abstract!Final
<1> QED BY <1>2, <1>4, Zenon DEF AsOption, Abstract!AsOption

\* Every step is one of MemoryStore: a transaction that runs, or nothing.
LEMMA AbstractStep ==
  ASSUME Known, EntriesSerial, NextKnown', EntriesSerial', [Next]_vars
  PROVE  [Abstract!Next]_<<Contents, Ran>>
<1>0. TypeOK /\ BeginsLogged /\ BeginsLogged' /\ BeginsOnce'
  BY DEF Known, DurabilityInv, NextKnown
<1>1. /\ \A k \in Key : Contents[k] = AsOption(CurrentEntry(k))
      /\ \A k \in Key : Contents'[k] = AsOption(CurrentEntry(k)')
      /\ Contents = [k \in Key |-> Contents[k]] /\ Contents' = [k \in Key |-> Contents'[k]]
  BY DEF Contents, AsOption
<1>2. /\ \A k \in Key : CurrentEntry(k) = IF RanOn(k) = {} THEN Absent
                                           ELSE Final(log[Latest(RanOn(k))].tx, k)
      /\ \A k \in Key : CurrentEntry(k)' = IF RanOn(k)' = {} THEN Absent
                                            ELSE Final(log'[Latest(RanOn(k)')].tx, k)
  BY DEF EntriesSerial, Latest, Final, OpsOn
<1>3. ASSUME NEW k \in Key, \A u \in Tx : u \in Ran' /\ u \notin Ran => ~Touches(u, k)
      PROVE  CurrentEntry(k)' = CurrentEntry(k)
  <2>1. RanOn(k)' = RanOn(k) /\ \A i \in RanOn(k) : log'[i] = log[i]
    BY <1>0, <1>3, NextLog, RanOnSame
  <2>2. RanOn(k) # {} => Latest(RanOn(k)) \in RanOn(k)
    <3> DEFINE S == RanOn(k)
               n == Len(log)
    <3>1. n \in Int /\ S \in SUBSET Int /\ \A i \in S : i <= n
      BY <1>0, LenProperties DEF RanOn, TypeOK
    <3> HIDE DEF S, n
    <3>2. S # {} => Latest(S) \in S
      BY <3>1, LatestExists
    <3> QED BY <3>2 DEF S
  <2> QED BY <1>2, <2>1, <2>2
<1>4. Ran \subseteq Tx /\ Ran' \subseteq Tx /\ \A u \in Ran : u \in Ran'
  BY <1>0, RanGrows DEF Ran
<1>5. CASE Ran' = Ran
  <2>1. Contents' = Contents
    BY <1>1, <1>3, <1>5
  <2> QED BY <1>5, <2>1
<1>6. ASSUME NEW u \in Tx, u \in Ran', u \notin Ran PROVE Abstract!Transact(u)
  <2>1. ASSUME NEW v \in Tx, v \in Ran', v \notin Ran PROVE v = u
    <3>1. PICK b \in DOMAIN log' :
            log'[b] = BeginTx(u) /\ \A j \in DOMAIN log' : log'[j].type = "begin" => j <= b
      BY <1>6, NextLog, NewRanIsLast DEF Known, DurabilityInv, OrderInv, NextKnown
    <3>2. PICK c \in DOMAIN log' :
            log'[c] = BeginTx(v) /\ \A j \in DOMAIN log' : log'[j].type = "begin" => j <= c
      BY <2>1, NextLog, NewRanIsLast DEF Known, DurabilityInv, OrderInv, NextKnown
    <3>3. b <= c /\ c <= b /\ b \in Int /\ c \in Int
      BY <3>1, <3>2, NextLog DEF BeginTx
    <3>4. b = c
      BY <3>3
    <3> QED BY <3>1, <3>2, <3>4 DEF BeginTx
  <2>2. Ran' = Ran \cup {u}
    BY <1>4, <1>6, <2>1
  <2>3. ASSUME NEW k \in Key
        PROVE  Contents'[k] = IF Touches(u, k) THEN AsOption(Final(u, k)) ELSE Contents[k]
    <3>1. CASE Touches(u, k)
      <4>1. RanOn(k)' # {} /\ log'[Latest(RanOn(k)')].tx = u
        BY <1>6, <3>1, RanOnNew
      <4>2. CurrentEntry(k)' = Final(u, k)
        BY <1>2, <4>1
      <4> QED BY <1>1, <3>1, <4>2
    <3>2. CASE ~Touches(u, k)
      <4>1. CurrentEntry(k)' = CurrentEntry(k)
        BY <1>3, <2>1, <3>2
      <4> QED BY <1>1, <3>2, <4>1
    <3> QED BY <3>1, <3>2
  <2>4. Contents' = [k \in Key |-> IF Touches(u, k) THEN AsOption(Final(u, k)) ELSE Contents[k]]
    BY <1>1, <2>3
  <2>5. Contents' = [k \in Key |-> IF Abstract!Touches(u, k)
                                   THEN Abstract!AsOption(Abstract!Final(u, k)) ELSE Contents[k]]
    BY <2>4, SameOperators
  <2> QED BY <1>6, <2>2, <2>5, Zenon DEF Abstract!Transact
<1>7. Ran' # Ran => \E u \in Tx : u \in Ran' /\ u \notin Ran
  BY <1>4
<1> QED BY <1>5, <1>6, <1>7 DEF Abstract!Next

\* A first start: nothing has run, and the store is empty.
LEMMA InitSerial == Init => SerialInv /\ Abstract!Init
<1> SUFFICES ASSUME Init PROVE SerialInv /\ Abstract!Init
  OBVIOUS
<1>1. DOMAIN log = {} /\ DOMAIN sst = {} /\ mode = "down" /\ ioErrors = 0
  BY EmptySeq DEF Init, NoPaths
<1>2. Ran = {} /\ \A k \in Key : RanOn(k) = {} /\ OpenOn(log, k) = {} /\ FullTables(k) = {}
  BY <1>1 DEF Init, Ran, RanOn, OpenOn, Open, FullTables
<1>3. \A k \in Key : CurrentEntry(k) = Absent
  BY <1>1, <1>2 DEF CurrentEntry, CurrentMemtable, Replay
<1>4. Contents = [k \in Key |-> Absent]
  BY <1>3 DEF Contents, AsOption
<1> QED BY <1>1, <1>2, <1>3, <1>4 DEF SerialInv, LinesSerial, EntriesSerial, Abstract!Init

-----------------------------------------------------------------------------
(***************************************************************************)
(* The theorems.                                                           *)
(***************************************************************************)

\* The serial invariant, with all that the steps above use.
LEMMA SerialAndKnown ==
  ASSUME ClockAdvances, OneClient PROVE Spec => [](SerialInv /\ Known /\ NextKnown)
<1> DEFINE Lines == LinesSerial /\ ioErrors = 0
<1>1. Known /\ Lines /\ [Next]_vars => Lines'
  BY NoErrorStep, LinesSerialStep DEF Known, DurabilityInv, ReadInv
<1>2. Known /\ Lines => NextKnown
  BY ReplaySerial, StartedLines DEF Known, DurabilityInv, ReadInv, OrderInv, NextKnown
<1>3. Known /\ EntriesSerial /\ NextKnown' /\ [Next]_vars => EntriesSerial'
  BY EntriesSerialStep
<1>4. Init => Lines /\ EntriesSerial
  BY InitSerial DEF SerialInv
<1>5. Spec => []Known
  <2>1. TypeOK /\ DurabilityInv /\ ReadInv /\ OrderInv => Known
    BY DEF Known
  <2> QED BY <2>1, TypeCorrect, DurabilityInvariant, ReadInvariant, OrderInvariant, PTL
<1>6. Lines /\ EntriesSerial => SerialInv
  BY DEF SerialInv
<1> HIDE DEF Lines
<1> QED BY <1>1, <1>2, <1>3, <1>4, <1>5, <1>6, PTL DEF Spec

(***************************************************************************)
(* With one client at a time, no I/O error and a clock that moves on, the  *)
(* entry of every key is at every moment the one that the last transaction *)
(* to run on it gave it.                                                   *)
(***************************************************************************)
THEOREM SerialInvariant == ASSUME ClockAdvances, OneClient PROVE Spec => []SerialInv
<1> QED BY SerialAndKnown, PTL

(***************************************************************************)
(* With one client at a time, no I/O error and a clock that moves on, the  *)
(* LSM store implements MemoryStore: through flushes, crashes and          *)
(* recoveries its contents change only by whole transactions, each at most *)
(* once.                                                                   *)
(***************************************************************************)
THEOREM Refinement ==
  ASSUME ClockAdvances, OneClient PROVE Spec => ImplementsMemoryStore
<1>1. Init => Abstract!Init
  BY InitSerial
<1>2. /\ SerialInv /\ Known /\ [Next]_vars /\ SerialInv' /\ NextKnown'
      => [Abstract!Next]_<<Contents, Ran>>
  BY AbstractStep DEF SerialInv
<1> QED BY <1>1, <1>2, SerialAndKnown, PTL DEF Spec, ImplementsMemoryStore, Abstract!Spec

=============================================================================
