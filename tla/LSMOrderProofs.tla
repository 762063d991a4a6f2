--------------------------- MODULE LSMOrderProofs ---------------------------
(***************************************************************************)
(* No lost update, for every set of keys and transactions and any number   *)
(* of crashes and I/O errors, with a clock that moves on between two time  *)
(* stamps: the commit log, tx_ids and the EndTx lines keep the order of    *)
(* transactions that did not overlap, so neither a flush nor a recovery    *)
(* brings an older entry back.                                             *)
(***************************************************************************)
EXTENDS LSMReadProofs

-----------------------------------------------------------------------------
(***************************************************************************)
(* What a step does to the clients and to the order of their transactions. *)
(***************************************************************************)

\* A client is answered once, by ApplyTransaction or with an error.
LEMMA AnswerStep ==
  ASSUME TypeOK, [Next]_vars, NEW t \in Tx
  PROVE  /\ tx[t] \in {"acked", "failed"} => tx'[t] = tx[t]
         /\ tx'[t] = "acked" => tx[t] = "acked" \/ ApplyTransaction(t)
         /\ tx'[t] = "failed" => tx[t] = "failed" \/ mode' # "up" \/ ioErrors' # 0
         /\ ioErrors' = 0 => ioErrors = 0
<1>1. CASE Crash
  <2>1. \A u \in Tx : Interrupted[u] = IF tx[u] = "logged" THEN "failed" ELSE tx[u]
    BY DEF Interrupted
  <2>2. mode' = "down" /\ ioErrors' = ioErrors
    BY <1>1 DEF Crash
  <2>3. CASE tx' = Interrupted
    BY <2>1, <2>2, <2>3
  <2>4. ASSUME NEW u \in Tx, tx[u] = "new", tx' = [Interrupted EXCEPT ![u] = "failed"]
        PROVE  /\ tx[t] \in {"acked", "failed"} => tx'[t] = tx[t]
               /\ tx'[t] = "acked" => tx[t] = "acked"
    BY <2>1, <2>4 DEF Interrupted
  <2>5. \A line \in LinesInFlight : line.tx \in Tx
    BY InFlightLine DEF Line
  <2> QED BY <1>1, <2>2, <2>3, <2>4, <2>5 DEF Crash
<1>2. ASSUME NEW u \in Tx, Transact(u)
      PROVE  /\ tx[t] \in {"acked", "failed"} => tx'[t] = tx[t]
             /\ tx'[t] = "acked" => tx[t] = "acked" \/ ApplyTransaction(t)
             /\ tx'[t] = "failed" => tx[t] = "failed" \/ ioErrors' # 0
             /\ ioErrors' = 0 => ioErrors = 0
  <2>1. CASE BeginTransaction(u)
    BY <2>1 DEF BeginTransaction, CanBegin, TypeOK, faults
  <2>2. CASE BeginFails(u)
    BY <2>2 DEF BeginFails, CanBegin, TypeOK
  <2>3. CASE ApplyTransaction(u)
    <3>1. tx[u] = "logged" /\ tx' = [tx EXCEPT ![u] = "acked"] /\ ioErrors' = ioErrors
      BY <2>3 DEF ApplyTransaction, faults
    <3>2. CASE t = u
      BY <2>3, <3>1, <3>2 DEF TypeOK
    <3>3. CASE t # u
      BY <3>1, <3>3 DEF TypeOK
    <3> QED BY <3>2, <3>3
  <2> QED BY <1>2, <2>1, <2>2, <2>3 DEF Transact
<1>3. CASE \/ UNCHANGED vars \/ Initialize \/ InitializeFails
           \/ BgCheck \/ BgSize \/ Signal \/ BloomStep \/ FlushRest
  <2>1. tx' = tx
    BY <1>3 DEF vars, clients, Initialize, InitializeFails, BgCheck, BgSize, Signal, BloomStep,
       SkipBloomMap, OpenBloomMap, WriteBloomMap, WriteBloomMapFails, FlushRest, FlushWrite,
       FlushWriteFails, EndTransaction, EndFails, FlushReturn
  <2>2. ioErrors' = ioErrors \/ ioErrors' = ioErrors + 1
    BY <1>3 DEF vars, faults, Initialize, InitializeFails, BgCheck, BgSize, Signal, BloomStep,
       SkipBloomMap, OpenBloomMap, WriteBloomMap, WriteBloomMapFails, FlushRest, FlushWrite,
       FlushWriteFails, EndTransaction, EndFails, FlushReturn
  <2> QED BY <2>1, <2>2 DEF TypeOK
<1>4. ASSUME NEW by \in Caller, FlushStart(by) PROVE tx' = tx /\ ioErrors' = ioErrors
  BY <1>4 DEF FlushStart, FlushEmpty, FlushExists, FlushCreate, clients, faults
<1> QED BY <1>1, <1>2, <1>3, <1>4 DEF Next, Background, Shutdown, Caller

\* What was resolved before t is settled when t begins.
LEMMA BeforeStep ==
  ASSUME TypeOK, [Next]_vars, NEW t \in Tx
  PROVE  \/ before'[t] = before[t]
         \/ /\ tx[t] = "new" /\ tx'[t] # "new"
            /\ before'[t] = {u \in Tx : tx[u] \in {"acked", "failed"}}
<1>1. ASSUME NEW u \in Tx, tx[u] = "new", tx'[u] # "new", Began(u)
      PROVE  \/ before'[t] = before[t]
             \/ /\ tx[t] = "new" /\ tx'[t] # "new"
                /\ before'[t] = {v \in Tx : tx[v] \in {"acked", "failed"}}
  BY <1>1 DEF Began, TypeOK
<1>2. CASE Crash
  <2>1. ASSUME NEW u \in Tx, tx' = [Interrupted EXCEPT ![u] = "failed"]
        PROVE  tx'[u] # "new"
    BY <2>1 DEF Interrupted
  <2>2. \A line \in LinesInFlight : line.tx \in Tx
    BY InFlightLine DEF Line
  <2> QED BY <1>1, <1>2, <2>1, <2>2 DEF Crash
<1>3. ASSUME NEW u \in Tx, BeginTransaction(u) \/ BeginFails(u)
      PROVE  tx[u] = "new" /\ tx'[u] # "new" /\ Began(u)
  BY <1>3 DEF BeginTransaction, BeginFails, CanBegin, TypeOK
<1>4. ASSUME NEW u \in Tx, ApplyTransaction(u) PROVE before' = before
  BY <1>4 DEF ApplyTransaction
<1>5. CASE \/ UNCHANGED vars \/ Initialize \/ InitializeFails
           \/ BgCheck \/ BgSize \/ Signal \/ BloomStep \/ FlushRest
  BY <1>5 DEF vars, clients, Initialize, InitializeFails, BgCheck, BgSize, Signal, BloomStep,
       SkipBloomMap, OpenBloomMap, WriteBloomMap, WriteBloomMapFails, FlushRest, FlushWrite,
       FlushWriteFails, EndTransaction, EndFails, FlushReturn
<1>6. ASSUME NEW by \in Caller, FlushStart(by) PROVE before' = before
  BY <1>6 DEF FlushStart, FlushEmpty, FlushExists, FlushCreate, clients
<1> QED BY <1>1, <1>2, <1>3, <1>4, <1>5, <1>6 DEF Next, Transact, Background, Shutdown, Caller

\* Lines stay in the log; a new one is a NewLine.
LEMMA LineStep ==
  ASSUME TypeOK, [Next]_vars, NEW u \in Tx
  PROVE  /\ Started(u) => Started(u)'
         /\ Ended(u) => Ended(u)'
         /\ Started(u)' => Started(u) \/ tx[u] = "new"
         /\ Ended(u)' => \/ Ended(u)
                         \/ /\ flush.pc = "ending" /\ flush.ended + 1 \in DOMAIN txIds
                            /\ txIds[flush.ended + 1] = u
<1>1. (Started(u) => Started(u)') /\ (Ended(u) => Ended(u)')
  BY LogGrows DEF Started, Ended, BeginTx, EndTx
<1>2. CASE log' = log
  BY <1>2 DEF Started, Ended, BeginTx, EndTx
<1>3. ASSUME NEW e \in Line, log' = Append(log, e), NewLine(e)
      PROVE  /\ Started(u)' => Started(u) \/ tx[u] = "new"
             /\ Ended(u)' => \/ Ended(u)
                             \/ /\ flush.pc = "ending" /\ flush.ended + 1 \in DOMAIN txIds
                                /\ txIds[flush.ended + 1] = u
  <2>1. Started(u)' => Started(u) \/ e = BeginTx(u)
    BY <1>3, NewLog DEF Started, BeginTx
  <2>2. Ended(u)' => Ended(u) \/ e = EndTx(u)
    BY <1>3, NewLog DEF Ended, EndTx
  <2>3. e = BeginTx(u) => tx[u] = "new"
    BY <1>3 DEF NewLine, BeginTx
  <2>4. e = EndTx(u) => /\ flush.pc = "ending" /\ flush.ended + 1 \in DOMAIN txIds
                        /\ txIds[flush.ended + 1] = u
    BY <1>3 DEF NewLine, EndTx
  <2> QED BY <2>1, <2>2, <2>3, <2>4
<1> QED BY <1>1, <1>2, <1>3, LogStep

\* The order of t after an earlier u, once t has begun, asks nothing new.
LEMMA OldOrder ==
  ASSUME TypeOK, LinesOrdered, [Next]_vars, NEW t \in Tx, tx[t] # "new", NEW u \in before'[t]
  PROVE  /\ u \in before[t] /\ u \in Tx /\ tx[u] \in {"acked", "failed"} /\ tx'[u] = tx[u]
         /\ Settled(u)' => Settled(u)
         /\ Started(u)' => Started(u)
<1>1. u \in before[t]
  BY BeforeStep
<1>2. u \in Tx /\ tx[u] \in {"acked", "failed"}
  BY <1>1 DEF TypeOK, LinesOrdered
<1>3. tx'[u] = tx[u] /\ (ioErrors' = 0 => ioErrors = 0)
  BY <1>2, AnswerStep
<1> QED BY <1>1, <1>2, <1>3, LineStep DEF Settled

\* What a step does to tx_ids.
LEMMA IdsCases ==
  ASSUME TypeOK, [Next]_vars
  PROVE  \/ txIds' = txIds
         \/ Crash /\ txIds' = <<>>
         \/ FlushReturn /\ txIds' = <<>>
         \/ Initialize
         \/ \E t \in Tx : ApplyTransaction(t)
<1>1. CASE Idle \/ FlushWrite \/ FlushWriteFails \/ EndTransaction \/ EndFails
  BY <1>1, IdleStep DEF FlushWrite, FlushWriteFails, EndTransaction, EndFails
<1>2. ASSUME NEW by \in Caller, FlushCreate(by) PROVE txIds' = txIds
  BY <1>2 DEF FlushCreate
<1>3. CASE Crash \/ FlushReturn
  BY <1>3 DEF Crash, FlushReturn
<1> QED BY <1>1, <1>2, <1>3
        DEF Next, Transact, Background, Shutdown, FlushStart, FlushRest, Caller, Idle

-----------------------------------------------------------------------------
(***************************************************************************)
(* Each conjunct of OrderInv is preserved.                                 *)
(***************************************************************************)

\* The ids of tx_ids are transactions.
LEMMA IdTypes == ASSUME TypeOK PROVE \A i \in DOMAIN txIds : txIds[i] \in Tx /\ i \in Nat
BY LenProperties, ElementOfSeq DEF TypeOK

\* A BeginTx line that is not open was closed by an EndTx line.
LEMMA ClosedIsEnded ==
  ASSUME TypeOK, BeginsOnce, NEW i \in DOMAIN log, log[i].type = "begin", i \notin Open(log)
  PROVE  Ended(log[i].tx)
<1>1. PICK j \in DOMAIN log : j > i /\ log[j].type \in {"begin", "end"} /\ log[j].tx = log[i].tx
  BY DEF Open
<1>2. i \in Int /\ j \in Int
  BY LenProperties DEF TypeOK
<1>3. log[j].type = "end" /\ log[j] \in Line
  BY <1>1, <1>2, LogTxs DEF BeginsOnce
<1>4. log[j] = EndTx(log[i].tx)
  BY <1>1, <1>3 DEF Line, EndTx
<1> QED BY <1>4 DEF Ended

\* The lines of the log keep the order of the transactions.
LEMMA LinesOrderedStep ==
  ASSUME TypeOK, BeginsOnce, BeginsLogged, EndsResolved, LinesOrdered, [Next]_vars
  PROVE  LinesOrdered'
<1>0. /\ \A i \in DOMAIN log : log[i] \in Line /\ log[i].tx \in Tx
      /\ \A i \in DOMAIN log : i \in Nat /\ i <= Len(log)
      /\ Len(log) \in Nat
  BY LogTxs, LenProperties DEF TypeOK
<1>1. ASSUME NEW t \in Tx, NEW u \in before'[t] PROVE tx'[u] \in {"acked", "failed"}
  <2>1. u \in Tx /\ tx[u] \in {"acked", "failed"}
    BY <1>1, BeforeStep DEF LinesOrdered, TypeOK
  <2> QED BY <2>1, AnswerStep
<1>2. ASSUME NEW i \in DOMAIN log', NEW j \in DOMAIN log', log'[i].type = "begin",
             log'[j].type = "begin", log'[i].tx \in before'[log'[j].tx]
      PROVE  i < j
  <2>1. CASE i \in DOMAIN log /\ log'[i] = log[i] /\ j \in DOMAIN log /\ log'[j] = log[j]
    <3>1. log[j].tx \in Tx /\ tx[log[j].tx] # "new"
      BY <1>0, <1>2, <2>1 DEF BeginsOnce
    <3>2. log[i].tx \in before[log[j].tx]
      BY <1>2, <2>1, <3>1, OldOrder
    <3> QED BY <1>2, <2>1, <3>2 DEF LinesOrdered
  <2>2. CASE log' = log
    BY <2>1, <2>2, <1>2
  <2>3. ASSUME NEW e \in Line, log' = Append(log, e), NewLine(e)
        PROVE  i < j
    <3>1. CASE i = Len(log) + 1 /\ log'[i] = e
      <4>1. tx[e.tx] = "new" /\ e.tx \in Tx
        BY <1>2, <2>3, <3>1 DEF NewLine, Line
      <4>2. log'[j].tx \in Tx
        BY <1>0, <1>2, <2>3, NewLog DEF Line
      <4>3. tx[e.tx] \in {"acked", "failed"}
        BY <1>2, <3>1, <4>1, <4>2, BeforeStep DEF LinesOrdered
      <4> QED BY <4>1, <4>3
    <3>2. CASE i \in DOMAIN log /\ log'[i] = log[i] /\ j = Len(log) + 1
      BY <1>0, <3>2
    <3> QED BY <1>2, <2>1, <2>3, <3>1, <3>2, NewLog
  <2> QED BY <2>2, <2>3, LogStep
<1>3. ASSUME NEW i \in DOMAIN log', log'[i].type = "end"
      PROVE  \E j \in DOMAIN log' : j < i /\ log'[j] = BeginTx(log'[i].tx)
  <2>1. CASE i \in DOMAIN log /\ log'[i] = log[i]
    BY <1>3, <2>1, LogGrows DEF LinesOrdered
  <2>2. CASE log' = log
    BY <1>3, <2>1, <2>2
  <2>3. ASSUME NEW e \in Line, log' = Append(log, e), NewLine(e), i = Len(log) + 1, log'[i] = e
        PROVE  \E j \in DOMAIN log' : j < i /\ log'[j] = BeginTx(log'[i].tx)
    <3>1. Started(e.tx)
      BY <1>3, <2>3 DEF NewLine, LinesOrdered
    <3>2. PICK j \in DOMAIN log : log[j] = BeginTx(e.tx)
      BY <3>1 DEF Started
    <3>3. j < i /\ j \in DOMAIN log' /\ log'[j] = log[j]
      BY <1>0, <2>3, LogGrows
    <3> QED BY <2>3, <3>2, <3>3
  <2> QED BY <1>3, <2>1, <2>2, <2>3, LogStep, NewLog
<1>4. ASSUME NEW i \in DOMAIN txIds' PROVE \E j \in DOMAIN log' : log'[j] = BeginTx(txIds'[i])
  <2>1. CASE i \in DOMAIN txIds /\ txIds'[i] = txIds[i]
    <3>1. Started(txIds[i]) /\ txIds[i] \in Tx
      BY <2>1, IdTypes DEF LinesOrdered
    <3>2. \E j \in DOMAIN log' : log'[j] = BeginTx(txIds[i])
      BY <3>1, LogGrows DEF Started
    <3> QED BY <2>1, <3>2
  <2>2. ASSUME NEW t \in Tx, ApplyTransaction(t)
        PROVE  \E j \in DOMAIN log' : log'[j] = BeginTx(txIds'[i])
    <3>1. txIds' = Append(txIds, t) /\ log' = log /\ tx[t] = "logged"
      BY <2>2 DEF ApplyTransaction, disk
    <3>2. CASE txIds'[i] = t
      BY <3>1, <3>2 DEF BeginsLogged
    <3> QED BY <2>1, <3>1, <3>2, AppendId
  <2>3. CASE Initialize
    <3>1. PICK lines \in UnfinishedLines(log) : txIds' = [j \in DOMAIN lines |-> log[lines[j]].tx]
      BY <2>3 DEF Initialize
    <3>2. \A j \in DOMAIN lines : lines[j] \in Open(log)
      BY UnfinishedLemma DEF TypeOK
    <3>3. lines[i] \in DOMAIN log /\ log[lines[i]].type = "begin" /\ txIds'[i] = log[lines[i]].tx
      BY <1>4, <3>1, <3>2 DEF Open
    <3>4. log[lines[i]] = BeginTx(txIds'[i])
      BY <1>0, <3>3 DEF Line, BeginTx
    <3>5. log' = log
      BY <2>3 DEF Initialize, disk
    <3> QED BY <3>3, <3>4, <3>5
  <2> QED BY <1>4, <2>1, <2>2, <2>3, IdsCases, EmptySeq
<1> QED BY <1>1, <1>2, <1>3, <1>4 DEF LinesOrdered, Started, BeginTx

\* Recovery puts every BeginTx line that was not closed in tx_ids, in order.
LEMMA RecoveredIds ==
  ASSUME TypeOK, BeginsOnce, Initialize, NEW u \in Tx, Started(u)
  PROVE  Ended(u) \/ \E j \in DOMAIN txIds' : txIds'[j] = u
<1>1. PICK lines \in UnfinishedLines(log) : txIds' = [j \in DOMAIN lines |-> log[lines[j]].tx]
  BY DEF Initialize
<1>2. {lines[j] : j \in DOMAIN lines} = Open(log)
  BY DEF UnfinishedLines
<1>3. PICK b \in DOMAIN log : log[b] = BeginTx(u)
  BY DEF Started
<1>4. log[b].type = "begin" /\ log[b].tx = u
  BY <1>3 DEF BeginTx
<1>5. CASE b \in Open(log)
  <2>1. PICK j \in DOMAIN lines : lines[j] = b
    BY <1>2, <1>5
  <2> QED BY <1>1, <1>4, <2>1
<1>6. CASE b \notin Open(log)
  BY <1>4, <1>6, ClosedIsEnded
<1> QED BY <1>5, <1>6

\* The ids after tx_ids.push(t), with their positions.
LEMMA PushId ==
  ASSUME TypeOK, NEW t \in Tx, txIds' = Append(txIds, t)
  PROVE  /\ DOMAIN txIds' = DOMAIN txIds \cup {Len(txIds) + 1}
         /\ txIds'[Len(txIds) + 1] = t
         /\ \A j \in DOMAIN txIds : txIds'[j] = txIds[j] /\ j < Len(txIds) + 1
<1>1. txIds \in Seq(Tx)
  BY DEF TypeOK
<1>2. /\ DOMAIN txIds = 1 .. Len(txIds) /\ Len(txIds) \in Nat
      /\ DOMAIN txIds' = 1 .. (Len(txIds) + 1)
      /\ txIds'[Len(txIds) + 1] = t
      /\ \A j \in 1 .. Len(txIds) : txIds'[j] = txIds[j]
  BY <1>1, AppendProperties, LenProperties
<1> QED BY <1>2

\* The EndTx loop passes one id at a time.
LEMMA PassedStep ==
  ASSUME TypeOK, FlushConsistent, SettledHeld, [Next]_vars, flush'.pc # "idle",
         NEW i \in DOMAIN txIds', i <= flush'.ended
  PROVE  \E j \in DOMAIN log' : log'[j] = EndTx(txIds'[i])
<1>1. ASSUME flush.pc # "idle", txIds' = txIds, i <= flush.ended
      PROVE  \E j \in DOMAIN log' : log'[j] = EndTx(txIds'[i])
  <2>1. Ended(txIds[i])
    BY <1>1 DEF SettledHeld
  <2> QED BY <1>1, <2>1, LogGrows DEF Ended
<1>2. CASE flush' = flush /\ txIds' = txIds
  BY <1>1, <1>2
<1>3. ASSUME NEW by \in Caller, FlushCreate(by) PROVE FALSE
  <2>1. flush'.ended = 0 /\ txIds' = txIds
    BY <1>3 DEF FlushCreate
  <2>2. i \in 1 .. Len(txIds) /\ Len(txIds) \in Nat
    BY <2>1, LenProperties DEF TypeOK
  <2> QED BY <2>1, <2>2
<1>4. CASE FlushWrite
  <2>1. flush.pc = "writing" /\ txIds' = txIds /\ flush'.ended = flush.ended
    BY <1>4 DEF FlushWrite, TypeOK
  <2> QED BY <1>1, <2>1
<1>5. CASE EndTransaction
  <2>1. /\ flush.pc = "ending" /\ txIds' = txIds /\ flush'.ended = flush.ended + 1
        /\ flush.ended \in Nat /\ flush.ended < Len(txIds)
        /\ log' = Append(log, EndTx(txIds[flush.ended + 1]))
    BY <1>5 DEF EndTransaction, TypeOK
  <2>2. CASE i <= flush.ended
    BY <1>1, <2>1, <2>2
  <2>3. CASE i = flush.ended + 1
    <3>1. EndTx(txIds[i]) \in Line
      BY <2>1, <2>3, NextIdType, LineTypes
    <3>2. Len(log) + 1 \in DOMAIN log' /\ log'[Len(log) + 1] = EndTx(txIds[i])
      BY <2>1, <2>3, <3>1, AppendLine DEF TypeOK
    <3> QED BY <2>1, <3>2
  <2>4. i \in Nat
    BY <2>1, IdTypes
  <2> QED BY <2>1, <2>2, <2>3, <2>4
<1>6. CASE Crash \/ FlushWriteFails \/ EndFails \/ FlushReturn
  <2>1. flush' = NoFlush
    BY <1>6 DEF Crash, FlushWriteFails, EndFails, FlushReturn
  <2> QED BY <2>1, NoFlushIdle
<1>7. CASE Idle
  BY <1>2, <1>7, IdleStep
<1>8. CASE Initialize
  <2>1. flush' = flush /\ mode # "up"
    BY <1>8 DEF Initialize
  <2> QED BY <2>1 DEF FlushConsistent
<1>9. ASSUME NEW t \in Tx, ApplyTransaction(t) PROVE FALSE
  BY <1>9 DEF ApplyTransaction, DataUnlocked
<1> QED BY <1>3, <1>4, <1>5, <1>6, <1>7, <1>8, <1>9
        DEF Next, Transact, Background, Shutdown, FlushStart, FlushRest, Caller, Idle

\* What is settled is ended or on its way to be.
LEMMA SettledHeldStep ==
  ASSUME TypeOK, BeginsOnce, BeginsLogged, FlushConsistent, EndsResolved, LinesOrdered, SettledHeld,
         [Next]_vars
  PROVE  SettledHeld'
<1>1. ASSUME mode' = "up", NEW u \in Tx, Settled(u)', Started(u)'
      PROVE  Ended(u)' \/ \E i \in DOMAIN txIds' : txIds'[i] = u
  <2>1. CASE Initialize
    <3>1. log' = log
      BY <2>1 DEF Initialize, disk
    <3>2. Started(u) /\ (Ended(u) => Ended(u)')
      BY <1>1, <3>1 DEF Started, Ended, BeginTx, EndTx
    <3> QED BY <2>1, <3>2, RecoveredIds
  <2>2. CASE ApplyTransaction(u)
    <3>1. txIds' = Append(txIds, u)
      BY <2>2 DEF ApplyTransaction
    <3> QED BY <3>1, PushId
  <2>3. CASE ~Initialize /\ ~ApplyTransaction(u)
    <3>1. tx[u] \in {"acked", "failed"} /\ Settled(u)
      BY <1>1, <2>3, AnswerStep DEF Settled
    <3>2. Started(u)
      BY <1>1, <3>1, LineStep
    <3>3. mode = "up"
      BY <1>1, <2>3, MemStep DEF InitializeFails, FlushWrite, Crash, ApplyTransaction
    <3>4. CASE Ended(u)
      BY <3>4, LineStep
    <3>5. ASSUME NEW i \in DOMAIN txIds, txIds[i] = u
          PROVE  Ended(u)' \/ \E j \in DOMAIN txIds' : txIds'[j] = u
      <4>1. CASE txIds' = txIds
        BY <3>5, <4>1
      <4>2. ASSUME NEW t \in Tx, ApplyTransaction(t) PROVE \E j \in DOMAIN txIds' : txIds'[j] = u
        <5>1. txIds' = Append(txIds, t)
          BY <4>2 DEF ApplyTransaction
        <5> QED BY <3>5, <5>1, PushId
      <4>3. CASE FlushReturn
        <5>1. flush.pc = "ending" /\ flush.ended = Len(txIds)
          BY <4>3 DEF FlushReturn
        <5>2. i <= flush.ended
          BY <5>1, LenProperties DEF TypeOK
        <5>3. Ended(u)
          BY <3>5, <5>1, <5>2 DEF SettledHeld
        <5> QED BY <5>3, LineStep
      <4>4. ~Crash
        BY <1>1 DEF Crash
      <4> QED BY <2>3, <4>1, <4>2, <4>3, <4>4, IdsCases
    <3> QED BY <3>1, <3>2, <3>3, <3>4, <3>5 DEF SettledHeld
  <2> QED BY <2>1, <2>2, <2>3
<1>2. ASSUME flush'.pc # "idle", NEW i \in DOMAIN txIds', i <= flush'.ended
      PROVE  \E j \in DOMAIN log' : log'[j] = EndTx(txIds'[i])
  BY <1>2, PassedStep
<1> QED BY <1>1, <1>2 DEF SettledHeld, Ended, EndTx

\* tx_ids and the EndTx lines keep the order of the transactions.
LEMMA EndsOrderedStep ==
  ASSUME TypeOK, BeginsOnce, BeginsLogged, FlushConsistent, EndsResolved, LinesOrdered, SettledHeld,
         EndsOrdered, [Next]_vars
  PROVE  EndsOrdered'
<1>1. ASSUME NEW i \in DOMAIN txIds', NEW u \in before'[txIds'[i]], Settled(u)', Started(u)'
      PROVE  Ended(u)' \/ \E j \in DOMAIN txIds' : j < i /\ txIds'[j] = u
  <2>1. ASSUME i \in DOMAIN txIds, txIds'[i] = txIds[i]
        PROVE  Ended(u)' \/ \E j \in DOMAIN txIds : j < i /\ txIds[j] = u
    <3>1. txIds[i] \in Tx /\ tx[txIds[i]] # "new"
      BY <2>1, IdTypes DEF EndsResolved
    <3>2. u \in before[txIds[i]] /\ u \in Tx /\ Settled(u) /\ Started(u)
      BY <1>1, <2>1, <3>1, OldOrder
    <3> QED BY <2>1, <3>2, LineStep DEF EndsOrdered
  <2>2. CASE txIds' = txIds
    BY <1>1, <2>1, <2>2
  <2>3. ASSUME NEW t \in Tx, ApplyTransaction(t)
        PROVE  Ended(u)' \/ \E j \in DOMAIN txIds' : j < i /\ txIds'[j] = u
    <3>1. txIds' = Append(txIds, t) /\ tx[t] = "logged" /\ mode = "up"
      BY <2>3 DEF ApplyTransaction
    <3>2. CASE i \in DOMAIN txIds
      BY <2>1, <3>1, <3>2, PushId
    <3>3. CASE i = Len(txIds) + 1
      <4>1. txIds'[i] = t
        BY <3>1, <3>3, PushId
      <4>2. u \in Tx /\ Settled(u) /\ Started(u)
        BY <1>1, <3>1, <4>1, OldOrder
      <4>3. Ended(u) \/ \E j \in DOMAIN txIds : txIds[j] = u
        BY <3>1, <4>2 DEF SettledHeld
      <4> QED BY <3>1, <3>3, <4>2, <4>3, LineStep, PushId
    <3> QED BY <1>1, <3>1, <3>2, <3>3, PushId
  <2>4. CASE Initialize
    <3>1. PICK lines \in UnfinishedLines(log) : txIds' = [j \in DOMAIN lines |-> log[lines[j]].tx]
      BY <2>4 DEF Initialize
    <3>2. /\ \A j \in DOMAIN lines : lines[j] \in Open(log) /\ lines[j] \in DOMAIN log
          /\ {lines[j] : j \in DOMAIN lines} = Open(log) /\ Ascending(lines)
      BY UnfinishedLemma DEF TypeOK, UnfinishedLines, Open
    <3>3. log' = log /\ before' = before
      BY <2>4 DEF Initialize, disk, clients
    <3>4. PICK b \in DOMAIN log : log[b] = BeginTx(u)
      BY <1>1, <3>3 DEF Started, BeginTx
    <3>5. log[b].type = "begin" /\ log[b].tx = u
      BY <3>4 DEF BeginTx
    <3>6. i \in DOMAIN lines /\ log[lines[i]].type = "begin" /\ u \in before[log[lines[i]].tx]
      BY <1>1, <3>1, <3>2, <3>3 DEF Open
    <3>7. b < lines[i]
      BY <3>2, <3>5, <3>6 DEF LinesOrdered
    <3>8. CASE b \notin Open(log)
      BY <3>3, <3>5, <3>8, ClosedIsEnded DEF Ended, EndTx
    <3>9. CASE b \in Open(log)
      <4>1. PICK j \in DOMAIN lines : lines[j] = b
        BY <3>2, <3>9
      <4>2. i \in Int /\ j \in Int /\ lines[i] \in Int /\ b \in Int
        <5>1. DOMAIN log \subseteq Int
          BY LenProperties DEF TypeOK
        <5>2. DOMAIN lines \subseteq Int
          BY DEF UnfinishedLines
        <5> QED BY <3>2, <3>4, <3>6, <4>1, <5>1, <5>2
      <4>3. ~(i <= j)
        BY <3>6, <3>7, <3>2, <4>1, <4>2 DEF Ascending
      <4> QED BY <3>1, <3>5, <4>1, <4>2, <4>3
    <3> QED BY <3>8, <3>9
  <2> QED BY <1>1, <2>2, <2>3, <2>4, IdsCases, EmptySeq
<1>2. ASSUME NEW t \in Tx, Ended(t)', NEW u \in before'[t], Settled(u)', Started(u)'
      PROVE  Ended(u)'
  <2>1. Ended(t) => tx[t] # "new"
    BY DEF Ended, EndTx, EndsResolved
  <2>2. CASE Ended(t)
    <3>1. u \in before[t] /\ u \in Tx /\ Settled(u) /\ Started(u)
      BY <1>2, <2>1, <2>2, OldOrder
    <3> QED BY <2>2, <3>1, LineStep DEF EndsOrdered
  <2>3. CASE flush.pc = "ending" /\ flush.ended + 1 \in DOMAIN txIds /\ txIds[flush.ended + 1] = t
    <3>1. tx[t] # "new"
      BY <2>3 DEF EndsResolved
    <3>2. u \in before[t] /\ u \in Tx /\ Settled(u) /\ Started(u)
      BY <1>2, <3>1, OldOrder
    <3>3. ASSUME NEW j \in DOMAIN txIds, j < flush.ended + 1, txIds[j] = u PROVE Ended(u)
      <4>1. j \in Nat /\ flush.ended \in Nat
        BY IdTypes DEF TypeOK
      <4>2. j <= flush.ended
        BY <3>3, <4>1
      <4> QED BY <2>3, <3>3, <4>2 DEF SettledHeld
    <3>4. Ended(u)
      BY <2>3, <3>2, <3>3 DEF EndsOrdered
    <3> QED BY <3>2, <3>4, LineStep
  <2> QED BY <1>2, <2>2, <2>3, LineStep
<1> QED BY <1>1, <1>2 DEF EndsOrdered

\* An open line is that of a transaction that has not been ended.
LEMMA OpenIsUnended ==
  ASSUME TypeOK, BeginsOnce, LinesOrdered, NEW m \in Open(log)
  PROVE  /\ m \in DOMAIN log /\ log[m].type = "begin" /\ log[m].tx \in Tx
         /\ tx[log[m].tx] # "new" /\ Started(log[m].tx) /\ ~Ended(log[m].tx)
<1> DEFINE u == log[m].tx
<1>1. m \in DOMAIN log /\ log[m].type = "begin" /\ u \in Tx /\ DOMAIN log \subseteq Int
  BY LogTxs, LenProperties DEF Open, TypeOK
<1>2. log[m] = BeginTx(u)
  BY <1>1, LogTxs DEF Line, BeginTx
<1>3. ASSUME NEW e \in DOMAIN log, log[e] = EndTx(u) PROVE FALSE
  <2>1. log[e].type = "end" /\ log[e].tx = u
    BY <1>3 DEF EndTx
  <2>2. PICK b \in DOMAIN log : b < e /\ log[b] = BeginTx(u)
    BY <2>1 DEF LinesOrdered
  <2>3. b = m
    BY <1>1, <2>2 DEF BeginsOnce, BeginTx
  <2>4. e > m
    BY <1>1, <2>2, <2>3
  <2> QED BY <1>1, <2>1, <2>4 DEF Open
<1> QED BY <1>1, <1>2, <1>3 DEF Started, Ended, BeginsOnce

(***************************************************************************)
(* What recovery replays last on a key is fresh: an earlier settled        *)
(* transaction has an earlier BeginTx line, and is ended before this one.  *)
(***************************************************************************)
ReplayIsFresh ==
  \A k \in Key : Covered(k) => \E u \in Tx : Fresh(u, k) /\ Replay(log)[k] = Final(u, k)

\* The order of the EndTx lines makes what recovery replays fresh.
LEMMA ReplayFresh ==
  TypeOK /\ BeginsLogged /\ BeginsOnce /\ LinesOrdered /\ EndsOrdered => ReplayIsFresh
<1> SUFFICES ASSUME TypeOK, BeginsLogged, BeginsOnce, LinesOrdered, EndsOrdered, NEW k \in Key, Covered(k)
             PROVE  \E u \in Tx : Fresh(u, k) /\ Replay(log)[k] = Final(u, k)
  BY DEF ReplayIsFresh
<1>1. Open(log) \subseteq DOMAIN log /\ DOMAIN log = 1 .. Len(log) /\ Len(log) \in Nat
  BY LenProperties DEF Open, TypeOK
<1>2. PICK m \in OpenOn(log, k) : m = Latest(OpenOn(log, k)) /\ \A j \in OpenOn(log, k) : j <= m
  <2> DEFINE S == OpenOn(log, k)
             n == Len(log)
  <2>1. n \in Int /\ S \in SUBSET Int /\ S # {} /\ \A i \in S : i <= n
    BY <1>1 DEF OpenOn, Covered
  <2> HIDE DEF S, n
  <2>2. Latest(S) \in S /\ \A j \in S : j <= Latest(S)
    BY <2>1, LatestExists
  <2> QED BY <2>2 DEF S
<1> DEFINE u == log[m].tx
<1>3. m \in Open(log) /\ m \in DOMAIN log /\ log[m].type = "begin" /\ u \in Tx /\ Touches(u, k)
  BY <1>1, <1>2, LogTxs DEF OpenOn, Open
<1>4. Replay(log)[k] = Final(u, k)
  BY <1>2 DEF Replay
<1>5. tx[u] # "new" /\ ~Ended(u) /\ Started(u)
  BY <1>3, OpenIsUnended
<1>6. ASSUME NEW t \in Tx, tx[t] = "acked", Touches(t, k), u \in before[t], Settled(u)
      PROVE  FALSE
  <2>1. PICK b \in DOMAIN log : log[b] = BeginTx(t)
    BY <1>6 DEF BeginsLogged
  <2>2. log[b].type = "begin" /\ log[b].tx = t
    BY <2>1 DEF BeginTx
  <2>3. ~Ended(t)
    BY <1>5, <1>6 DEF EndsOrdered
  <2>4. b \in OpenOn(log, k)
    BY <1>6, <2>2, <2>3, ClosedIsEnded DEF OpenOn
  <2>5. m < b
    BY <1>3, <1>6, <2>2 DEF LinesOrdered
  <2>6. b <= m /\ b \in Int /\ m \in Int
    BY <1>1, <1>2, <1>3, <2>4
  <2> QED BY <2>5, <2>6
<1> HIDE DEF u
<1> QED BY <1>3, <1>4, <1>5, <1>6 DEF Fresh

\* What is fresh stays so, until a transaction on the key is acknowledged.
LEMMA FreshStep ==
  ASSUME TypeOK, LinesOrdered, [Next]_vars, NEW k \in Key, NEW u \in Tx, Fresh(u, k),
         \A t \in Tx : ApplyTransaction(t) => ~Touches(t, k)
  PROVE  Fresh(u, k)'
<1>1. tx'[u] # "new"
  BY TxStep DEF Fresh
<1>2. ASSUME NEW t \in Tx, tx'[t] = "acked", Touches(t, k), u \in before'[t], Settled(u)'
      PROVE  FALSE
  <2>1. tx[t] = "acked"
    BY <1>2, AnswerStep
  <2>2. u \in before[t] /\ Settled(u)
    BY <1>2, <2>1, OldOrder
  <2> QED BY <1>2, <2>1, <2>2 DEF Fresh
<1> QED BY <1>1, <1>2 DEF Fresh, Touches, OpsOn

\* While no table of the key becomes complete, the tables answer as before.
LEMMA SameTables ==
  ASSUME TypeOK, TimesPast, FlushConsistent, [Next]_vars, NEW k \in Key,
         \A p \in FullTables(k)' : p \in FullTables(k)
  PROVE  /\ FullTables(k)' = FullTables(k)
         /\ FullTables(k) # {} =>
              sst'[Latest(FullTables(k))].table[k] = sst[Latest(FullTables(k))].table[k]
<1>1. FullTables(k)' = FullTables(k)
  BY FullKept
<1>2. ASSUME FullTables(k) # {}
      PROVE  sst'[Latest(FullTables(k))].table[k] = sst[Latest(FullTables(k))].table[k]
  <2>1. PICK p \in FullTables(k) : p = Latest(FullTables(k))
    BY <1>2, LatestFull
  <2>2. p \in DOMAIN sst
    BY DEF FullTables
  <2> QED BY <2>1, <2>2, TablesKept
<1> QED BY <1>1, <1>2

\* A key keeps its entry when the memtable and the tables answer as before.
LEMMA SameEntry ==
  ASSUME TypeOK, TimesPast, FlushConsistent, [Next]_vars, NEW k \in Key,
         CurrentMemtable'[k] = CurrentMemtable[k],
         CurrentMemtable[k] # Absent \/ \A p \in FullTables(k)' : p \in FullTables(k)
  PROVE  CurrentEntry(k)' = CurrentEntry(k)
<1>1. CASE CurrentMemtable[k] # Absent
  BY <1>1 DEF CurrentEntry
<1>2. CASE CurrentMemtable[k] = Absent
  <2>1. /\ FullTables(k)' = FullTables(k)
        /\ FullTables(k) # {} =>
             sst'[Latest(FullTables(k))].table[k] = sst[Latest(FullTables(k))].table[k]
    BY <1>2, SameTables
  <2>2. CurrentEntry(k) = IF FullTables(k) # {} THEN sst[Latest(FullTables(k))].table[k] ELSE Absent
    BY <1>2 DEF CurrentEntry
  <2>3. CurrentEntry(k)' = IF FullTables(k)' # {} THEN sst'[Latest(FullTables(k)')].table[k] ELSE Absent
    BY <1>2 DEF CurrentEntry, Latest
  <2> QED BY <2>1, <2>2, <2>3
<1> QED BY <1>1, <1>2

\* A flush moves the entries of the memtable to the newest complete table.
LEMMA FlushKeepsEntry ==
  ASSUME TypeOK, TimesPast, FlushConsistent, FlushWrite, NEW k \in Key
  PROVE  CurrentEntry(k)' = CurrentEntry(k)
<1>0. [Next]_vars
  BY DEF Next, FlushRest
<1>1. mode = "up" /\ mode' = "up" /\ memtable' = EmptyTable /\ flush.pc = "writing" /\ memtable'[k] = Absent
  BY DEF FlushWrite, FlushConsistent, EmptyTable
<1>2. CASE memtable[k] = Absent
  <2>1. \A p \in FullTables(k)' : p \in FullTables(k)
    BY <1>0, <1>2, NewFull
  <2> QED BY <1>0, <1>1, <1>2, <2>1, SameEntry DEF CurrentMemtable
<1>3. CASE memtable[k] # Absent
  <2> DEFINE F == FullTables(k)'
  <2>1. flush.path \in F /\ sst'[flush.path].table = memtable
    BY <1>3, FlushWritten DEF FullTables, FileKeys, KeysOf
  <2>2. \A p \in F : p <= flush.path /\ p \in Int
    <3>1. \A p \in F : p \in DOMAIN sst
      BY <1>0, <1>1, NewFull, FlushWritten DEF FullTables
    <3> QED BY <1>1, <3>1 DEF TimesPast, TypeOK
  <2>3. Latest(F) = flush.path
    <3> HIDE DEF F
    <3> QED BY <2>1, <2>2, LatestUnique
  <2>4. CurrentEntry(k)' = IF F # {} THEN sst'[Latest(F)].table[k] ELSE Absent
    BY <1>1 DEF CurrentEntry, CurrentMemtable, Latest
  <2>5. CurrentEntry(k) = memtable[k]
    BY <1>1, <1>3 DEF CurrentEntry, CurrentMemtable
  <2> HIDE DEF F
  <2> QED BY <2>1, <2>3, <2>4, <2>5
<1> QED BY <1>2, <1>3

\* A stopped store keeps the entry of a key that recovery would not replay.
LEMMA UncoveredKeepsEntry ==
  ASSUME TypeOK, DurabilityInv, TimesPast, MemtableLogged, [Next]_vars, mode' # "up",
         NEW k \in Key, ~Covered(k)'
  PROVE  CurrentEntry(k)' = CurrentEntry(k)
<1>0. BeginsOnce /\ FlushConsistent
  BY DEF DurabilityInv
<1>1. CurrentMemtable'[k] = Absent
  <2>1. OpenOn(log', k) = {}
    BY DEF Covered, OpenOn
  <2> QED BY <2>1 DEF CurrentMemtable, Replay, OpenOn
<1>2. CurrentMemtable[k] = Absent
  <2>1. CASE mode = "up"
    <3>1. memtable[k] # Absent => Covered(k) /\ flush.pc # "ending"
      BY <1>0, <2>1 DEF MemtableLogged, FlushConsistent, EmptyTable
    <3>2. memtable[k] = Absent
      BY <1>0, <3>1, CoveredStep
    <3> QED BY <2>1, <3>2 DEF CurrentMemtable
  <2>2. CASE mode # "up"
    <3>1. flush.pc # "ending"
      BY <1>0, <2>2 DEF FlushConsistent
    <3>2. ~Covered(k)
      BY <1>0, <3>1, CoveredStep
    <3>3. OpenOn(log, k) = {}
      BY <3>2 DEF Covered, OpenOn
    <3> QED BY <2>2, <3>3 DEF CurrentMemtable, Replay
  <2> QED BY <2>1, <2>2
<1>3. \A p \in FullTables(k)' : p \in FullTables(k)
  <2>1. ASSUME flush.pc = "writing", memtable[k] # Absent PROVE FALSE
    <3>1. mode = "up"
      BY <1>0, <2>1 DEF FlushConsistent
    <3> QED BY <1>2, <2>1, <3>1 DEF CurrentMemtable
  <2> QED BY <1>0, <2>1, NewFull
<1> QED BY <1>0, <1>1, <1>2, <1>3, SameEntry

\* Applying a transaction gives its keys their final values.
LEMMA AppliedEntry ==
  ASSUME TypeOK, NEW t \in Tx, ApplyTransaction(t), NEW k \in Key, Touches(t, k)
  PROVE  CurrentEntry(k)' = Final(t, k)
<1>1. mode' = "up" /\ memtable' = Apply(memtable, t)
  BY DEF ApplyTransaction
<1>2. memtable'[k] = Final(t, k) /\ Final(t, k) # Absent
  BY <1>1, FinalIsValue DEF Apply
<1> QED BY <1>1, <1>2 DEF CurrentEntry, CurrentMemtable

\* In a running store nothing but a transaction on a key changes its entry.
LEMMA EntryStep ==
  ASSUME TypeOK, FlushConsistent, TimesPast, [Next]_vars, mode' = "up", NEW k \in Key,
         \A t \in Tx : ApplyTransaction(t) => ~Touches(t, k)
  PROVE  CurrentEntry(k)' = CurrentEntry(k)
<1>1. CASE FlushWrite
  BY <1>1, FlushKeepsEntry
<1>2. CASE Initialize
  <2>1. mode # "up" /\ memtable' = Replay(log) /\ sst' = sst
    BY <1>2 DEF Initialize, disk
  <2>2. \A p \in FullTables(k)' : p \in FullTables(k)
    BY <2>1 DEF FullTables
  <2> QED BY <2>1, <2>2, SameEntry DEF CurrentMemtable
<1>3. CASE ~FlushWrite /\ mode = "up" /\ memtable'[k] = memtable[k]
  <2>1. memtable[k] # Absent \/ \A p \in FullTables(k)' : p \in FullTables(k)
    BY NewFull
  <2> QED BY <1>3, <2>1, SameEntry DEF CurrentMemtable
<1>4. ASSUME NEW t \in Tx, ApplyTransaction(t) PROVE mode = "up" /\ memtable'[k] = memtable[k]
  BY <1>4 DEF ApplyTransaction, Apply
<1>5. ~Crash /\ ~InitializeFails
  BY DEF Crash, InitializeFails
<1> QED BY <1>1, <1>2, <1>3, <1>4, <1>5, MemStep

\* Every entry stays fresh.
LEMMA EntriesFreshStep ==
  ASSUME TypeOK, DurabilityInv, TimesPast, MemtableLogged, LinesOrdered, EntriesFresh,
         ReplayIsFresh', [Next]_vars
  PROVE  EntriesFresh'
<1>0. FlushConsistent
  BY DEF DurabilityInv
<1> SUFFICES ASSUME NEW k \in Key, NEW s \in Tx, tx'[s] = "acked", Touches(s, k)
             PROVE  \E u \in Tx : Fresh(u, k)' /\ CurrentEntry(k)' = Final(u, k)
  BY DEF EntriesFresh, Touches, OpsOn, Final
<1>1. ASSUME CurrentEntry(k)' = CurrentEntry(k), \A t \in Tx : ApplyTransaction(t) => ~Touches(t, k)
      PROVE  \E u \in Tx : Fresh(u, k)' /\ CurrentEntry(k)' = Final(u, k)
  <2>1. tx[s] = "acked"
    BY <1>1, AnswerStep
  <2>2. PICK u \in Tx : Fresh(u, k) /\ CurrentEntry(k) = Final(u, k)
    BY <2>1 DEF EntriesFresh
  <2> QED BY <1>1, <2>2, FreshStep
<1>2. CASE mode' # "up"
  <2>1. \A t \in Tx : ~ApplyTransaction(t)
    BY <1>2 DEF ApplyTransaction
  <2>2. CASE Covered(k)'
    <3>1. PICK u \in Tx : Fresh(u, k)' /\ Replay(log')[k] = Final(u, k)
      BY <2>2 DEF ReplayIsFresh, Replay, OpenOn, Touches, OpsOn, Final
    <3>2. Final(u, k) # Absent
      BY <3>1, FinalIsValue DEF Fresh, Touches, OpsOn
    <3>3. CurrentEntry(k)' = Replay(log')[k]
      BY <1>2, <3>1, <3>2 DEF CurrentEntry, CurrentMemtable
    <3> QED BY <3>1, <3>3
  <2>3. CASE ~Covered(k)'
    BY <1>1, <1>2, <2>1, <2>3, UncoveredKeepsEntry
  <2> QED BY <2>2, <2>3
<1>3. ASSUME NEW t \in Tx, ApplyTransaction(t), Touches(t, k)
      PROVE  \E u \in Tx : Fresh(u, k)' /\ CurrentEntry(k)' = Final(u, k)
  <2>1. tx[t] = "logged" /\ tx' = [tx EXCEPT ![t] = "acked"] /\ before' = before
    BY <1>3 DEF ApplyTransaction
  <2>2. CurrentEntry(k)' = Final(t, k)
    BY <1>3, AppliedEntry
  <2>3. \A v \in Tx : t \notin before'[v]
    BY <2>1 DEF LinesOrdered
  <2>4. tx'[t] # "new"
    BY <2>1 DEF TypeOK
  <2>5. Fresh(t, k)'
    BY <1>3, <2>3, <2>4 DEF Fresh, Touches, OpsOn
  <2> QED BY <2>2, <2>5
<1>4. CASE mode' = "up" /\ \A t \in Tx : ApplyTransaction(t) => ~Touches(t, k)
  BY <1>0, <1>1, <1>4, EntryStep
<1> QED BY <1>2, <1>3, <1>4

\* A BeginTx line is open, or was closed by an EndTx line.
StartedIsOpenOrEnded ==
  \A u \in Tx : Started(u) => Ended(u) \/ \E i \in Open(log) : log[i].tx = u

\* Follows from ClosedIsEnded, as only an EndTx line closes a BeginTx line.
LEMMA StartedLines == TypeOK /\ BeginsOnce => StartedIsOpenOrEnded
<1> SUFFICES ASSUME TypeOK, BeginsOnce, NEW u \in Tx, NEW i \in DOMAIN log, log[i] = BeginTx(u)
             PROVE  Ended(u) \/ \E j \in Open(log) : log[j].tx = u
  BY DEF StartedIsOpenOrEnded, Started
<1>1. log[i].type = "begin" /\ log[i].tx = u
  BY DEF BeginTx
<1> QED BY <1>1, ClosedIsEnded

-----------------------------------------------------------------------------
(***************************************************************************)
(* Whole transactions.                                                     *)
(***************************************************************************)

\* The transaction that recovery would replay last on a key.
LastOpen(k) == log[Latest(OpenOn(log, k))].tx

\* What recovery would replay, it replays whole: the last transaction on
\* another key of it comes later in the log, and nothing older than an ended
\* transaction is open.
ReplayedBy(last) ==
  \A l \in DOMAIN last :
    /\ Started(last[l]) /\ Touches(last[l], l)
    /\ Replay(log)[l] = Final(last[l], l) /\ Replay(log)[l] # Absent
    /\ \A k \in Key : Touches(last[l], k) => k \in DOMAIN last /\ last[k] \notin before[last[l]]
    /\ \A t \in Tx : Ended(t) => ~(last[l] \in before[t] /\ Settled(last[l]))

ReplayIsWhole == \E last \in [{k \in Key : Covered(k)} -> Tx] : ReplayedBy(last)

\* The last open line on a key.
LEMMA LastOpenLine ==
  ASSUME TypeOK, NEW k \in Key, Covered(k)
  PROVE  \E m \in OpenOn(log, k) :
           m = Latest(OpenOn(log, k)) /\ \A j \in OpenOn(log, k) : j <= m
<1> DEFINE S == OpenOn(log, k)
           n == Len(log)
<1>1. n \in Int /\ S \in SUBSET Int /\ S # {} /\ \A i \in S : i <= n
  BY LenProperties DEF OpenOn, Open, Covered, TypeOK
<1> HIDE DEF S, n
<1>2. Latest(S) \in S /\ \A j \in S : j <= Latest(S)
  BY <1>1, LatestExists
<1> QED BY <1>2 DEF S

\* The order of the BeginTx and of the EndTx lines makes the replay whole.
LEMMA ReplayWhole ==
  TypeOK /\ BeginsOnce /\ LinesOrdered /\ EndsOrdered => ReplayIsWhole
<1> SUFFICES ASSUME TypeOK, BeginsOnce, LinesOrdered, EndsOrdered PROVE ReplayIsWhole
  OBVIOUS
<1> DEFINE D == {k \in Key : Covered(k)}
           last == [k \in D |-> LastOpen(k)]
<1>1. ASSUME NEW k \in D
      PROVE  \E m \in DOMAIN log :
               /\ m \in Open(log) /\ log[m].type = "begin" /\ log[m].tx = last[k]
               /\ Touches(last[k], k) /\ OpenOn(log, k) # {}
               /\ \A j \in Open(log) : Touches(log[j].tx, k) => j <= m
  <2>1. PICK m \in OpenOn(log, k) : m = Latest(OpenOn(log, k)) /\ \A j \in OpenOn(log, k) : j <= m
    BY LastOpenLine
  <2> QED BY <2>1 DEF LastOpen, OpenOn, Open
<1>2. \A k \in D : last[k] \in Tx /\ Started(last[k]) /\ ~Ended(last[k])
  BY <1>1, OpenIsUnended
<1>3. last \in [D -> Tx]
  BY <1>2
<1>4. ASSUME NEW l \in D PROVE Replay(log)[l] = Final(last[l], l) /\ Final(last[l], l) # Absent
  <2>1. OpenOn(log, l) # {} /\ Touches(last[l], l)
    BY <1>1
  <2>2. Replay(log)[l] = Final(last[l], l)
    BY <2>1 DEF Replay, LastOpen
  <2> QED BY <1>2, <2>1, <2>2, FinalIsValue
<1>5. ASSUME NEW l \in D, NEW k \in Key, Touches(last[l], k)
      PROVE  k \in D /\ last[k] \notin before[last[l]]
  <2>1. PICK n \in DOMAIN log : n \in Open(log) /\ log[n].type = "begin" /\ log[n].tx = last[l]
    BY <1>1
  <2>2. k \in D
    BY <1>5, <2>1 DEF Covered
  <2>3. PICK m \in DOMAIN log : /\ log[m].type = "begin" /\ log[m].tx = last[k]
                                /\ \A j \in Open(log) : Touches(log[j].tx, k) => j <= m
    BY <1>1, <2>2
  <2>4. n <= m
    BY <1>5, <2>1, <2>3
  <2>5. m \in Int /\ n \in Int
    BY LenProperties DEF TypeOK
  <2>6. ASSUME last[k] \in before[last[l]] PROVE FALSE
    <3>1. Touches(last[k], k)
      BY <1>1, <2>2
    <3>2. last[k] \in Tx /\ last[l] \in Tx
      BY <1>2, <2>2
    <3> HIDE DEF last
    <3>3. m < n
      BY <1>5, <2>1, <2>3, <2>6, <3>1, <3>2 DEF LinesOrdered
    <3> QED BY <2>4, <2>5, <3>3
  <2> QED BY <2>2, <2>6
<1>6. ASSUME NEW l \in D, NEW t \in Tx, Ended(t) PROVE ~(last[l] \in before[t] /\ Settled(last[l]))
  BY <1>2, <1>6 DEF EndsOrdered
<1>7. \A l \in D : Touches(last[l], l)
  BY <1>1
<1>8. DOMAIN last = D
  OBVIOUS
<1> HIDE DEF last
<1>9. ReplayedBy(last)
  BY <1>2, <1>4, <1>5, <1>6, <1>7, <1>8 DEF ReplayedBy
<1> QED BY <1>3, <1>9 DEF ReplayIsWhole

\* What was not settled before t, which began, still was not.
LEMMA OrderKept ==
  ASSUME TypeOK, LinesOrdered, BeginsOnce, [Next]_vars, NEW t \in Tx, Started(t), NEW u \in Tx,
         ~(u \in before[t] /\ Settled(u))
  PROVE  ~(u \in before'[t] /\ Settled(u)')
<1>1. tx[t] # "new"
  BY DEF BeginsOnce, Started, BeginTx
<1> QED BY <1>1, OldOrder

\* A way to put every entry of the next state down to a transaction.
LEMMA WriterFound ==
  ASSUME NEW f \in [{k \in Key : CurrentEntry(k)' # Absent} -> Tx],
         \A k \in DOMAIN f :
           /\ Started(f[k])' /\ Touches(f[k], k) /\ CurrentEntry(k)' = Final(f[k], k)
           /\ \A l \in Key : Touches(f[k], l) =>
                l \in DOMAIN f /\ ~(f[l] \in before'[f[k]] /\ Settled(f[l])')
  PROVE  AllOrNothing'
<1>1. WrittenBy(f)'
  BY DEF WrittenBy, Touches, OpsOn, Final, Latest
<1> QED BY <1>1 DEF AllOrNothing

\* Applying a transaction changes all its keys at once.
LEMMA AppliedWhole ==
  ASSUME TypeOK, BeginsLogged, BeginsOnce, FlushConsistent, TimesPast, LinesOrdered, AllOrNothing,
         NEW t \in Tx, ApplyTransaction(t), [Next]_vars
  PROVE  AllOrNothing'
<1>1. mode' = "up" /\ tx[t] = "logged" /\ before' = before /\ \A u \in Tx : ApplyTransaction(u) => u = t
  BY DEF ApplyTransaction, TypeOK
<1>2. PICK w \in [{k \in Key : CurrentEntry(k) # Absent} -> Tx] : WrittenBy(w)
  BY DEF AllOrNothing
<1>3. \A k \in Key : Touches(t, k) => CurrentEntry(k)' = Final(t, k) /\ Final(t, k) # Absent
  BY AppliedEntry, FinalIsValue
<1>4. \A k \in Key : ~Touches(t, k) => CurrentEntry(k)' = CurrentEntry(k)
  BY <1>1, EntryStep
<1>5. Started(t) /\ \A u \in Tx : t \notin before[u]
  BY <1>1 DEF BeginsLogged, Started, LinesOrdered
<1> DEFINE D == {k \in Key : CurrentEntry(k)' # Absent}
<1>6. PICK f : f = [k \in D |-> IF Touches(t, k) THEN t ELSE w[k]]
  OBVIOUS
<1>7. f \in [D -> Tx]
  BY <1>2, <1>4, <1>6
<1>8. ASSUME NEW k \in D
      PROVE  /\ Started(f[k])' /\ Touches(f[k], k) /\ CurrentEntry(k)' = Final(f[k], k)
             /\ \A l \in Key : Touches(f[k], l) => l \in D /\ ~(f[l] \in before'[f[k]] /\ Settled(f[l])')
  <2>1. CASE Touches(t, k)
    <3>1. f[k] = t /\ Started(t)'
      BY <1>5, <1>6, <2>1, LineStep
    <3>2. ASSUME NEW l \in Key, Touches(t, l) PROVE l \in D /\ f[l] = t
      BY <1>3, <1>6, <3>2
    <3> QED BY <1>1, <1>3, <1>5, <2>1, <3>1, <3>2
  <2>2. CASE ~Touches(t, k)
    <3>1. k \in DOMAIN w /\ f[k] = w[k] /\ w[k] \in Tx
      BY <1>2, <1>4, <1>6, <2>2
    <3>2. /\ Started(w[k]) /\ Touches(w[k], k) /\ CurrentEntry(k) = Final(w[k], k)
          /\ \A l \in Key : Touches(w[k], l) =>
               l \in DOMAIN w /\ ~(w[l] \in before[w[k]] /\ Settled(w[l]))
      BY <1>2, <3>1 DEF WrittenBy
    <3>3. ASSUME NEW l \in Key, Touches(w[k], l)
          PROVE  l \in D /\ ~(f[l] \in before'[w[k]] /\ Settled(f[l])')
      <4>1. CASE Touches(t, l)
        BY <1>1, <1>3, <1>5, <1>6, <3>1, <4>1
      <4>2. CASE ~Touches(t, l)
        <5>1. l \in DOMAIN w /\ w[l] \in Tx /\ ~(w[l] \in before[w[k]] /\ Settled(w[l]))
          BY <1>2, <3>2, <3>3
        <5>2. l \in D /\ f[l] = w[l]
          BY <1>2, <1>4, <1>6, <4>2, <5>1
        <5> QED BY <3>1, <3>2, <5>1, <5>2, OrderKept
      <4> QED BY <4>1, <4>2
    <3>4. Started(w[k])'
      BY <3>1, <3>2, LineStep
    <3> QED BY <1>4, <2>2, <3>1, <3>2, <3>3, <3>4
  <2> QED BY <2>1, <2>2
<1> QED BY <1>7, <1>8, WriterFound

\* A step that leaves every entry alone leaves transactions whole.
LEMMA UnchangedWhole ==
  ASSUME TypeOK, BeginsOnce, LinesOrdered, AllOrNothing, [Next]_vars,
         \A k \in Key : CurrentEntry(k)' = CurrentEntry(k)
  PROVE  AllOrNothing'
<1>1. PICK w \in [{k \in Key : CurrentEntry(k) # Absent} -> Tx] : WrittenBy(w)
  BY DEF AllOrNothing
<1>2. w \in [{k \in Key : CurrentEntry(k)' # Absent} -> Tx]
  <2>1. {k \in Key : CurrentEntry(k)' # Absent} = {k \in Key : CurrentEntry(k) # Absent}
    OBVIOUS
  <2> QED BY <1>1, <2>1
<1>3. ASSUME NEW k \in DOMAIN w
      PROVE  /\ Started(w[k])' /\ Touches(w[k], k) /\ CurrentEntry(k)' = Final(w[k], k)
             /\ \A l \in Key : Touches(w[k], l) =>
                  l \in DOMAIN w /\ ~(w[l] \in before'[w[k]] /\ Settled(w[l])')
  <2>1. k \in Key /\ w[k] \in Tx /\ \A l \in DOMAIN w : w[l] \in Tx
    BY <1>1
  <2>2. /\ Started(w[k]) /\ Touches(w[k], k) /\ CurrentEntry(k) = Final(w[k], k)
        /\ \A l \in Key : Touches(w[k], l) =>
             l \in DOMAIN w /\ ~(w[l] \in before[w[k]] /\ Settled(w[l]))
    BY <1>1 DEF WrittenBy
  <2>3. Started(w[k])'
    BY <2>1, <2>2, LineStep
  <2>4. ASSUME NEW l \in Key, Touches(w[k], l)
        PROVE  l \in DOMAIN w /\ ~(w[l] \in before'[w[k]] /\ Settled(w[l])')
    BY <2>1, <2>2, <2>4, OrderKept
  <2> QED BY <2>1, <2>2, <2>3, <2>4
<1> QED BY <1>2, <1>3, WriterFound

\* A crash, and a start that fails, leave transactions whole.
LEMMA StoppedWhole ==
  ASSUME TypeOK, DurabilityInv, TimesPast, MemtableLogged, LinesOrdered, AllOrNothing,
         ReplayIsWhole', StartedIsOpenOrEnded', [Next]_vars, mode' # "up"
  PROVE  AllOrNothing'
<1>0. BeginsLogged /\ BeginsOnce
  BY DEF DurabilityInv
<1>1. PICK w \in [{k \in Key : CurrentEntry(k) # Absent} -> Tx] : WrittenBy(w)
  BY DEF AllOrNothing
<1> DEFINE D == {k \in Key : CurrentEntry(k)' # Absent}
<1>a. PICK last \in [{k \in Key : Covered(k)'} -> Tx] : ReplayedBy(last)'
  BY DEF ReplayIsWhole
<1>2. ASSUME NEW l \in Key, Covered(l)'
      PROVE  /\ last[l] \in Tx /\ Started(last[l])' /\ Touches(last[l], l)
             /\ CurrentEntry(l)' = Final(last[l], l) /\ l \in D
             /\ \A k \in Key : Touches(last[l], k) => Covered(k)' /\ last[k] \notin before'[last[l]]
             /\ \A t \in Tx : Ended(t)' => ~(last[l] \in before'[t] /\ Settled(last[l])')
  <2>1. l \in DOMAIN last /\ last[l] \in Tx /\ \A k \in DOMAIN last : Covered(k)'
    BY <1>2, <1>a
  <2>2. /\ Started(last[l])' /\ Touches(last[l], l)
        /\ Replay(log')[l] = Final(last[l], l) /\ Replay(log')[l] # Absent
        /\ \A k \in Key : Touches(last[l], k) => k \in DOMAIN last /\ last[k] \notin before'[last[l]]
        /\ \A t \in Tx : Ended(t)' => ~(last[l] \in before'[t] /\ Settled(last[l])')
    BY <1>a, <2>1 DEF ReplayedBy, OpenOn, Latest, Touches, OpsOn, Final, Replay
  <2>3. CurrentEntry(l)' = Replay(log')[l]
    BY <2>2 DEF CurrentEntry, CurrentMemtable
  <2> QED BY <2>1, <2>2, <2>3
<1>3. \A k \in Key : ~Covered(k)' => CurrentEntry(k)' = CurrentEntry(k)
  BY UncoveredKeepsEntry
<1>4. PICK f : f = [k \in D |-> IF Covered(k)' THEN last[k] ELSE w[k]]
  OBVIOUS
<1>5. f \in [D -> Tx]
  BY <1>1, <1>2, <1>3, <1>4
<1>6. ASSUME NEW k \in D
      PROVE  /\ Started(f[k])' /\ Touches(f[k], k) /\ CurrentEntry(k)' = Final(f[k], k)
             /\ \A l \in Key : Touches(f[k], l) => l \in D /\ ~(f[l] \in before'[f[k]] /\ Settled(f[l])')
  <2>1. CASE Covered(k)'
    <3>1. f[k] = last[k]
      BY <1>4, <2>1
    <3>2. ASSUME NEW l \in Key, Touches(last[k], l) PROVE Covered(l)' /\ f[l] = last[l]
      <4>1. Covered(l)'
        BY <1>2, <2>1, <3>2
      <4> QED BY <1>2, <1>4, <4>1
    <3> QED BY <1>2, <2>1, <3>1, <3>2
  <2>2. CASE ~Covered(k)'
    <3>1. k \in DOMAIN w /\ f[k] = w[k] /\ w[k] \in Tx
      BY <1>1, <1>3, <1>4, <2>2
    <3>2. /\ Started(w[k]) /\ Touches(w[k], k) /\ CurrentEntry(k) = Final(w[k], k)
          /\ \A l \in Key : Touches(w[k], l) =>
               l \in DOMAIN w /\ ~(w[l] \in before[w[k]] /\ Settled(w[l]))
      BY <1>1, <3>1 DEF WrittenBy
    <3>3. Started(w[k])'
      BY <3>1, <3>2, LineStep
    <3>4. Ended(w[k])'
      <4>1. \A i \in Open(log)' : log'[i].tx # w[k]
        BY <2>2, <3>2 DEF Covered, Touches, OpsOn
      <4> QED BY <3>1, <3>3, <4>1 DEF StartedIsOpenOrEnded
    <3>5. ASSUME NEW l \in Key, Touches(w[k], l)
          PROVE  l \in D /\ ~(f[l] \in before'[w[k]] /\ Settled(f[l])')
      <4>1. CASE Covered(l)'
        <5>1. l \in D /\ f[l] = last[l]
          BY <1>2, <1>4, <4>1
        <5> QED BY <1>2, <3>1, <3>4, <4>1, <5>1
      <4>2. CASE ~Covered(l)'
        <5>1. l \in DOMAIN w /\ w[l] \in Tx /\ ~(w[l] \in before[w[k]] /\ Settled(w[l]))
          BY <1>1, <3>2, <3>5
        <5>2. l \in D /\ f[l] = w[l]
          BY <1>1, <1>3, <1>4, <4>2, <5>1
        <5> QED BY <1>0, <3>1, <3>2, <5>1, <5>2, OrderKept
      <4> QED BY <4>1, <4>2
    <3> QED BY <1>3, <2>2, <3>1, <3>2, <3>3, <3>5
  <2> QED BY <2>1, <2>2
<1> QED BY <1>5, <1>6, WriterFound

\* A first start, with no transaction yet, satisfies the invariant.
LEMMA InitOrder == Init => OrderInv
<1> SUFFICES ASSUME Init PROVE OrderInv
  OBVIOUS
<1>1. DOMAIN log = {} /\ DOMAIN txIds = {} /\ flush.pc = "idle" /\ mode = "down"
  BY NoFlushIdle, EmptySeq DEF Init
<1>2. \A t \in Tx : tx[t] = "new" /\ before[t] = {}
  BY DEF Init
<1> QED BY <1>1, <1>2 DEF OrderInv, LinesOrdered, SettledHeld, EndsOrdered, EntriesFresh, Ended

\* A first start has no entries to put down to anyone.
LEMMA InitWhole == Init => AllOrNothing
<1> SUFFICES ASSUME Init PROVE AllOrNothing
  OBVIOUS
<1>1. DOMAIN log = {} /\ DOMAIN sst = {} /\ mode = "down"
  BY EmptySeq DEF Init, NoPaths
<1>2. \A k \in Key : OpenOn(log, k) = {} /\ FullTables(k) = {}
  BY <1>1 DEF OpenOn, Open, FullTables
<1>3. \A k \in Key : CurrentEntry(k) = Absent
  BY <1>1, <1>2 DEF CurrentEntry, CurrentMemtable, Replay
<1>4. PICK w : w = [k \in {} |-> CHOOSE t \in Tx : TRUE]
  OBVIOUS
<1>5. w \in [{k \in Key : CurrentEntry(k) # Absent} -> Tx] /\ WrittenBy(w)
  <2>1. {k \in Key : CurrentEntry(k) # Absent} = {}
    BY <1>3
  <2>2. w \in [{} -> Tx] /\ WrittenBy(w)
    BY <1>4 DEF WrittenBy
  <2> QED BY <2>1, <2>2
<1> QED BY <1>5 DEF AllOrNothing

(***************************************************************************)
(* OrderInv gives NoLostUpdate: the fresh transaction that the entry comes *)
(* from is the source to name.                                             *)
(***************************************************************************)
LEMMA InvIsNoLostUpdate == TypeOK /\ OrderInv => NoLostUpdate
<1> SUFFICES ASSUME TypeOK, OrderInv, NEW k \in Key, NEW t \in Tx, tx[t] = "acked", Touches(t, k)
             PROVE  \E u \in {v \in Tx : Touches(v, k) /\ tx[v] # "new" /\ CurrentEntry(k) = Final(v, k)} :
                      ~(u \in before[t] /\ (tx[u] = "acked" \/ ioErrors = 0))
  BY DEF NoLostUpdate
<1>1. PICK u \in Tx : Fresh(u, k) /\ CurrentEntry(k) = Final(u, k)
  BY DEF OrderInv, EntriesFresh
<1>2. ~(u \in before[t] /\ Settled(u))
  BY <1>1 DEF Fresh
<1>3. u \in before[t] /\ (tx[u] = "acked" \/ ioErrors = 0) => Settled(u)
  BY DEF OrderInv, LinesOrdered, Settled
<1> QED BY <1>1, <1>2, <1>3 DEF Fresh

-----------------------------------------------------------------------------
(***************************************************************************)
(* The theorems.                                                           *)
(***************************************************************************)

(***************************************************************************)
(* The commit log, tx_ids, the EndTx loop and recovery keep the order of   *)
(* transactions that did not overlap, and every entry an acknowledged      *)
(* transaction wrote is fresh, provided that the clock moves on between    *)
(* two time stamps.                                                        *)
(***************************************************************************)
THEOREM OrderInvariant == ASSUME ClockAdvances PROVE Spec => []OrderInv
<1> DEFINE Known == TypeOK /\ DurabilityInv /\ ReadInv
           Lines == LinesOrdered /\ SettledHeld /\ EndsOrdered
<1>1. Known /\ Lines /\ [Next]_vars => Lines'
  BY LinesOrderedStep, SettledHeldStep, EndsOrderedStep DEF DurabilityInv, ReadInv
<1>2. Known /\ Lines => ReplayIsFresh
  BY ReplayFresh DEF DurabilityInv
<1>3. Known /\ Lines /\ EntriesFresh /\ ReplayIsFresh' /\ [Next]_vars => EntriesFresh'
  BY EntriesFreshStep DEF ReadInv
<1>4. Init => Lines /\ EntriesFresh
  BY InitOrder DEF OrderInv
<1>5. Spec => []Known
  BY TypeCorrect, DurabilityInvariant, ReadInvariant, PTL
<1>6. Lines /\ EntriesFresh => OrderInv
  BY DEF OrderInv
<1> HIDE DEF Known, Lines
<1> QED BY <1>1, <1>2, <1>3, <1>4, <1>5, <1>6, PTL DEF Spec

(***************************************************************************)
(* No lost update: the current entry of a key that an acknowledged         *)
(* transaction wrote is never one that was acknowledged before it began,   *)
(* whatever flushes, crashes, I/O errors and recoveries came in between.   *)
(***************************************************************************)
THEOREM NoUpdateIsLost == ASSUME ClockAdvances PROVE Spec => []NoLostUpdate
BY OrderInvariant, TypeCorrect, InvIsNoLostUpdate, PTL

(***************************************************************************)
(* All or nothing: at no moment, and after no flush, crash, I/O error or   *)
(* recovery, does the store show one write of a transaction and, for       *)
(* another of its keys, something that was settled before it began.        *)
(***************************************************************************)
THEOREM TransactionsAreWhole == ASSUME ClockAdvances PROVE Spec => []AllOrNothing
<1> DEFINE Known == TypeOK /\ DurabilityInv /\ ReadInv /\ OrderInv
           Replays == ReplayIsWhole /\ StartedIsOpenOrEnded
<1>1. Init => AllOrNothing
  BY InitWhole
<1>2. Known => Replays
  BY ReplayWhole, StartedLines DEF DurabilityInv, OrderInv
<1>3. Known /\ Replays' /\ AllOrNothing /\ [Next]_vars => AllOrNothing'
  <2> SUFFICES ASSUME Known, Replays', AllOrNothing, [Next]_vars PROVE AllOrNothing'
    OBVIOUS
  <2>1. /\ BeginsLogged /\ BeginsOnce /\ FlushConsistent /\ TimesPast /\ MemtableLogged /\ LinesOrdered
        /\ TypeOK /\ DurabilityInv
    BY DEF DurabilityInv, ReadInv, OrderInv
  <2>2. CASE mode' # "up"
    BY <2>1, <2>2, StoppedWhole
  <2>3. ASSUME NEW t \in Tx, ApplyTransaction(t) PROVE AllOrNothing'
    BY <2>1, <2>3, AppliedWhole
  <2>4. CASE mode' = "up" /\ \A t \in Tx : ~ApplyTransaction(t)
    <3>1. \A k \in Key : CurrentEntry(k)' = CurrentEntry(k)
      BY <2>1, <2>4, EntryStep
    <3> QED BY <2>1, <3>1, UnchangedWhole
  <2> QED BY <2>2, <2>3, <2>4
<1>4. Spec => []Known
  BY TypeCorrect, DurabilityInvariant, ReadInvariant, OrderInvariant, PTL
<1> HIDE DEF Known, Replays
<1> QED BY <1>1, <1>2, <1>3, <1>4, PTL DEF Spec

=============================================================================
