------------------------------ MODULE CommitLog ------------------------------
(***************************************************************************)
(* The commit log file of src/src/store/lsm/commit_log.rs, as a sequence   *)
(* of lines, and what get_unfinished_transactions makes of it on startup.  *)
(*                                                                         *)
(* A line is a u64 length followed by a bincode payload.  A write that a   *)
(* crash or an I/O error cuts short leaves "short_header" (fewer than the  *)
(* 8 length bytes) or "short_body" (the length, not the whole payload).    *)
(***************************************************************************)
EXTENDS Transactions, FiniteSets

CONSTANTS
  KeyBytes,    \* length of a key
  DataBytes,   \* length of the value of a Set
  ReadChunk,   \* bytes one read_buf call on an empty Vec may return
  BufCap       \* capacity of the BufReader

ASSUME SizeAssumption == {KeyBytes, DataBytes, ReadChunk, BufCap} \subseteq Nat \ {0}

BeginTx(t) == [type |-> "begin", tx |-> t]
EndTx(t) == [type |-> "end", tx |-> t]
Cut(line) == {[line EXCEPT !.type = "short_header"], [line EXCEPT !.type = "short_body"]}
Line == [type : {"begin", "end", "short_header", "short_body"}, tx : Tx]

\* What a write of the line may leave behind when it does not return Ok.
Leftovers(line) == {<<>>, <<line>>} \cup {<<l>> : l \in Cut(line)}

(***************************************************************************)
(* Byte positions.  A payload is decoded from ONE read_buf call, which     *)
(* returns at most ReadChunk bytes and never crosses the end of what the   *)
(* BufReader has buffered; fewer bytes than the payload do not deserialize.*)
(***************************************************************************)
HeaderBytes == 8

\* Bincode: 4 bytes for an enum tag, 8 for a length, 16 for a uuid.
OperationBytes(op) ==
  IF op.value = Tombstone THEN 4 + 8 + KeyBytes ELSE 4 + 8 + KeyBytes + 8 + DataBytes
OperationsBytes(t) ==
  LET bytes[i \in 0 .. Len(Operations[t])] ==
        IF i = 0 THEN 0 ELSE bytes[i - 1] + OperationBytes(Operations[t][i])
  IN  bytes
BeginBytes(t) == 4 + 8 + 16 + 8 + OperationsBytes(t)[Len(Operations[t])]
EndBytes == 4 + 8 + 16

Payload(line) == IF line.type = "begin" THEN BeginBytes(line.tx) ELSE EndBytes

\* Ends(log)[i] is the length of the file up to and including line i.
Ends(log) ==
  LET end[i \in 0 .. Len(log)] ==
        IF i = 0 THEN 0 ELSE end[i - 1] + HeaderBytes + Payload(log[i])
  IN  end
Offset(log, i) == Ends(log)[i - 1]

\* Faulty variant: a payload that fills the read exactly is refused.
OneReadStrict(log, i) == Payload(log[i]) < ReadChunk
OneRead(log, i) ==
  LET first == Offset(log, i) + HeaderBytes
      last  == first + Payload(log[i]) - 1
  IN  Payload(log[i]) <= ReadChunk /\ first \div BufCap = last \div BufCap

(***************************************************************************)
(* CommitLogLine::decode_from on line i.  A short header at the very end   *)
(* reads as end of file.  Anywhere else it shifts the bytes that follow:   *)
(* the next length then reads as 0, which deserializes to an error.        *)
(***************************************************************************)
DecodesAt(log, i) ==
  \/ log[i].type \in {"begin", "end"} /\ OneRead(log, i)
  \/ log[i].type = "short_header" /\ i = Len(log)

Decodes(log) == \A i \in DOMAIN log : DecodesAt(log, i)

(***************************************************************************)
(* get_unfinished_transactions keeps a map from id to (line number,        *)
(* transaction): a BeginTx inserts, an EndTx removes.  Open holds the line *)
(* numbers left in it at the end; UnfinishedLines is the set whose one     *)
(* member lists them in ascending order, the order they are replayed in.   *)
(***************************************************************************)
\* Faulty variant of Open: an EndTx line removes nothing.
OpenEndIgnored(log) == {i \in DOMAIN log : log[i].type = "begin"}
Open(log) ==
  {i \in DOMAIN log :
     /\ log[i].type = "begin"
     /\ \A j \in DOMAIN log :
          j > i /\ log[j].type \in {"begin", "end"} => log[j].tx # log[i].tx}

Ascending(s) == \A i, j \in DOMAIN s : i < j => s[i] < s[j]

UnfinishedLines(log) ==
  {s \in [1 .. Cardinality(Open(log)) -> Open(log)] :
     Ascending(s) /\ {s[i] : i \in DOMAIN s} = Open(log)}

\* Faulty variant of OpenOn: only the first operation of a transaction is replayed.
OpenOnFirstOpOnly(log, k) ==
  {i \in Open(log) : Touches(log[i].tx, k) /\ 1 \in OpsOn(log[i].tx, k)}
OpenOn(log, k) == {i \in Open(log) : Touches(log[i].tx, k)}

\* The memtable that replaying those transactions in that order builds.
\* Faulty variant of Replay: transactions are replayed in the reverse order.
ReplayReversed(log) ==
  [k \in Key |->
     LET lines == OpenOn(log, k)
     IN  IF lines = {} THEN Absent
         ELSE Final(log[CHOOSE i \in lines : \A j \in lines : i <= j].tx, k)]
Replay(log) ==
  [k \in Key |->
     LET lines == OpenOn(log, k)
     IN  IF lines = {} THEN Absent ELSE Final(log[Latest(lines)].tx, k)]

(***************************************************************************)
(* The loops of recovery, literally, to hold Open and Replay against.      *)
(* get_unfinished_transactions: txs maps an id to the number of its        *)
(* BeginTx line (0: no entry); the loop inserts on BeginTx and removes on  *)
(* EndTx.  A header cut short ends it.                                     *)
(***************************************************************************)
LoopTo(log) ==
  LET txs[i \in 0 .. Len(log)] ==
        IF i = 0 THEN [t \in Tx |-> 0]
        ELSE CASE log[i].type = "begin"                -> [txs[i - 1] EXCEPT ![log[i].tx] = i]
               [] log[i].type = "end"                  -> [txs[i - 1] EXCEPT ![log[i].tx] = 0]
               [] log[i].type \notin {"begin", "end"}  -> txs[i - 1]
  IN  txs
Loop(log) == LoopTo(log)[Len(log)]

\* restore_previous_txs: do_transact for ids[1], ids[2], ... on an empty memtable.
RestoredTo(ids) ==
  LET table[i \in 0 .. Len(ids)] ==
        IF i = 0 THEN EmptyTable ELSE Apply(table[i - 1], ids[i])
  IN  table
Restored(ids) == RestoredTo(ids)[Len(ids)]

=============================================================================
