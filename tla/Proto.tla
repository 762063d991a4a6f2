-------------------------------- MODULE Proto --------------------------------
(***************************************************************************)
(* The wire protocol of src/src/proto.rs: Proto::read turns the bytes of a *)
(* TLS connection into one operation, over as many socket reads as needed. *)
(*                                                                         *)
(* `rd` has the locals of the read() call under way and `buf`, `fresh` the *)
(* fields that outlive it.  One action is one pass of 'state_loop (one     *)
(* byte of a length).  Positions count from 0 as in the code.              *)
(***************************************************************************)
EXTENDS Naturals, Sequences

CONSTANT BufSize     \* BUF_SIZE: the most bytes one read of the socket returns

ASSUME BufSizeAssumption == BufSize \in Nat \ {0}

VARIABLES
  wire,   \* what the client sent and the socket has not returned: one
          \* sequence of bytes per piece that a read does not reach across
  peer,   \* "open", or how the client went: "clean" (close_notify, then
          \* FIN), "eof" (FIN only), "reset"
  kill,   \* the kill broadcast was sent, or its sender is gone
  buf,    \* Proto.buf
  fresh,  \* Proto.fresh
  rd,     \* the locals of read()
  ret     \* what read() returned and the caller has not looked at yet

protoVars == <<wire, peer, kill, buf, fresh, rd, ret>>

(***************************************************************************)
(* Bytes are their codes.  Decimal and Number are to_string and parse (of  *)
(* digits: the leading + that parse also takes is not sent by any client). *)
(***************************************************************************)
Byte == 0..255
Newline == 10
Colon == 58
GET == <<71, 69, 84, 58>>     \* "GET:"
SET == <<83, 69, 84, 58>>     \* "SET:"
ECHO == <<69, 67, 72, 79>>    \* "ECHO"
Op == {GET, SET, ECHO}
MinBufSize == 4

Digits == [d \in 0..9 |-> 48 + d]
Decimal(n) == IF n < 10 THEN <<Digits[n]>> ELSE <<Digits[(n \div 10) % 10], Digits[n % 10]>>
IsNumber(s) == s # <<>> /\ \A i \in DOMAIN s : s[i] \in 48..57
Number(s) ==
  LET n[i \in 0..Len(s)] == IF i = 0 THEN 0 ELSE 10 * n[i - 1] + (s[i] - 48)
  IN  n[Len(s)]
\* String::from_utf8, for bytes that are ASCII or never part of UTF-8.
IsUtf8(s) == \A i \in DOMAIN s : s[i] < 128

Lesser(m, n) == IF m <= n THEN m ELSE n
Drop(s, n) == SubSeq(s, n + 1, Len(s))

(***************************************************************************)
(* The call.  keyLen and valueLen, the two length buffers, and the three   *)
(* argument buffers are each used up before the next one is filled, so len,*)
(* lenBuf and arg stand for all of them; key keeps the key of a SET.       *)
(***************************************************************************)
Idle ==
  [state |-> "Idle", op |-> GET, betweenColons |-> FALSE, needsRead |-> FALSE,
   ptr |-> 0, lenBuf |-> <<>>, len |-> 0, key |-> <<>>, arg |-> <<>>, residual |-> <<>>]
NoResult == [type |-> "none"]

Read ==
  /\ rd.state = "Idle" /\ ret = NoResult
  /\ rd' = [Idle EXCEPT !.state = "Start", !.needsRead = fresh]
  /\ UNCHANGED <<wire, peer, kill, buf, fresh, ret>>

Return(result) == ret' = result /\ rd' = Idle

(***************************************************************************)
(* needs_read: the buffer is cleared and refilled, residual bytes first.   *)
(***************************************************************************)
Refill(bytes) ==
  /\ buf' = rd.residual \o bytes
  /\ rd' = [rd EXCEPT !.residual = <<>>, !.ptr = 0, !.needsRead = FALSE]
  /\ UNCHANGED <<peer, kill, fresh, ret>>

\* The socket returns the next n bytes.
ReadBuf(n) ==
  /\ rd.needsRead /\ wire # <<>> /\ n <= Lesser(BufSize, Len(Head(wire)))
  /\ Refill(SubSeq(Head(wire), 1, n))
  /\ wire' = IF n = Len(Head(wire)) THEN Tail(wire) ELSE <<Drop(Head(wire), n)>> \o Tail(wire)

\* After a clean close a read returns Ok(0), at once and every time.
ReadNothing ==
  /\ rd.needsRead /\ wire = <<>> /\ peer = "clean"
  /\ Refill(<<>>)
  /\ UNCHANGED wire

\* Faulty variant of ReadEof: the end of the stream counts as a read.
ReadEofIgnored ==
  /\ rd.needsRead /\ wire = <<>> /\ peer = "eof"
  /\ Refill(<<>>)
  /\ UNCHANGED wire
ReadEof ==
  /\ rd.needsRead /\ wire = <<>> /\ peer = "eof"
  /\ buf' = <<>>
  /\ Return([type |-> "SysClose"])
  /\ UNCHANGED <<wire, peer, kill, fresh>>

ReadReset ==
  /\ rd.needsRead /\ peer = "reset"
  /\ buf' = <<>>
  /\ Return([type |-> "Err"])
  /\ UNCHANGED <<wire, peer, kill, fresh>>

\* select! takes the kill branch; it may take the other one when both are ready.
\* Faulty variant: the signal is noticed but the read goes on.
ReadKillIgnored ==
  /\ rd.needsRead /\ kill
  /\ buf' = <<>>
  /\ UNCHANGED <<wire, peer, kill, fresh, rd, ret>>
ReadKilled ==
  /\ rd.needsRead /\ kill
  /\ buf' = <<>>
  /\ Return([type |-> "Cancelled"])
  /\ UNCHANGED <<wire, peer, kill, fresh>>

(***************************************************************************)
(* The states of the parser.                                               *)
(***************************************************************************)
At(s) == rd.state = s /\ ~rd.needsRead
More == rd.ptr < Len(buf)
Here == buf[rd.ptr + 1]
Continue(next) == rd' = next /\ UNCHANGED <<wire, peer, kill, buf, ret>>
NeedsRead == Continue([rd EXCEPT !.ptr = Len(buf), !.needsRead = TRUE]) /\ UNCHANGED fresh

\* A new Proto goes on to the operation.  Otherwise what is in buf up to and
\* including a newline is the end of the operation read last; what is behind
\* it is kept as residual.
StartFresh ==
  /\ At("Start") /\ fresh
  /\ fresh' = FALSE
  /\ Continue([rd EXCEPT !.state = "ReadOp"])

Newlines == {p \in rd.ptr..(Len(buf) - 1) : buf[p + 1] = Newline}
\* Faulty variant of StartSkip: the newline itself is not skipped.
StartSkipShort ==
  /\ At("Start") /\ ~fresh
  /\ \E p \in Newlines :
       /\ \A q \in Newlines : p <= q
       /\ Continue([rd EXCEPT !.state = "ReadOp", !.ptr = p, !.residual = @ \o Drop(buf, p)])
  /\ UNCHANGED fresh
StartSkip ==
  /\ At("Start") /\ ~fresh
  /\ \E p \in Newlines :
       /\ \A q \in Newlines : p <= q
       /\ Continue([rd EXCEPT !.state = "ReadOp", !.ptr = p + 1, !.residual = @ \o Drop(buf, p + 1)])
  /\ UNCHANGED fresh
StartNoNewline == At("Start") /\ ~fresh /\ Newlines = {} /\ NeedsRead

\* The four bytes at ptr name the operation.  Afterwards ptr is 3 or 4, not
\* ptr + 3 or ptr + 4.
OpBytes == SubSeq(buf, rd.ptr + 1, rd.ptr + MinBufSize)
ReadOp ==
  /\ At("ReadOp") /\ rd.ptr + MinBufSize <= Len(buf) /\ OpBytes \in Op
  /\ Continue([rd EXCEPT !.state = "ReadKeyLen", !.op = OpBytes, !.ptr = IF OpBytes = ECHO THEN 4 ELSE 3])
  /\ UNCHANGED fresh
ReadOpShort ==
  /\ At("ReadOp") /\ rd.ptr + MinBufSize > Len(buf) /\ rd.ptr # 0
  /\ Continue([rd EXCEPT !.needsRead = TRUE]) /\ UNCHANGED fresh

\* The length of an argument, between two colons; one byte at a time.
AfterLen(s) ==
  CASE s = "ReadValueLen"                  -> "ReadValue"
    [] s = "ReadKeyLen" /\ rd.op = ECHO    -> "ReadEcho"
    [] s = "ReadKeyLen" /\ rd.op # ECHO    -> "ReadKey"
\* Faulty variant of Advanced: a byte too far.
AdvancedTwice == [rd EXCEPT !.ptr = @ + 2]
Advanced == [rd EXCEPT !.ptr = @ + 1]
ReadLen(s) ==
  /\ At(s)
  /\ \/ ~More /\ NeedsRead
     \/ /\ More /\ ~rd.betweenColons /\ Here = Colon
        /\ Continue([Advanced EXCEPT !.betweenColons = TRUE])
     \/ /\ More /\ rd.betweenColons /\ Here # Colon
        /\ Continue([Advanced EXCEPT !.lenBuf = Append(@, Here)])
     \/ /\ More /\ rd.betweenColons /\ Here = Colon /\ IsNumber(rd.lenBuf)
        /\ Continue([Advanced EXCEPT !.betweenColons = FALSE, !.len = Number(rd.lenBuf),
                                     !.lenBuf = <<>>, !.state = AfterLen(s)])
  /\ UNCHANGED fresh
ReadKeyLen == ReadLen("ReadKeyLen")
ReadValueLen == ReadLen("ReadValueLen")

\* The argument: as much of it as the buffer has.
Missing == Lesser(rd.len - Len(rd.arg), Len(buf) - rd.ptr)
Taken == [rd EXCEPT !.arg = @ \o SubSeq(buf, rd.ptr + 1, rd.ptr + Missing), !.ptr = @ + Missing]
\* Faulty variants of ReadArg: an argument ends with the buffer it begins
\* in; it ends only when there is a byte more than its length.
ReadArgOnce(s, whole) ==
  /\ At(s)
  /\ Continue(whole)
  /\ UNCHANGED fresh
ReadArgStrict(s, whole) ==
  /\ At(s)
  /\ IF Len(Taken.arg) > rd.len THEN Continue(whole) ELSE Continue([Taken EXCEPT !.needsRead = TRUE])
  /\ UNCHANGED fresh
ReadArg(s, whole) ==
  /\ At(s)
  /\ IF Len(Taken.arg) >= rd.len THEN Continue(whole) ELSE Continue([Taken EXCEPT !.needsRead = TRUE])
  /\ UNCHANGED fresh

ReadEcho == ReadArg("ReadEcho", [Taken EXCEPT !.state = "Done"])
ReadValue == ReadArg("ReadValue", [Taken EXCEPT !.state = "Done"])
ReadKey ==
  ReadArg("ReadKey", [Taken EXCEPT !.state = IF rd.op = SET THEN "ReadValueLen" ELSE "Done",
                                   !.key = Taken.arg, !.arg = <<>>])

Result ==
  CASE rd.op = ECHO -> [type |-> "Echo", msg |-> rd.arg]
    [] rd.op = GET  -> [type |-> "Get", key |-> rd.key]
    [] rd.op = SET  -> [type |-> "Set", key |-> rd.key, value |-> rd.arg]
Done ==
  /\ At("Done") /\ IsUtf8(rd.key)
  /\ Return(Result)
  /\ UNCHANGED <<wire, peer, kill, buf, fresh>>

(***************************************************************************)
(* The early returns of Err: bytes that are no operation.                  *)
(***************************************************************************)
NotAnOperation ==
  \/ At("ReadOp") /\ rd.ptr = 0 /\ Len(buf) < MinBufSize
  \/ At("ReadOp") /\ rd.ptr + MinBufSize <= Len(buf) /\ OpBytes \notin Op
  \/ \E s \in {"ReadKeyLen", "ReadValueLen"} :
       /\ At(s) /\ More
       /\ IF rd.betweenColons THEN Here = Colon /\ ~IsNumber(rd.lenBuf) ELSE Here # Colon
  \/ At("Done") /\ ~IsUtf8(rd.key)
ReadErr ==
  /\ NotAnOperation
  /\ Return([type |-> "Err"])
  /\ UNCHANGED <<wire, peer, kill, buf, fresh>>

(***************************************************************************)
(* Everything read() does, up to its return.                               *)
(***************************************************************************)
Parse ==
  \/ StartFresh \/ StartSkip \/ StartNoNewline
  \/ ReadOp \/ ReadOpShort
  \/ ReadKeyLen \/ ReadEcho \/ ReadKey \/ ReadValueLen \/ ReadValue
  \/ Done \/ ReadErr
Socket ==
  \/ \E n \in 1..BufSize : ReadBuf(n)
  \/ ReadNothing \/ ReadEof \/ ReadReset

ProtoInit ==
  /\ wire = <<>> /\ peer = "open" /\ kill = FALSE
  /\ buf = <<>> /\ fresh = TRUE /\ rd = Idle /\ ret = NoResult

ProtoTypeOK ==
  /\ \A i \in DOMAIN wire : wire[i] \in Seq(Byte) /\ wire[i] # <<>>
  /\ peer \in {"open", "clean", "eof", "reset"}
  /\ kill \in BOOLEAN /\ fresh \in BOOLEAN
  /\ buf \in Seq(Byte)
  /\ rd.ptr \in 0..Len(buf) /\ rd.len \in Nat
  /\ rd.state \in {"Idle", "Start", "ReadOp", "ReadKeyLen", "ReadEcho", "ReadKey",
                   "ReadValueLen", "ReadValue", "Done"}
  /\ {rd.lenBuf, rd.key, rd.arg, rd.residual} \subseteq Seq(Byte)

=============================================================================
