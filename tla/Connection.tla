----------------------------- MODULE Connection -----------------------------
(***************************************************************************)
(* One client connection: Connection::handle of src/src/server/client.rs   *)
(* reads operations with Proto, runs them on the store and writes the      *)
(* answers.  The client sends Requests in order and waits for each answer. *)
(* The answer may come before the last bytes of its request were read, so  *)
(* a read may return them with the beginning of the next; with Coalesced   *)
(* this happens, without it no read reaches across.                        *)
(*                                                                         *)
(* The store is the Store trait: get and transact, atomic, either of which *)
(* may return Err (at most MaxStoreErrors times).                          *)
(***************************************************************************)
EXTENDS Proto

CONSTANTS
  Requests,        \* what the client sends: a sequence of operations
  Padding,         \* bytes before each newline, which the server discards
  Coalesced,       \* whether a read may reach into the next request
  MaxStoreErrors   \* bound on the errors of the store

ASSUME ConnectionAssumption ==
  /\ Padding \in Seq(Byte) /\ Coalesced \in BOOLEAN /\ MaxStoreErrors \in Nat
  /\ \A i \in DOMAIN Requests : Requests[i].type \in {"Echo", "Get", "Set"}

VARIABLES
  conn,         \* "handshake", "open", or how handle() ended: "ok", "err", "panic"
  sent,         \* how many requests the client sent
  answers,      \* what was written to the client
  data,         \* the store: key -> value
  stored,       \* which requests the store took (history)
  storeErrors   \* errors of the store so far

vars == <<protoVars, conn, sent, answers, data, stored, storeErrors>>
handlerVars == <<conn, answers, data, stored, storeErrors>>

(***************************************************************************)
(* The client.  Encode is a request as the doc comment of Proto::read      *)
(* describes it, each argument with its length between colons.             *)
(***************************************************************************)
Arg(bytes) == <<Colon>> \o Decimal(Len(bytes)) \o <<Colon>> \o bytes
Encode(r) ==
  CASE r.type = "Echo" -> ECHO \o Arg(r.msg) \o Padding \o <<Newline>>
    [] r.type = "Get"  -> GET \o Tail(Arg(r.key)) \o Padding \o <<Newline>>
    [] r.type = "Set"  -> SET \o Tail(Arg(r.key)) \o Arg(r.value) \o Padding \o <<Newline>>

Send ==
  /\ peer = "open" /\ conn # "handshake" /\ sent < Len(Requests)
  /\ Len(answers) = sent
  /\ sent' = sent + 1
  /\ LET bytes == Encode(Requests[sent + 1])
     IN  wire' = IF Coalesced /\ wire # <<>> THEN <<Head(wire) \o bytes>> ELSE Append(wire, bytes)
  /\ UNCHANGED <<peer, kill, buf, fresh, rd, ret, handlerVars>>

\* The client goes, perhaps before the last of its bytes were on their way.
Disconnect ==
  /\ peer = "open"
  /\ peer' \in {"clean", "eof", "reset"}
  /\ \/ UNCHANGED wire
     \/ /\ wire # <<>>
        /\ \E n \in 0..(Len(Head(wire)) - 1) :
             wire' = IF n = 0 THEN <<>> ELSE <<SubSeq(Head(wire), 1, n)>>
  /\ UNCHANGED <<kill, buf, fresh, rd, ret, sent, handlerVars>>

(***************************************************************************)
(* The kill broadcast of the client server.                                *)
(***************************************************************************)
Kill ==
  /\ ~kill
  /\ kill' = TRUE
  /\ UNCHANGED <<wire, peer, buf, fresh, rd, ret, sent, handlerVars>>

(***************************************************************************)
(* handle(): the TLS handshake, then a loop of read, run and answer.       *)
(***************************************************************************)
End(how) == conn' = how

Accept ==
  /\ conn = "handshake"
  /\ \/ peer = "open" /\ End("open")
     \/ peer # "open" /\ End("err")
  /\ UNCHANGED <<protoVars, sent, answers, data, stored, storeErrors>>

CallRead == conn = "open" /\ Read /\ UNCHANGED <<sent, handlerVars>>
Reading == Parse /\ UNCHANGED <<sent, handlerVars>>
ReadingSocket == Socket /\ UNCHANGED <<sent, handlerVars>>
ReadingKilled == ReadKilled /\ UNCHANGED <<sent, handlerVars>>

Returned(type) == conn = "open" /\ ret.type = type
Handled == ret' = NoResult /\ UNCHANGED <<wire, peer, kill, buf, fresh, rd, sent>>

\* SysClose and Cancelled end the connection, and so does an error of read.
Close ==
  /\ \/ (Returned("SysClose") \/ Returned("Cancelled")) /\ End("ok")
     \/ Returned("Err") /\ End("err")
  /\ Handled
  /\ UNCHANGED <<answers, data, stored, storeErrors>>

\* write_null, write_echo and write_get_result, write_set_result.
Null == <<110, 117, 108, 108, Newline>>     \* "null\n"
Framed(bytes) == Decimal(Len(bytes)) \o <<Colon>> \o bytes \o <<Newline>>
SetResult(value) ==
  LET size == Decimal(Len(value)) IN Decimal(Len(size)) \o <<Colon>> \o size \o <<Newline>>

\* Writing and flushing; it can fail only when the client is gone.
Answer(bytes) ==
  \/ answers' = Append(answers, bytes) /\ UNCHANGED conn
  \/ peer # "open" /\ End("err") /\ UNCHANGED answers

HandleEcho ==
  /\ Returned("Echo") /\ Handled
  /\ Answer(Framed(ret.msg))
  /\ UNCHANGED <<data, stored, storeErrors>>

StoreGet(k) == IF k \in DOMAIN data THEN Framed(data[k]) ELSE Null
HandleGet ==
  /\ Returned("Get") /\ Handled
  /\ Answer(StoreGet(ret.key))
  /\ UNCHANGED <<data, stored, storeErrors>>

\* get(...).unwrap() on Err.
HandleGetFails ==
  /\ Returned("Get") /\ Handled
  /\ storeErrors < MaxStoreErrors
  /\ storeErrors' = storeErrors + 1
  /\ End("panic")
  /\ UNCHANGED <<answers, data, stored>>

HandleSet ==
  /\ Returned("Set") /\ Handled
  /\ data' = [k \in DOMAIN data \cup {ret.key} |-> IF k = ret.key THEN ret.value ELSE data[k]]
  /\ stored' = stored \cup {Len(answers) + 1}
  /\ Answer(SetResult(ret.value))
  /\ UNCHANGED storeErrors

\* transact(...).ok() drops the error; the client gets the same answer.
\* Faulty variant: the transaction is there although the store refused it.
HandleSetHalf ==
  /\ Returned("Set") /\ Handled
  /\ storeErrors < MaxStoreErrors
  /\ storeErrors' = storeErrors + 1
  /\ data' = [k \in DOMAIN data \cup {ret.key} |-> IF k = ret.key THEN ret.value ELSE data[k]]
  /\ Answer(SetResult(ret.value))
  /\ UNCHANGED stored
HandleSetFails ==
  /\ Returned("Set") /\ Handled
  /\ storeErrors < MaxStoreErrors
  /\ storeErrors' = storeErrors + 1
  /\ Answer(SetResult(ret.value))
  /\ UNCHANGED <<data, stored>>

Handle == Close \/ HandleEcho \/ HandleGet \/ HandleGetFails \/ HandleSet \/ HandleSetFails

Init ==
  /\ ProtoInit
  /\ conn = "handshake" /\ sent = 0 /\ answers = <<>>
  /\ data = [k \in {} |-> <<>>] /\ stored = {} /\ storeErrors = 0

Next ==
  \/ Send \/ Disconnect \/ Kill
  \/ Accept \/ CallRead \/ Reading \/ ReadingSocket \/ ReadingKilled \/ Handle

Spec == Init /\ [][Next]_vars

\* tokio polls a connection whose socket or kill receiver is ready; select!
\* picks at random among ready branches, so a pending kill is taken in the
\* end however often the socket is ready too.  A client need not send.
FairSpec ==
  /\ Spec
  /\ WF_vars(Accept) /\ WF_vars(CallRead) /\ WF_vars(Reading)
  /\ WF_vars(ReadingSocket) /\ WF_vars(Handle)
  /\ SF_vars(ReadingKilled)

(***************************************************************************)
(* Properties.                                                             *)
(***************************************************************************)
Ended == conn \in {"ok", "err", "panic"}

TypeOK ==
  /\ ProtoTypeOK
  /\ conn \in {"handshake", "open", "ok", "err", "panic"}
  /\ sent \in 0..Len(Requests)
  /\ \A i \in DOMAIN answers : answers[i] \in Seq(Byte)
  /\ stored \subseteq 1..Len(Requests)
  /\ storeErrors \in 0..MaxStoreErrors

(***************************************************************************)
(* Framing (Proto::read): each operation read() returns is the one the     *)
(* client sent in that place, however the bytes were cut into reads.       *)
(***************************************************************************)
ReadsWhatWasSent ==
  ret.type \in {"Echo", "Get", "Set"} =>
    Len(answers) < sent /\ ret = Requests[Len(answers) + 1]

(***************************************************************************)
(* read() returns Err only for a connection that was reset, or for the     *)
(* case its comment gives up on: the first read of an operation returned   *)
(* fewer than four bytes.  No other way of cutting a request is refused,   *)
(* and no bytes in a key or a value are (proto.rs:198, raw byte values).   *)
(***************************************************************************)
ErrOnlyForShortRead ==
  [][ret'.type = "Err" /\ ret.type # "Err" =>
       peer = "reset" \/ (rd.state = "ReadOp" /\ Len(buf) < MinBufSize)]_vars

(***************************************************************************)
(* End to end (handle, Proto::read, the write functions): decoding what    *)
(* the client got as the doc comment of Proto::read describes it gives the *)
(* message of an Echo, the size of a Set's value, and for a Get the value  *)
(* of the last Set of that key that the store took, or null.               *)
(***************************************************************************)
IsFramed(bytes) ==
  \E c \in DOMAIN bytes :
    /\ bytes[c] = Colon /\ IsNumber(SubSeq(bytes, 1, c - 1))
    /\ Len(bytes) = c + Number(SubSeq(bytes, 1, c - 1)) + 1
    /\ bytes[Len(bytes)] = Newline
Payload(bytes) ==
  LET c == CHOOSE i \in DOMAIN bytes : bytes[i] = Colon /\ \A j \in 1..(i - 1) : bytes[j] # Colon
  IN  SubSeq(bytes, c + 1, Len(bytes) - 1)

TakenSets(i) == {j \in stored : j < i /\ Requests[j].key = Requests[i].key}
Expected(i) ==
  CASE Requests[i].type = "Echo" -> Requests[i].msg
    [] Requests[i].type = "Set"  -> Decimal(Len(Requests[i].value))
    [] Requests[i].type = "Get"  ->
         Requests[CHOOSE j \in TakenSets(i) : \A l \in TakenSets(i) : l <= j].value
AnswersMatch ==
  \A i \in DOMAIN answers :
    IF Requests[i].type = "Get" /\ TakenSets(i) = {} THEN answers[i] = Null
    ELSE IsFramed(answers[i]) /\ Payload(answers[i]) = Expected(i)

(***************************************************************************)
(* Every request is answered, or the connection ends (handle, read): no    *)
(* cut of the bytes leaves the parser waiting for what is already there.   *)
(* A client that closes cleanly in the middle of a request is left out:    *)
(* its socket then returns nothing, over and over, until the kill.         *)
(***************************************************************************)
RequestsAnswered ==
  \A n \in 1..Len(Requests) : sent >= n ~> (Ended \/ Len(answers) >= n \/ peer = "clean")

(***************************************************************************)
(* The kill broadcast ends a connection that got through its handshake, in *)
(* whatever state it finds the parser, also when the client is gone; and a *)
(* connection whose client went without close_notify ends by itself.       *)
(***************************************************************************)
KillEndsConnection == (kill /\ conn = "open") ~> Ended
EofEndsConnection == (peer = "eof") ~> Ended

(***************************************************************************)
(* proto.rs:201 says that the answer to SET is the number of bytes saved:  *)
(* a Set that was answered is one that the store took.                     *)
(***************************************************************************)
SetAnsweredIsSaved ==
  \A i \in DOMAIN answers : Requests[i].type = "Set" => i \in stored

=============================================================================
