---------------------------- MODULE MemoryStore -----------------------------
(***************************************************************************)
(* MemoryStore of src/src/store/mod.rs: a map behind one mutex, which each *)
(* operation holds from start to end.  It is the reference implementation  *)
(* of the Store trait, and here the abstract specification that LSMStore   *)
(* is shown to implement.                                                  *)
(***************************************************************************)
EXTENDS Transactions

VARIABLES
  data,   \* the BTreeMap; Absent where it has no entry
  done    \* the transactions that ran: an id is used once (history)

TypeOK == data \in [Key -> Data \cup {Absent}] /\ done \subseteq Tx

\* Store::get and Store::scan, as functions of the state.
Get(k) == data[k]
Scan(from, to) ==
  [k \in {j \in Key : from <= j /\ j < to /\ data[j] # Absent} |-> data[k]]

Init == data = [k \in Key |-> Absent] /\ done = {}

\* Store::transact: Set inserts, Delete removes, all under the lock.
Transact(t) ==
  /\ t \notin done /\ done' = done \cup {t}
  /\ data' = [k \in Key |-> IF Touches(t, k) THEN AsOption(Final(t, k)) ELSE data[k]]

Next == \E t \in Tx : Transact(t)

Spec == Init /\ [][Next]_<<data, done>>

=============================================================================
