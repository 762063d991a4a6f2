---------------------------- MODULE Transactions ----------------------------
(***************************************************************************)
(* The data the stores of kave work on: keys, values, and transactions,    *)
(* which are vectors of Set and Delete operations (src/src/store/mod.rs).  *)
(*                                                                         *)
(* A transaction is named by its id, which Transaction::with_random_id     *)
(* draws from Uuid::new_v4, so ids are taken to be unique; its operations  *)
(* are the constant Operations[id].  Keys are integers so that the ranges  *)
(* of scan have an order.  The bytes of a value are abstracted to members  *)
(* of Data.                                                                *)
(***************************************************************************)
EXTENDS Integers, Sequences

CONSTANTS
  Key,         \* the keys transactions may touch
  Data,        \* the byte strings a Set may store
  Tx,          \* transaction ids
  Operations,  \* Operations[t] is the operation vector of transaction t
  Tombstone,   \* the Value a Delete leaves in a memtable or SSTable
  Absent,      \* "no entry", Rust's None
  Error        \* a read that returned Err

ASSUME SentinelAssumption ==
  /\ {Tombstone, Absent, Error} \cap Data = {}
  /\ Tombstone # Absent /\ Tombstone # Error /\ Absent # Error

ASSUME KeyAssumption == Key \subseteq Int

(***************************************************************************)
(* enum Value of lsm.rs: Data(bytes) or Tombstone.  An Operation is Set    *)
(* (value in Data) or Delete (value Tombstone).                            *)
(***************************************************************************)
Value == Data \cup {Tombstone}
Entry == Value \cup {Absent}
Operation == [key : Key, value : Value]

ASSUME OperationsAssumption == Operations \in [Tx -> Seq(Operation)]

\* Value::as_option: what a reader is given for an entry.
AsOption(e) == IF e = Tombstone THEN Absent ELSE e

\* The latest of a set of positions or time stamps.
Latest(S) == CHOOSE i \in S : \A j \in S : j <= i

\* The operations of transaction t on key k, and the one that runs last.
OpsOn(t, k) == {i \in DOMAIN Operations[t] : Operations[t][i].key = k}
Touches(t, k) == OpsOn(t, k) # {}
Final(t, k) == Operations[t][Latest(OpsOn(t, k))].value

(***************************************************************************)
(* A table maps every key to its entry.  Running the operations of t in    *)
(* order leaves, for each key, the value of the last operation on it.      *)
(***************************************************************************)
Table == [Key -> Entry]
EmptyTable == [k \in Key |-> Absent]
Apply(table, t) ==
  [k \in Key |-> IF Touches(t, k) THEN Final(t, k) ELSE table[k]]
KeysOf(table) == {k \in Key : table[k] # Absent}

=============================================================================
