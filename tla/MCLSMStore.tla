----------------------------- MODULE MCLSMStore -----------------------------
(***************************************************************************)
(* Small instances of LSMStore for TLC.  Every transaction writes values   *)
(* of its own, so that a reader can tell which one it sees.                *)
(***************************************************************************)
EXTENDS LSMStore

Set(k, v) == [key |-> k, value |-> v]
Delete(k) == [key |-> k, value |-> Tombstone]

MCData == {"a", "b", "c"}

\* Two writers of one key.
MCTwoSets == <<
  <<Set(1, "a")>>,
  <<Set(1, "b")>> >>

\* A transaction of two operations.  With keys of two bytes and values of
\* six the payload of every BeginTx line has 64 bytes.
MCDeletes == <<
  <<Set(1, "a")>>,
  <<Delete(1), Delete(2)>>,
  <<Set(2, "c")>> >>

\* A key is set, then deleted along with another one.
MCSetDeletes == <<
  <<Set(1, "a")>>,
  <<Delete(1), Delete(2)>> >>

\* Key 2 is deleted while an older value of it can be in a table.
MCSetDelete == <<
  <<Set(2, "a")>>,
  <<Delete(2)>> >>

=============================================================================
