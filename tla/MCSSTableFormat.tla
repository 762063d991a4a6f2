-------------------------- MODULE MCSSTableFormat --------------------------
(***************************************************************************)
(* Three keys of different lengths.  The index of all three, and the value *)
(* "long", take exactly the bytes that one read may return; "longer" takes *)
(* one more.                                                               *)
(***************************************************************************)
EXTENDS SSTableFormat

MCKeyLength == <<1, 2, 1>>
MCDataLength == [empty |-> 0, long |-> 72, longer |-> 73]
MCOperations == <<>>

=============================================================================
