---------------------------- MODULE MCConnection ----------------------------
(***************************************************************************)
(* Small instances of Connection for TLC.  Values have colons and digits   *)
(* in them, which only their lengths tell from separators.                 *)
(***************************************************************************)
EXTENDS Connection

MCKey == <<107>>                                         \* "k"
MCValue == <<58, 49, 58, 71, 69, 84, 58, 49, 58, 107>>   \* ":1:GET:1:k"
MCPadding == <<45, 45>>                                  \* "--"

\* One operation of each kind; the Set has a length of two digits.
MCRequests == <<
  [type |-> "Set", key |-> MCKey, value |-> MCValue],
  [type |-> "Get", key |-> MCKey],
  [type |-> "Echo", msg |-> <<58, 50>>] >>

\* A value with a newline in it, then another request.
MCNewline == <<
  [type |-> "Echo", msg |-> <<97, Newline, 98>>],
  [type |-> "Get", key |-> MCKey] >>

\* Two requests, the second on its way when the end of the first is read.
MCTwoGets == <<
  [type |-> "Get", key |-> MCKey],
  [type |-> "Get", key |-> <<108>>] >>

\* A request the store may refuse.
MCSet == << [type |-> "Set", key |-> MCKey, value |-> MCValue] >>

=============================================================================
