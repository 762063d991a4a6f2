---------------------------- MODULE ServerProofs ----------------------------
(***************************************************************************)
(* Theorems about Server for any number of connections: type correctness,  *)
(* and that Ok from run() after ctrl-c means an orderly end.               *)
(***************************************************************************)
EXTENDS Server, TLAPS

-----------------------------------------------------------------------------
(***************************************************************************)
(* Each group of actions keeps the types and the relation between the two  *)
(* signal channels.                                                        *)
(***************************************************************************)
LEMMA MainType ==
  ASSUME TypeOK, Main \/ CtrlC \/ MainTimeout \/ StoreShutdown
  PROVE  TypeOK'
<1>1. CASE MainStart
  BY <1>1 DEF TypeOK, MainStart, Stopped
<1>2. CASE MainStartFails \/ MainServerFirst \/ MainConfirmed \/ MainServerDone
  <2>1. /\ main' \in {"server", "ok", "err"}
        /\ UNCHANGED <<startClient, signalled, sigMain, cluster, sigClient, client, conns, peers, store, gaveUp>>
    BY <1>2 DEF MainStartFails, MainServerFirst, MainConfirmed, MainServerDone
  <2> QED BY <2>1 DEF TypeOK
<1>3. CASE CtrlC
  BY <1>3 DEF TypeOK, CtrlC
<1>4. CASE MainTimeout
  BY <1>4 DEF TypeOK, MainTimeout
<1>5. CASE StoreShutdown
  BY <1>5 DEF TypeOK, StoreShutdown
<1> QED BY <1>1, <1>2, <1>3, <1>4, <1>5 DEF Main

LEMMA ServersType ==
  ASSUME TypeOK, Cluster \/ ClusterTimeout \/ Client
  PROVE  TypeOK'
<1>1. CASE ClusterBind
  BY <1>1 DEF TypeOK, ClusterBind, ClusterOnly
<1>2. CASE ClusterBindFails
  BY <1>2 DEF TypeOK, ClusterBindFails, ClusterOnly
<1>3. CASE ClusterSignal
  BY <1>3 DEF TypeOK, ClusterSignal, ClusterOnly, Stopped
<1>4. CASE ClusterClientDone
  BY <1>4 DEF TypeOK, ClusterClientDone, ClusterOnly, Stopped
<1>5. CASE ClusterTimeout
  BY <1>5 DEF TypeOK, ClusterTimeout, ClusterOnly, Stopped
<1>6. CASE Client
  <2>1. client' \in {"listening"} \cup Stopped /\ ClientOnly
    BY <1>6 DEF Client, ClientBind, ClientBindFails, ClientSignal, Stopped
  <2> QED BY <2>1 DEF TypeOK, ClientOnly
<1> QED BY <1>1, <1>2, <1>3, <1>4, <1>5, <1>6 DEF Cluster

LEMMA ConnectionsType ==
  ASSUME TypeOK, (\E c \in Conn : ConnNext(c)) \/ (\E p \in Peer : PeerNext(p))
  PROVE  TypeOK'
<1>1. ASSUME NEW c \in Conn, ConnNext(c)
      PROVE  TypeOK'
  <2>1. PICK from, to \in {"none", "handshake", "reading", "serving", "ended"} :
          ConnStep(c, from, to)
    BY <1>1 DEF ConnNext, ConnAccept, ConnHandshake, ConnRead, ConnAnswer, ConnKilled
  <2> QED BY <2>1 DEF TypeOK, ConnStep
<1>2. ASSUME NEW p \in Peer, PeerNext(p)
      PROVE  TypeOK'
  <2>1. PICK from, to \in {"none", "handshake", "reading", "echoing", "ended"} :
          PeerStep(p, from, to)
    BY <1>2 DEF PeerNext, PeerAccept, PeerHandshake, PeerRead, PeerEcho
  <2> QED BY <2>1 DEF TypeOK, PeerStep
<1> QED BY <1>1, <1>2

(***************************************************************************)
(* Type correctness of the tasks of main.rs, cluster.rs and client.rs: the *)
(* client server is signalled only when there is one and after ctrl-c.     *)
(***************************************************************************)
THEOREM ServerTypeCorrect == Spec => []TypeOK
<1>1. Init => TypeOK
  BY DEF Init, TypeOK
<1>2. TypeOK /\ [Next]_vars => TypeOK'
  <2> SUFFICES ASSUME TypeOK, [Next]_vars PROVE TypeOK'
    OBVIOUS
  <2>1. CASE Next
    BY <2>1, MainType, ServersType, ConnectionsType DEF Next
  <2>2. CASE UNCHANGED vars
    BY <2>2 DEF TypeOK, vars
  <2> QED BY <2>1, <2>2
<1> QED BY <1>1, <1>2, PTL DEF Spec

-----------------------------------------------------------------------------
(***************************************************************************)
(* The steps of run() and of the store's shutdown task.  run() gets past   *)
(* the confirmation only with the store through, and Ok only with the      *)
(* cluster server stopped.                                                 *)
(***************************************************************************)
LEMMA MainEnd ==
  ASSUME TypeOK, EndInv, Main \/ CtrlC \/ MainTimeout \/ StoreShutdown
  PROVE  EndInv'
<1>1. CASE MainStart
  BY <1>1 DEF EndInv, MainStart, Stopped
<1>2. CASE MainStartFails \/ MainServerFirst \/ MainConfirmed \/ MainServerDone
  BY <1>2 DEF EndInv, MainStartFails, MainServerFirst, MainConfirmed, MainServerDone
<1>3. CASE CtrlC
  BY <1>3 DEF EndInv, CtrlC
<1>4. CASE MainTimeout
  BY <1>4 DEF EndInv, MainTimeout
<1>5. CASE StoreShutdown
  BY <1>5 DEF EndInv, StoreShutdown
<1> QED BY <1>1, <1>2, <1>3, <1>4, <1>5 DEF Main

(***************************************************************************)
(* The steps of the two servers.  However the cluster server stops, the    *)
(* client server has stopped, was never started, or was given up on.       *)
(***************************************************************************)
LEMMA ServersEnd ==
  ASSUME TypeOK, EndInv, Cluster \/ ClusterTimeout \/ Client
  PROVE  EndInv'
<1>1. CASE ClusterBind
  BY <1>1 DEF EndInv, ClusterBind, ClusterOnly, Stopped, Running
<1>2. CASE ClusterBindFails
  BY <1>2 DEF EndInv, ClusterBindFails, ClusterOnly, Stopped, Running
<1>3. CASE ClusterSignal
  BY <1>3 DEF EndInv, ClusterSignal, ClusterOnly, Stopped, Running
<1>4. CASE ClusterClientDone
  BY <1>4 DEF EndInv, ClusterClientDone, ClusterOnly, Stopped, Running
<1>5. CASE ClusterTimeout
  BY <1>5 DEF EndInv, ClusterTimeout, ClusterOnly, Stopped, Running
<1>6. CASE Client
  BY <1>6 DEF EndInv, Client, ClientBind, ClientBindFails, ClientSignal, ClientOnly, Stopped
<1> QED BY <1>1, <1>2, <1>3, <1>4, <1>5, <1>6 DEF Cluster

LEMMA ConnectionsEnd ==
  ASSUME TypeOK, EndInv, (\E c \in Conn : ConnNext(c)) \/ (\E p \in Peer : PeerNext(p))
  PROVE  EndInv'
<1>1. UNCHANGED <<startClient, main, signalled, cluster, client, store, gaveUp>>
  BY DEF ConnNext, ConnAccept, ConnHandshake, ConnRead, ConnAnswer, ConnKilled, ConnStep,
         PeerNext, PeerAccept, PeerHandshake, PeerRead, PeerEcho, PeerStep
<1> QED BY <1>1 DEF EndInv

(***************************************************************************)
(* The inductive invariant, for any number of connections.                 *)
(***************************************************************************)
THEOREM EndInvariant == Spec => []EndInv
<1>1. Init => EndInv
  BY DEF Init, EndInv, Stopped
<1>2. TypeOK /\ EndInv /\ [Next]_vars => EndInv'
  <2> SUFFICES ASSUME TypeOK, EndInv, [Next]_vars PROVE EndInv'
    OBVIOUS
  <2>1. CASE Next
    BY <2>1, MainEnd, ServersEnd, ConnectionsEnd DEF Next
  <2>2. CASE UNCHANGED vars
    BY <2>2 DEF EndInv, vars
  <2> QED BY <2>1, <2>2
<1> QED BY <1>1, <1>2, ServerTypeCorrect, PTL DEF Spec

(***************************************************************************)
(* When run() returns Ok after ctrl-c the store's shutdown task is through *)
(* and the servers have stopped, in every order of signals, ends, panics   *)
(* and timeouts, for any number of connections.                            *)
(***************************************************************************)
THEOREM EndsInOrder == Spec => []OrderlyEnd
<1>1. EndInv => OrderlyEnd
  BY DEF EndInv, OrderlyEnd
<1> QED BY <1>1, EndInvariant, PTL

=============================================================================
