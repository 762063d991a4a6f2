------------------------------- MODULE Server -------------------------------
(***************************************************************************)
(* The tasks of a kave process and how they stop: run() of src/src/main.rs,*)
(* the cluster server (server/cluster.rs), the client server and its       *)
(* connections (server/client.rs), and the shutdown task of the store.     *)
(*                                                                         *)
(* They talk over channels.  A receiver is ready when a message is there   *)
(* or when its sender is gone, and every select! here takes both alike; a  *)
(* send fails when the receiver is gone, and every send here panics then.  *)
(* A task that ends or panics drops the ends it holds, so most channels    *)
(* need no variable: client_svr_shutdown is ready when the client server   *)
(* stopped, svr_shutdown when the cluster server stopped, and the kill     *)
(* broadcast when the client server stopped.                               *)
(*                                                                         *)
(* A timeout may come at any time while it is waited for.                  *)
(***************************************************************************)
CONSTANTS
  Conn,   \* client connections
  Peer    \* connections of the cluster server

VARIABLES
  startClient,   \* Server.start_client_server: main leaves it true, tests do not
  main,          \* where run() is, or how it ended: "ok", "err", "panic"
  signalled,     \* ctrl-c was handled
  sigMain,       \* a message is in the sig_shutdown channel
  cluster,       \* the cluster server
  sigClient,     \* a message is in the sig_client_shutdown channel
  client,        \* the client server
  conns,         \* its connections
  peers,         \* the connections of the cluster server
  store,         \* the shutdown task of the store
  gaveUp         \* who stopped waiting because of a timeout

vars == <<startClient, main, signalled, sigMain, cluster, sigClient, client, conns, peers, store, gaveUp>>

Stopped == {"ended", "panicked"}
MainEnded == main \in {"ok", "err", "panic"}
\* When run() ends the process does, and no task goes on.
Running == main \in {"select", "confirm", "server"}

Init ==
  /\ startClient \in BOOLEAN
  /\ main = "starting" /\ signalled = FALSE
  /\ sigMain = FALSE /\ sigClient = FALSE
  /\ cluster = "off" /\ client = "off" /\ store = "off"
  /\ conns = [c \in Conn |-> "none"] /\ peers = [p \in Peer |-> "none"]
  /\ gaveUp = {}

(***************************************************************************)
(* run().  It opens the store and spawns the server, which first spawns    *)
(* the client server; then it waits for ctrl-c or for the server's end.    *)
(***************************************************************************)
MainStart ==
  /\ main = "starting"
  /\ main' = "select" /\ store' = "waiting" /\ cluster' = "binding"
  /\ client' = IF startClient THEN "binding" ELSE "off"
  /\ UNCHANGED <<startClient, signalled, sigMain, sigClient, conns, peers, gaveUp>>

MainStartFails ==
  /\ main = "starting"
  /\ main' = "err"
  /\ UNCHANGED <<startClient, signalled, sigMain, cluster, sigClient, client, conns, peers, store, gaveUp>>

\* ctrl-c: the server and the store are told.  The first send panics when
\* the server is gone already and run() has not noticed.
CtrlC ==
  /\ main = "select"
  /\ signalled' = TRUE
  /\ IF cluster \in Stopped
     THEN main' = "panic" /\ UNCHANGED <<sigMain, store>>
     ELSE main' = "confirm" /\ sigMain' = TRUE /\ store' = "asked"
  /\ UNCHANGED <<startClient, cluster, sigClient, client, conns, peers, gaveUp>>

\* The server ended first: there is nothing to confirm or to wait for.
MainServerFirst ==
  /\ main = "select" /\ cluster \in Stopped
  /\ main' = "ok"
  /\ UNCHANGED <<startClient, signalled, sigMain, cluster, sigClient, client, conns, peers, store, gaveUp>>

\* join_all: the store confirmed, or its task died with the oneshot sender.
MainConfirmed ==
  /\ main = "confirm" /\ store \in {"confirmed", "dead"}
  /\ main' = "server"
  /\ UNCHANGED <<startClient, signalled, sigMain, cluster, sigClient, client, conns, peers, store, gaveUp>>

MainServerDone ==
  /\ main = "server" /\ cluster \in Stopped
  /\ main' = "ok"
  /\ UNCHANGED <<startClient, signalled, sigMain, cluster, sigClient, client, conns, peers, store, gaveUp>>

\* Either of the two five second timeouts makes run() return Err.
MainTimeout ==
  /\ main \in {"confirm", "server"}
  /\ main' = "err" /\ gaveUp' = gaveUp \cup {"main"}
  /\ UNCHANGED <<startClient, signalled, sigMain, cluster, sigClient, client, conns, peers, store>>

(***************************************************************************)
(* The store's shutdown task: it flushes, writes the bloom map and         *)
(* confirms, or panics on an I/O error.  LSMStore has the details.         *)
(***************************************************************************)
StoreShutdown ==
  /\ Running /\ store = "asked"
  /\ store' \in {"confirmed", "dead"}
  /\ UNCHANGED <<startClient, main, signalled, sigMain, cluster, sigClient, client, conns, peers, gaveUp>>

(***************************************************************************)
(* The cluster server.                                                     *)
(***************************************************************************)
ClusterOnly == UNCHANGED <<startClient, main, signalled, sigMain, client, conns, peers, store>>

ClusterBind ==
  /\ Running /\ cluster = "binding"
  /\ cluster' = "listening"
  /\ ClusterOnly /\ UNCHANGED <<sigClient, gaveUp>>

\* The TLS configuration or the address is refused; without a key it panics.
ClusterBindFails ==
  /\ Running /\ cluster = "binding"
  /\ cluster' \in Stopped /\ gaveUp' = gaveUp \cup {"bind"}
  /\ ClusterOnly /\ UNCHANGED sigClient

\* The signal is passed on to the client server, if there is one, and its
\* end waited for; passing it on panics when the client server is gone.
\* Faulty variants: it is passed on to a client server that was not
\* started; it is not passed on; the client server is not waited for.
ClusterSignalAlways ==
  /\ Running /\ cluster = "listening" /\ sigMain
  /\ cluster' = IF startClient THEN "waiting" ELSE "ended"
  /\ sigClient' = TRUE
  /\ ClusterOnly /\ UNCHANGED gaveUp
ClusterSignalKept ==
  /\ Running /\ cluster = "listening" /\ sigMain
  /\ cluster' = IF startClient THEN "waiting" ELSE "ended"
  /\ ClusterOnly /\ UNCHANGED <<sigClient, gaveUp>>
ClusterSignalNoWait ==
  /\ Running /\ cluster = "listening" /\ sigMain
  /\ cluster' = "ended"
  /\ sigClient' = startClient
  /\ ClusterOnly /\ UNCHANGED gaveUp
ClusterSignal ==
  /\ Running /\ cluster = "listening" /\ sigMain
  /\ IF startClient /\ client \in Stopped
     THEN cluster' = "panicked" /\ UNCHANGED sigClient
     ELSE cluster' = (IF startClient THEN "waiting" ELSE "ended") /\ sigClient' = startClient
  /\ ClusterOnly /\ UNCHANGED gaveUp

\* The client server stopped, by itself or as it was told.
\* Faulty variant: that is only looked at after a signal.
ClusterClientLate ==
  /\ Running /\ cluster = "waiting" /\ client \in Stopped
  /\ cluster' = "ended"
  /\ ClusterOnly /\ UNCHANGED <<sigClient, gaveUp>>
ClusterClientDone ==
  /\ Running /\ cluster \in {"listening", "waiting"} /\ client \in Stopped
  /\ cluster' = "ended"
  /\ ClusterOnly /\ UNCHANGED <<sigClient, gaveUp>>

ClusterTimeout ==
  /\ Running /\ cluster = "waiting"
  /\ cluster' = "ended" /\ gaveUp' = gaveUp \cup {"cluster"}
  /\ ClusterOnly /\ UNCHANGED sigClient

(***************************************************************************)
(* Its connections echo what they read until the other side goes.  Nothing *)
(* tells them to stop and nobody waits for them.                           *)
(***************************************************************************)
PeerStep(p, from, to) ==
  /\ Running /\ peers[p] = from
  /\ peers' = [peers EXCEPT ![p] = to]
  /\ UNCHANGED <<startClient, main, signalled, sigMain, cluster, sigClient, client, conns, store, gaveUp>>

PeerAccept(p) == cluster = "listening" /\ PeerStep(p, "none", "handshake")
PeerHandshake(p) == \E to \in {"reading", "ended"} : PeerStep(p, "handshake", to)
PeerRead(p) == \E to \in {"echoing", "ended"} : PeerStep(p, "reading", to)
PeerEcho(p) == \E to \in {"reading", "ended"} : PeerStep(p, "echoing", to)

(***************************************************************************)
(* The client server.  On a signal, or when the cluster server is gone, it *)
(* broadcasts the kill, which panics when no connection holds a receiver,  *)
(* and says that it stopped, which panics when the cluster server is gone. *)
(***************************************************************************)
ClientOnly == UNCHANGED <<startClient, main, signalled, sigMain, cluster, sigClient, conns, peers, store, gaveUp>>
Subscribed == {c \in Conn : conns[c] \in {"handshake", "reading", "serving"}}

ClientBind ==
  /\ Running /\ client = "binding"
  /\ client' = "listening"
  /\ ClientOnly

ClientBindFails ==
  /\ Running /\ client = "binding"
  /\ client' \in IF cluster \in Stopped THEN {"panicked"} ELSE Stopped
  /\ ClientOnly

ClientSignal ==
  /\ Running /\ client = "listening" /\ (sigClient \/ cluster \in Stopped)
  /\ client' = IF Subscribed = {} \/ cluster \in Stopped THEN "panicked" ELSE "ended"
  /\ ClientOnly

(***************************************************************************)
(* Its connections; Connection has the details.  The kill is looked at     *)
(* only while reading.                                                     *)
(***************************************************************************)
ConnStep(c, from, to) ==
  /\ Running /\ conns[c] = from
  /\ conns' = [conns EXCEPT ![c] = to]
  /\ UNCHANGED <<startClient, main, signalled, sigMain, cluster, sigClient, client, peers, store, gaveUp>>

ConnAccept(c) == client = "listening" /\ ConnStep(c, "none", "handshake")
ConnHandshake(c) == \E to \in {"reading", "ended"} : ConnStep(c, "handshake", to)
ConnRead(c) == \E to \in {"serving", "ended"} : ConnStep(c, "reading", to)
ConnAnswer(c) == \E to \in {"reading", "ended"} : ConnStep(c, "serving", to)
ConnKilled(c) == client \in Stopped /\ ConnStep(c, "reading", "ended")

(***************************************************************************)
(* The specification.                                                      *)
(***************************************************************************)
Main ==
  MainStart \/ MainStartFails \/ MainServerFirst \/ MainConfirmed \/ MainServerDone
Cluster == ClusterBind \/ ClusterBindFails \/ ClusterSignal \/ ClusterClientDone
Client == ClientBind \/ ClientBindFails \/ ClientSignal
ConnNext(c) == ConnAccept(c) \/ ConnHandshake(c) \/ ConnRead(c) \/ ConnAnswer(c) \/ ConnKilled(c)
PeerNext(p) == PeerAccept(p) \/ PeerHandshake(p) \/ PeerRead(p) \/ PeerEcho(p)

Next ==
  \/ Main \/ CtrlC \/ MainTimeout
  \/ StoreShutdown
  \/ Cluster \/ ClusterTimeout
  \/ Client
  \/ \E c \in Conn : ConnNext(c)
  \/ \E p \in Peer : PeerNext(p)

Spec == Init /\ [][Next]_vars

\* tokio polls every task that can go on, and the store's flush comes to an
\* end.  Nobody has to press ctrl-c, connect or send, and no timeout has to
\* fire.
FairSpec ==
  /\ Spec
  /\ WF_vars(Main) /\ WF_vars(StoreShutdown) /\ WF_vars(Cluster) /\ WF_vars(Client)

(***************************************************************************)
(* Properties.                                                             *)
(***************************************************************************)
TypeOK ==
  /\ startClient \in BOOLEAN /\ signalled \in BOOLEAN
  /\ sigMain \in BOOLEAN /\ sigClient \in BOOLEAN
  /\ main \in {"starting", "select", "confirm", "server", "ok", "err", "panic"}
  /\ cluster \in {"off", "binding", "listening", "waiting"} \cup Stopped
  /\ client \in {"off", "binding", "listening"} \cup Stopped
  /\ store \in {"off", "waiting", "asked", "confirmed", "dead"}
  /\ conns \in [Conn -> {"none", "handshake", "reading", "serving", "ended"}]
  /\ peers \in [Peer -> {"none", "handshake", "reading", "echoing", "ended"}]
  /\ gaveUp \subseteq {"main", "cluster", "bind"}
  /\ sigClient => startClient /\ sigMain

(***************************************************************************)
(* What Ok from run() means after ctrl-c (main.rs, cluster.rs, client.rs): *)
(* the store's shutdown task is through, the cluster server stopped, and   *)
(* so has the client server, unless the cluster server gave up waiting for *)
(* it or had never been able to listen.  No order of signals, ends and     *)
(* panics makes run() return too early.                                    *)
(***************************************************************************)
OrderlyEnd ==
  main = "ok" /\ signalled =>
    /\ store \in {"confirmed", "dead"}
    /\ cluster \in Stopped
    /\ client \in Stopped \cup {"off"} \/ gaveUp \cap {"cluster", "bind"} # {}

(***************************************************************************)
(* Why OrderlyEnd holds, as an invariant that every step preserves: run()  *)
(* gets past the confirmation only when the store is through; it ends with *)
(* Ok only after the cluster server; and that stops only after the client  *)
(* server, when it gave up on it, or when it never listened.               *)
(***************************************************************************)
EndInv ==
  /\ main \in {"starting", "select"} => ~signalled
  /\ main = "server" \/ (main = "ok" /\ signalled) => store \in {"confirmed", "dead"}
  /\ main = "ok" => cluster \in Stopped
  /\ cluster \in Stopped =>
       client \in Stopped \cup {"off"} \/ gaveUp \cap {"cluster", "bind"} # {}
  /\ ~startClient => client = "off"

(***************************************************************************)
(* A shutdown gets to its end by itself: once ctrl-c is handled run()      *)
(* returns Ok unless a timeout was taken, although no timeout ever has to  *)
(* fire, whichever task panics on the way, and with connections open that  *)
(* never end.                                                              *)
(***************************************************************************)
ShutdownSucceeds == (main = "confirm") ~> (main = "ok" \/ "main" \in gaveUp)

(***************************************************************************)
(* The tasks stop together: when one of the two servers is gone, by        *)
(* failing to bind, by a signal or by a panic, run() ends.                 *)
(***************************************************************************)
StopsTogether == (client \in Stopped \/ cluster \in Stopped) ~> MainEnded

=============================================================================
