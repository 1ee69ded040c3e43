---------------------------- MODULE PinballServer ----------------------------
(***************************************************************************)
(* pinballd: its local RPC server (Rpc/Server.cpp, Rpc/Client.cpp) under   *)
(* the start-up, main loop and exit of main.cpp, and the systemd unit that *)
(* restarts it.  Every libevent callback is one atomic action: the daemon  *)
(* has one thread.  The input drivers appear as BroadcastRaw, which they   *)
(* call from their polling timers; module Ft6336 models one of them.       *)
(***************************************************************************)
EXTENDS RpcSocket, Integers, FiniteSets

CONSTANTS
  Types,      (* BroadcastType                                             *)
  Fds,        (* descriptors the process may still open                    *)
  NoConn,     (* marks a descriptor the clients map has no entry for       *)
  Requests,   (* the packets peers send: a part of AllRequests             *)
  MaxBcast    (* bound: broadcasts in a run                                *)

VARIABLES
  daemon,     (* where main() is, and how it exited                        *)
  clients,    (* Server::clients: descriptor -> the Client's connection    *)
  sockFd,     (* Client::socket, the descriptor of each connection         *)
  leaked,     (* descriptors open but owned by no Client                   *)
  wants,      (* Client::wants*Events                                      *)
  bcast       (* broadcasts so far; numbers them                           *)

srvVars == <<daemon, clients, sockFd, leaked, wants, bcast>>
vars == <<sockVars, srvVars>>

(***************************************************************************)
(* Requests.  "config" carries the flags the CBOR map sets and clears (an  *)
(* absent key is in neither); "indicator" is one the LED drivers accept;   *)
(* "bad" is any packet bevRead or dispatchPacket throws on.                *)
(***************************************************************************)
ConfigReq == {[kind |-> "config", on |-> S, off |-> Types \ S] : S \in SUBSET Types}
             \cup {[kind |-> "config", on |-> {t}, off |-> {}] : t \in Types}
OtherReq  == [kind : {"noop", "indicator", "bad"}]
AllRequests == ConfigReq \cup OtherReq

ASSUME ServerAssumption ==
  /\ Fds \subseteq Nat \ {0} /\ IsFiniteSet(Fds)
  /\ NoConn \notin Conns
  /\ MaxBcast \in Nat
  /\ Requests \subseteq AllRequests

Packets == [n : Nat, type : Types]

Served == {c \in Conns : servEnd[c] = "open" /\ sockFd[c] \notin leaked}
FreeFds == {f \in Fds : clients[f] = NoConn /\ f \notin leaked}
LowestFree == CHOOSE f \in FreeFds : \A g \in FreeFds : f <= g

Init ==
  /\ SocketInit
  /\ daemon  = "stopped"
  /\ clients = [f \in Fds |-> NoConn]
  /\ sockFd  = [c \in Conns |-> 0]
  /\ leaked  = {}
  /\ wants   = [c \in Conns |-> {}]
  /\ bcast   = 0

(***************************************************************************)
(* Process life cycle                                                      *)
(***************************************************************************)
(* The socket listens as soon as the event loop exists, before the probe.  *)
Listen ==
  /\ daemon = "stopped"
  /\ daemon' = "probing"
  /\ UNCHANGED <<sockVars, clients, sockFd, leaked, wants, bcast>>

ProbeSucceeds ==
  /\ daemon = "probing"
  /\ daemon' = "running"
  /\ UNCHANGED <<sockVars, clients, sockFd, leaked, wants, bcast>>

(* Everything the process held goes with it.                               *)
Exit(status) ==
  /\ daemon'  = status
  /\ ProcessExit
  /\ clients' = [f \in Fds |-> NoConn]
  /\ sockFd'  = [c \in Conns |-> 0]
  /\ wants'   = [c \in Conns |-> {}]
  /\ leaked'  = {}
  /\ UNCHANGED bcast

(* probe() or a driver constructor throws: main returns 1.                 *)
ProbeFails ==
  /\ daemon = "probing"
  /\ Exit("exit1")

(* SIGINT, SIGTERM, SIGHUP: gRun = false, loopbreak, clean up, return 0.   *)
HandleTermination ==
  /\ daemon = "running"
  /\ Exit("exit0")

(* A callback let an exception out, through libevent's C frames.  Where    *)
(* those can be unwound main catches it, logs it, cleans up and falls off  *)
(* its end, which returns 0; where they cannot, the runtime aborts.        *)
LoopFails == Exit("exit0 after failure") \/ Exit("aborted")

(* Restart=on-failure: systemd restarts after an abort or a status not 0.  *)
SystemdRestart ==
  /\ daemon \in {"exit1", "aborted"}
  /\ daemon' = "stopped"
  /\ UNCHANGED <<sockVars, clients, sockFd, leaked, wants, bcast>>

(***************************************************************************)
(* Server                                                                  *)
(***************************************************************************)
AcceptClient ==
  /\ daemon = "running"
  /\ dialled # << >>
  /\ FreeFds # {}
  /\ LET c == Head(dialled) IN
       /\ dialled' = Tail(dialled)
       /\ servEnd' = [servEnd EXCEPT ![c] = "open"]
       /\ sockFd'  = [sockFd EXCEPT ![c] = LowestFree]
       /\ \/ /\ clients' = [clients EXCEPT ![LowestFree] = c]
             /\ UNCHANGED leaked
          \* fcntl or the Client constructor throws: the descriptor stays open
          \/ /\ leaked' = leaked \cup {LowestFree}
             /\ UNCHANGED clients
  /\ UNCHANGED <<peerEnd, up, down, out, daemon, wants, bcast>>

(* Mutants of ReleaseClient: the entry stays in the map; the descriptor is *)
(* left at -1.                                                             *)
ReleaseKeepsEntry(c) ==
  /\ sockFd' = [sockFd EXCEPT ![c] = 0]
  /\ wants'  = [wants EXCEPT ![c] = {}]
  /\ CloseServerEnds({c})
  /\ UNCHANGED <<clients, dialled, peerEnd, up, down, daemon, leaked, bcast>>
ReleaseMinusOne(c) ==
  /\ clients' = [clients EXCEPT ![sockFd[c]] = NoConn]
  /\ sockFd'  = [sockFd EXCEPT ![c] = -1]
  /\ wants'   = [wants EXCEPT ![c] = {}]
  /\ CloseServerEnds({c})
  /\ UNCHANGED <<dialled, peerEnd, up, down, daemon, leaked, bcast>>

(* releaseClient(getId()): erase destroys the Client, which closes its fd. *)
ReleaseClient(c) ==
  /\ clients' = [clients EXCEPT ![sockFd[c]] = NoConn]
  /\ sockFd'  = [sockFd EXCEPT ![c] = 0]
  /\ wants'   = [wants EXCEPT ![c] = {}]
  /\ CloseServerEnds({c})
  /\ UNCHANGED <<dialled, peerEnd, up, down, daemon, leaked, bcast>>

(* Mutant of BevEvent: only EOF releases the client.                       *)
BevEventEofOnly(c) ==
  /\ daemon = "running"
  /\ c \in Served
  /\ HungUp(c) /\ up[c] = << >> /\ ~Reset(c)
  /\ ReleaseClient(c)

(* bevEvent: EOF and error both release the client.                        *)
BevEvent(c) ==
  /\ daemon = "running"
  /\ c \in Served
  /\ HungUp(c)
  /\ ReleaseClient(c)

(* Mutant of UpdateBroadcastConfig: the flags belong to the server.        *)
ConfigForAll(c, req) ==
  /\ wants' = [d \in Conns |-> (wants[d] \cup req.on) \ req.off]
  /\ UNCHANGED <<dialled, peerEnd, servEnd, down, out, daemon, clients, sockFd,
                 leaked, bcast>>

UpdateBroadcastConfig(c, req) ==
  /\ wants' = [wants EXCEPT ![c] = (@ \cup req.on) \ req.off]
  /\ UNCHANGED <<dialled, peerEnd, servEnd, down, out, daemon, clients, sockFd,
                 leaked, bcast>>

(* noop, and indicators, which change no RPC state.                        *)
IgnorePacket ==
  UNCHANGED <<dialled, peerEnd, servEnd, down, out, daemon, clients, sockFd,
              leaked, wants, bcast>>

(* The read callback rethrows: one bad packet ends the daemon's loop.      *)
BevRead(c) ==
  /\ daemon = "running"
  /\ c \in Served
  /\ Readable(c)
  /\ LET req == Head(up[c]) IN
       \/ /\ req.kind = "config"
          /\ up' = [up EXCEPT ![c] = Tail(@)]
          /\ UpdateBroadcastConfig(c, req)
       \/ /\ req.kind \in {"noop", "indicator"}
          /\ up' = [up EXCEPT ![c] = Tail(@)]
          /\ IgnorePacket
       \/ /\ req.kind = "bad"
          /\ LoopFails

(* broadcastRaw: one packet per client that wants the type.                *)
BroadcastRaw(t) ==
  /\ daemon = "running"
  /\ bcast < MaxBcast
  /\ bcast' = bcast + 1
  /\ out' = [c \in Conns |->
               IF c \in Served /\ t \in wants[c]
               THEN Append(out[c], [n |-> bcast', type |-> t])
               ELSE out[c]]
  /\ UNCHANGED <<dialled, peerEnd, servEnd, up, down, daemon, clients, sockFd,
                 leaked, wants>>

ServerFlush(c) ==
  /\ daemon = "running"
  /\ c \in Served
  /\ Flush(c)
  /\ UNCHANGED srvVars

(***************************************************************************)
(* The peers' ends of the sockets                                          *)
(***************************************************************************)
PeerDial(c) == daemon \in {"probing", "running"} /\ Dial(c) /\ UNCHANGED srvVars
PeerSend(c, req) == PeerWrite(c, req) /\ UNCHANGED srvVars
PeerHangUp(c) == PeerClose(c) /\ UNCHANGED srvVars

(* One callback takes one record.                                          *)
PeerRead(c) ==
  /\ peerEnd[c] = "open"
  /\ down[c] # << >>
  /\ down' = [down EXCEPT ![c] = Tail(@)]
  /\ UNCHANGED <<dialled, peerEnd, servEnd, up, out, srvVars>>

Process == Listen \/ ProbeSucceeds \/ ProbeFails \/ HandleTermination \/ SystemdRestart
Server  == \/ AcceptClient
           \/ \E c \in Conns : BevRead(c) \/ BevEvent(c) \/ ServerFlush(c)
           \/ \E t \in Types : BroadcastRaw(t)
Peer    == \E c \in Conns : \/ PeerDial(c) \/ PeerHangUp(c) \/ PeerRead(c)
                            \/ \E req \in Requests : PeerSend(c, req)

Next == Process \/ Server \/ Peer

Spec == Init /\ [][Next]_vars

(* libevent serves every active event in each turn of the loop; systemd    *)
(* restarts what it must.  Peers, signals and timers owe nothing.          *)
Fairness ==
  /\ WF_vars(SystemdRestart) /\ WF_vars(Listen)
  /\ WF_vars(AcceptClient)
  /\ \A c \in Conns : /\ WF_vars(BevRead(c))
                      /\ WF_vars(BevEvent(c))
                      /\ WF_vars(ServerFlush(c))

FairSpec == Spec /\ Fairness

(***************************************************************************)
(* Properties                                                              *)
(***************************************************************************)
TypeOK ==
  /\ SocketTypeOK(Requests, Packets)
  /\ daemon  \in {"stopped", "probing", "running", "exit0", "exit1",
                  "exit0 after failure", "aborted"}
  /\ clients \in [Fds -> Conns \cup {NoConn}]
  /\ sockFd  \in [Conns -> Fds \cup {0}]
  /\ leaked  \in SUBSET Fds
  /\ wants   \in [Conns -> SUBSET Types]
  /\ bcast   \in Nat

(* Descriptor numbers are reused, and releaseClient() erases by number: at *)
(* every moment the map entry of a live connection's descriptor is that    *)
(* connection, and no entry outlives its connection.                       *)
FdTable ==
  /\ \A c \in Served : clients[sockFd[c]] = c
  /\ \A f \in Fds : clients[f] # NoConn =>
        /\ servEnd[clients[f]] = "open"
        /\ sockFd[clients[f]] = f
        /\ f \notin leaked

(* What one client does to the server stays with that client: while the    *)
(* daemon keeps running, a step changes the subscription of, or closes,    *)
(* one connection at most.  (A bad packet is not confined: see LoopFails.) *)
Disturbed(c) == \/ wants'[c] # wants[c]
                \/ servEnd[c] = "open" /\ servEnd'[c] = "closed"
OneClientPerStep ==
  [][daemon' = "running" =>
       \A c, d \in Conns : Disturbed(c) /\ Disturbed(d) => c = d]_vars

(* A client that hung up, by EOF, reset or broken pipe, is released, even  *)
(* with requests of its own still unread.                                  *)
HungUpReleased ==
  \A c \in Conns : (c \in Served /\ peerEnd[c] = "closed") ~> servEnd[c] = "closed"

==============================================================================
