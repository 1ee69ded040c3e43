----------------------------- MODULE LoaddServer -----------------------------
(***************************************************************************)
(* loadd's local RPC server (RpcServer.cpp), the handler that feeds it     *)
(* with the M4's packets (ControlEpHandler.cpp), and the client library at *)
(* the far end of each socket (pl-common, Rpc/ClientBase.cpp).             *)
(*                                                                         *)
(* The server knows a client by the address of its bufferevent; malloc()   *)
(* hands the address of a freed one out again.  No request endpoint exists *)
(* yet, so every complete request is an error, and an error ends the       *)
(* connection it came from.  SIGPIPE is taken to be ignored, as systemd,   *)
(* whose watchdog protocol the daemon speaks, does by default.             *)
(***************************************************************************)
EXTENDS RpcSocket, Records, FiniteSets

CONSTANTS
  Bevs,       (* addresses a client's bufferevent can have                 *)
  NoConn,     (* no connection                                             *)
  NoBev,      (* no bufferevent                                            *)
  Header,     (* read low-watermark: sizeof(struct rpc_header)             *)
  Sizes,      (* sizes of the records clients write                        *)
  M4Packets,  (* what the M4 may send on the control channel               *)
  RpmsgCap,   (* packets the rpmsg channel buffers                         *)
  MaxBcast    (* bound: broadcasts forwarded                               *)

Flags == {"reply", "broadcast"}

ASSUME LoaddAssumption ==
  /\ NoConn \notin Conns /\ NoBev \notin Bevs
  /\ Header \in Nat \ {0} /\ Sizes \subseteq Nat \ {0}
  /\ M4Packets \subseteq [versionOk : BOOLEAN, flags : SUBSET Flags]
  /\ RpmsgCap \in Nat \ {0} /\ MaxBcast \in Nat

VARIABLES
  running,    (* the event loop runs                                       *)
  clients,    (* RpcServer::clients: bufferevent -> connection             *)
  bev,        (* connection -> its Client's event                          *)
  inBuf,      (* bytes in its input buffer, below the watermark            *)
  rpmsg,      (* packets waiting in the control channel                    *)
  bcast,      (* broadcasts forwarded so far; numbers them                 *)
  handled     (* broadcasts each client's handler was called with          *)

srvVars == <<running, clients, bev, inBuf>>
m4Vars  == <<rpmsg, bcast>>
vars    == <<sockVars, srvVars, m4Vars, handled>>

Init ==
  /\ SocketInit
  /\ running = TRUE
  /\ clients = [b \in Bevs |-> NoConn]
  /\ bev     = [c \in Conns |-> NoBev]
  /\ inBuf   = [c \in Conns |-> 0]
  /\ rpmsg   = << >>
  /\ bcast   = 0
  /\ handled = [c \in Conns |-> << >>]

Served   == {c \in Conns : servEnd[c] = "open" /\ bev[c] # NoBev}
FreeBevs == Bevs \ {bev[c] : c \in Served}

(***************************************************************************)
(* RpcServer                                                               *)
(***************************************************************************)
(* An exception between accept() and the map leaves the descriptor open,   *)
(* and nobody serving it.                                                  *)
AcceptClient ==
  /\ running
  /\ dialled # << >>
  /\ LET c == Head(dialled) IN
       /\ dialled' = Tail(dialled)
       /\ servEnd' = [servEnd EXCEPT ![c] = "open"]
       /\ \/ \E b \in FreeBevs : /\ clients' = [clients EXCEPT ![b] = c]
                                 /\ bev' = [bev EXCEPT ![c] = b]
          \/ UNCHANGED <<clients, bev>>
  /\ UNCHANGED <<peerEnd, up, down, out, running, inBuf, m4Vars, handled>>

(* Mutants of EraseClient: the entry outlives the client; every client on  *)
(* the list goes.                                                          *)
EraseKeepsEntry(c) ==
  /\ bev' = [bev EXCEPT ![c] = NoBev]
  /\ inBuf' = [inBuf EXCEPT ![c] = 0]
  /\ CloseServerEnds({c})
  /\ UNCHANGED <<dialled, peerEnd, up, down, running, clients, m4Vars, handled>>
EraseAll(c) ==
  /\ clients' = [b \in Bevs |-> NoConn]
  /\ bev' = [d \in Conns |-> NoBev]
  /\ inBuf' = [d \in Conns |-> 0]
  /\ CloseServerEnds(Served)
  /\ UNCHANGED <<dialled, peerEnd, up, down, running, m4Vars, handled>>

(* clients.erase(ev), in abortClient() and handleClientEvent().            *)
EraseClient(c) ==
  /\ clients' = [clients EXCEPT ![bev[c]] = NoConn]
  /\ bev' = [bev EXCEPT ![c] = NoBev]
  /\ inBuf' = [inBuf EXCEPT ![c] = 0]
  /\ CloseServerEnds({c})
  /\ UNCHANGED <<dialled, peerEnd, up, down, running, m4Vars, handled>>

(* Mutant of HandleClientRead: waits for more with a whole header there.   *)
ReadWaitsAtHeader(c) ==
  /\ running
  /\ c \in Served
  /\ Readable(c)
  /\ \/ /\ inBuf[c] + Head(up[c]) <= Header
        /\ inBuf' = [inBuf EXCEPT ![c] = @ + Head(up[c])]
        /\ up' = [up EXCEPT ![c] = Tail(@)]
        /\ UNCHANGED <<dialled, peerEnd, servEnd, down, out, running, clients, bev,
                       m4Vars, handled>>
     \/ /\ inBuf[c] + Head(up[c]) > Header
        /\ EraseClient(c)

(* Below the watermark the callback waits; above it, whatever it parses    *)
(* ends in an exception and abortClient().                                 *)
HandleClientRead(c) ==
  /\ running
  /\ c \in Served
  /\ Readable(c)
  /\ \/ /\ inBuf[c] + Head(up[c]) < Header
        /\ inBuf' = [inBuf EXCEPT ![c] = @ + Head(up[c])]
        /\ up' = [up EXCEPT ![c] = Tail(@)]
        /\ UNCHANGED <<dialled, peerEnd, servEnd, down, out, running, clients, bev,
                       m4Vars, handled>>
     \/ /\ inBuf[c] + Head(up[c]) >= Header
        /\ EraseClient(c)

HandleClientEvent(c) ==
  /\ running
  /\ c \in Served
  /\ HungUp(c)
  /\ EraseClient(c)

(* Mutant of BroadcastPacket: in front of what is queued.                  *)
BroadcastInFront ==
  out' = [c \in Conns |-> IF c \in Served THEN <<bcast + 1>> \o out[c] ELSE out[c]]

BroadcastPacket ==
  out' = [c \in Conns |-> IF c \in Served THEN Append(out[c], bcast + 1) ELSE out[c]]

ServerFlush(c) ==
  /\ running
  /\ c \in Served
  /\ Flush(c)
  /\ UNCHANGED <<srvVars, m4Vars, handled>>

(* SIGINT, SIGTERM, SIGHUP; the destructors close everything.              *)
HandleTermination ==
  /\ running
  /\ running' = FALSE
  /\ ProcessExit
  /\ clients' = [b \in Bevs |-> NoConn]
  /\ bev'     = [c \in Conns |-> NoBev]
  /\ inBuf'   = [c \in Conns |-> 0]
  /\ rpmsg'   = << >>
  /\ UNCHANGED <<bcast, handled>>

(***************************************************************************)
(* ControlEpHandler                                                        *)
(***************************************************************************)
IsBroadcast(p) == p.versionOk /\ "broadcast" \in p.flags

(* One read callback is one rpmsg packet.  A bad version is an exception,  *)
(* logged; what is neither is logged too.                                  *)
HandleRpmsgRead ==
  /\ running
  /\ rpmsg # << >>
  /\ rpmsg' = Tail(rpmsg)
  /\ \/ /\ IsBroadcast(Head(rpmsg))
        /\ bcast < MaxBcast
        /\ bcast' = bcast + 1
        /\ BroadcastPacket
     \/ /\ ~IsBroadcast(Head(rpmsg))
        /\ UNCHANGED <<bcast, out>>
  /\ UNCHANGED <<dialled, peerEnd, servEnd, up, down, srvVars, handled>>

(***************************************************************************)
(* The M4 and the clients                                                  *)
(***************************************************************************)
M4Sends(p) ==
  /\ running
  /\ Len(rpmsg) < RpmsgCap
  /\ rpmsg' = Append(rpmsg, p)
  /\ UNCHANGED <<sockVars, srvVars, bcast, handled>>

PeerDial(c) == running /\ Dial(c) /\ UNCHANGED <<srvVars, m4Vars, handled>>
PeerSend(c, n) == PeerWrite(c, n) /\ UNCHANGED <<srvVars, m4Vars, handled>>
PeerHangUp(c) == PeerClose(c) /\ UNCHANGED <<srvVars, m4Vars, handled>>

(* ClientBase::bevRead drains one record and handles the packet at its     *)
(* front.                                                                  *)
ClientBevRead(c) ==
  /\ peerEnd[c] = "open"
  /\ down[c] # << >>
  /\ down' = [down EXCEPT ![c] = Tail(@)]
  /\ handled' = [handled EXCEPT ![c] = Append(@, Head(Head(down[c])))]
  /\ UNCHANGED <<dialled, peerEnd, servEnd, up, out, srvVars, m4Vars>>

Server == \/ AcceptClient \/ HandleTermination \/ HandleRpmsgRead
          \/ \E c \in Conns : HandleClientRead(c) \/ HandleClientEvent(c) \/ ServerFlush(c)
Others == \/ \E p \in M4Packets : M4Sends(p)
          \/ \E c \in Conns : \/ PeerDial(c) \/ PeerHangUp(c) \/ ClientBevRead(c)
                              \/ \E n \in Sizes : PeerSend(c, n)

Next == Server \/ Others

Spec == Init /\ [][Next]_vars

(***************************************************************************)
(* Properties                                                              *)
(***************************************************************************)
TypeOK ==
  /\ SocketTypeOK(Sizes, 1 .. MaxBcast)
  /\ running \in BOOLEAN
  /\ clients \in [Bevs -> Conns \cup {NoConn}]
  /\ bev     \in [Conns -> Bevs \cup {NoBev}]
  /\ inBuf   \in [Conns -> 0 .. Header - 1]
  /\ rpmsg   \in Seq(M4Packets)
  /\ bcast   \in 0 .. MaxBcast
  /\ handled \in [Conns -> Seq(1 .. MaxBcast)]

(* Addresses are reused, and a callback only has its bufferevent's address *)
(* to find its client by: the map and the clients agree at every moment,   *)
(* so clients.at(ev) in a callback is the client the event is about.       *)
ClientTable ==
  /\ \A c \in Served : clients[bev[c]] = c
  /\ \A b \in Bevs : clients[b] # NoConn => clients[b] \in Served /\ bev[clients[b]] = b

(* A client that only listens keeps its connection, whatever the others    *)
(* and the M4 send: while the daemon runs, a step closes a connection only *)
(* if its peer hung up or wrote to it.                                     *)
OnlyOffendersClosed ==
  [][running' => \A c \in Served : servEnd'[c] = "closed" =>
                   peerEnd[c] = "closed" \/ up[c] # << >>]_vars

Feed == INSTANCE EventFeed WITH
          last    <- bcast,
          transit <- [c \in Conns |-> Joined(down[c]) \o out[c]],
          seen    <- handled

(* Server and library together are an event feed: across records, broken   *)
(* connections and reused addresses a client handles each broadcast at     *)
(* most once, and in order.                                                *)
ImplementsFeed == Feed!FeedSpec

==============================================================================
