------------------------------ MODULE RpcSocket ------------------------------
(***************************************************************************)
(* The AF_UNIX SOCK_SEQPACKET connections both daemons serve, as the code  *)
(* under src/ uses them: a listen backlog, one record queue per direction, *)
(* and the libevent output buffer bufferevent_write() appends to.          *)
(*                                                                         *)
(* Kernel and libevent are outside the repository.  What matters of them:  *)
(*  - bufferevent_write() only queues; the event loop later hands ALL the  *)
(*    queued bytes to one writev(), which on SOCK_SEQPACKET makes ONE      *)
(*    record, whatever the number of packets in it;                        *)
(*  - one read callback is one recvmsg(), that is one record;              *)
(*  - closing an end whose receive queue still holds records resets the    *)
(*    connection: the other end reads ECONNRESET, not EOF.                 *)
(***************************************************************************)
EXTENDS Naturals, Sequences

CONSTANTS
  Conns,      (* connections, each dialled at most once                    *)
  Backlog,    (* kListenBacklog                                            *)
  UpCap,      (* records the kernel buffers from peer to server            *)
  DownCap     (* records the kernel buffers from server to peer            *)

ASSUME SocketAssumption == /\ Backlog \in Nat \ {0}
                           /\ UpCap   \in Nat \ {0}
                           /\ DownCap \in Nat \ {0}

VARIABLES
  dialled,    (* connections waiting to be accepted, in order              *)
  peerEnd,    (* the peer's end of each connection                         *)
  servEnd,    (* the server's end of each connection                       *)
  up,         (* requests the server has not read yet                      *)
  down,       (* records the peer has not read yet, each a run of packets  *)
  out         (* packets queued in the server's bufferevent                *)

sockVars == <<dialled, peerEnd, servEnd, up, down, out>>

SocketInit ==
  /\ dialled = << >>
  /\ peerEnd = [c \in Conns |-> "unused"]
  /\ servEnd = [c \in Conns |-> "none"]
  /\ up      = [c \in Conns |-> << >>]
  /\ down    = [c \in Conns |-> << >>]
  /\ out     = [c \in Conns |-> << >>]

(* connect() succeeds while the backlog has room.                          *)
Dial(c) ==
  /\ peerEnd[c] = "unused"
  /\ Len(dialled) < Backlog
  /\ dialled' = Append(dialled, c)
  /\ peerEnd' = [peerEnd EXCEPT ![c] = "open"]
  /\ servEnd' = [servEnd EXCEPT ![c] = "queued"]
  /\ UNCHANGED <<up, down, out>>

(* The peer's write() of one packet: one record.                           *)
PeerWrite(c, m) ==
  /\ peerEnd[c] = "open"
  /\ servEnd[c] \in {"queued", "open"}
  /\ Len(up[c]) < UpCap
  /\ up' = [up EXCEPT ![c] = Append(@, m)]
  /\ UNCHANGED <<dialled, peerEnd, servEnd, down, out>>

(* The peer closes its end; what it left unread marks the reset.           *)
PeerClose(c) ==
  /\ peerEnd[c] = "open"
  /\ peerEnd' = [peerEnd EXCEPT ![c] = "closed"]
  /\ UNCHANGED <<dialled, servEnd, up, down, out>>

(* Closing with records unread resets the connection.                      *)
Reset(c) == peerEnd[c] = "closed" /\ down[c] # << >>

(* The server's end has a request to read: a reset hides the queued ones.  *)
Readable(c) ==
  /\ servEnd[c] = "open"
  /\ up[c] # << >>
  /\ ~Reset(c)

(* The event callback is due: EOF once the requests are drained, ECONNRESET*)
(* after a reset, EPIPE when queued output meets a closed peer (SIGPIPE is *)
(* ignored under systemd, its IgnoreSIGPIPE= default).                     *)
HungUp(c) ==
  /\ servEnd[c] = "open"
  /\ peerEnd[c] = "closed"
  /\ up[c] = << >> \/ Reset(c) \/ out[c] # << >>

(* The write event: every queued packet leaves in one record.              *)
Flush(c) ==
  /\ servEnd[c] = "open"
  /\ peerEnd[c] = "open"
  /\ out[c] # << >>
  /\ Len(down[c]) < DownCap
  /\ down' = [down EXCEPT ![c] = Append(@, out[c])]
  /\ out'  = [out EXCEPT ![c] = << >>]
  /\ UNCHANGED <<dialled, peerEnd, servEnd, up>>

(* bufferevent_free() drops the queued output, close() ends the connection.*)
CloseServerEnds(S) ==
  /\ servEnd' = [c \in Conns |-> IF c \in S THEN "closed" ELSE servEnd[c]]
  /\ out'     = [c \in Conns |-> IF c \in S THEN << >> ELSE out[c]]

(* The process exits: every end it holds, accepted or not, is closed.      *)
ProcessExit ==
  /\ CloseServerEnds({c \in Conns : servEnd[c] \in {"queued", "open"}})
  /\ dialled' = << >>
  /\ UNCHANGED <<peerEnd, up, down>>

SocketTypeOK(Req, Packet) ==
  /\ dialled \in Seq(Conns)
  /\ peerEnd \in [Conns -> {"unused", "open", "closed"}]
  /\ servEnd \in [Conns -> {"none", "queued", "open", "closed"}]
  /\ up      \in [Conns -> Seq(Req)]
  /\ down    \in [Conns -> Seq(Seq(Packet))]
  /\ out     \in [Conns -> Seq(Packet)]

==============================================================================
