----------------------------- MODULE PinballRpc -----------------------------
(***************************************************************************)
(* pinballd's server with its clients' library at the other end of each    *)
(* socket (pl-common, Rpc/ClientBase.cpp): what becomes of a broadcast     *)
(* between broadcastRaw() and handleIncomingMessage().                     *)
(***************************************************************************)
EXTENDS PinballServer, Records

VARIABLES
  due,      (* broadcasts queued for each client: what it should handle    *)
  handled   (* broadcasts its handleIncomingMessage() was called with      *)

rpcVars == <<vars, due, handled>>

RpcInit ==
  /\ Init
  /\ due     = [c \in Conns |-> << >>]
  /\ handled = [c \in Conns |-> << >>]

(* Mutant of ClientBevRead: the input buffer is read but not drained.      *)
ReadWithoutDraining(c) ==
  /\ peerEnd[c] = "open"
  /\ down[c] # << >>
  /\ handled' = [handled EXCEPT ![c] = Append(@, Head(Head(down[c])).n)]
  /\ UNCHANGED <<vars, due>>

(* The read callback drains its input buffer, which is one record, but     *)
(* parses and handles the packet at its front only.                        *)
ClientBevRead(c) ==
  /\ PeerRead(c)
  /\ handled' = [handled EXCEPT ![c] = Append(@, Head(Head(down[c])).n)]
  /\ UNCHANGED due

Publish(t) ==
  /\ BroadcastRaw(t)
  /\ due' = [c \in Conns |-> IF c \in Served /\ t \in wants[c]
                             THEN Append(due[c], bcast') ELSE due[c]]
  /\ UNCHANGED handled

PeerSends(c) ==
  PeerDial(c) \/ PeerHangUp(c) \/ \E req \in Requests : PeerSend(c, req)

RpcNext ==
  \/ \E c \in Conns : ClientBevRead(c)
  \/ \E t \in Types : Publish(t)
  \/ /\ \/ Process
        \/ AcceptClient
        \/ \E c \in Conns : BevRead(c) \/ BevEvent(c) \/ ServerFlush(c)
        \/ \E c \in Conns : PeerSends(c)
     /\ UNCHANGED <<due, handled>>

RpcSpec == RpcInit /\ [][RpcNext]_rpcVars

(***************************************************************************)
(* Properties                                                              *)
(***************************************************************************)
Numbers(s) == [i \in DOMAIN s |-> s[i].n]
InTransit(c) == Numbers(Joined(down[c]) \o out[c])

Feed == INSTANCE EventFeed WITH
          last    <- bcast,
          transit <- [c \in Conns |-> InTransit(c)],
          seen    <- handled

(* Record boundaries, reconnections, descriptor reuse, resets and restarts *)
(* never make a client handle a broadcast twice or out of order.           *)
ImplementsFeed == Feed!FeedSpec

(* Server.h, line 42: "Broadcast a packet to all connected clients".  When *)
(* nothing is in transit any more, a client that stayed connected has      *)
(* handled every broadcast queued for it.                                  *)
EveryBroadcastHandled ==
  \A c \in Served :
    (peerEnd[c] = "open" /\ InTransit(c) = << >>) => handled[c] = due[c]

==============================================================================
