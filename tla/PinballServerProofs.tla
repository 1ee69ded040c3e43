------------------------ MODULE PinballServerProofs ------------------------
(***************************************************************************)
(* pinballd's server for any number of connections, descriptors, backlog   *)
(* and packet types: type correctness, the descriptor table, that clients  *)
(* do not disturb each other, and, with the clients' library, the event    *)
(* feed.                                                                   *)
(***************************************************************************)
EXTENDS PinballRpc, InductionLemmas

(* accept() finds the lowest free descriptor when there is a free one.     *)
LEMMA LowestFreeIsFree ==
  ASSUME FreeFds # {}
  PROVE  LowestFree \in FreeFds
<1>1. FreeFds \subseteq Nat
  BY ServerAssumption DEF FreeFds
<1>2. PICK f \in FreeFds : \A g \in FreeFds : <<g, f>> \notin OpToRel(<, Nat)
  BY <1>1, NatLessThanWellFounded, WFMin
<1>3. ASSUME NEW g \in FreeFds PROVE f <= g
  <2>1. g \in Nat /\ f \in Nat /\ ~(g < f)
    BY <1>1, <1>2 DEF OpToRel
  <2> QED BY <2>1
<1> QED BY <1>3 DEF LowestFree

(***************************************************************************)
(* Type correctness                                                        *)
(***************************************************************************)
LEMMA TypeInit == Init => TypeOK
BY EmptySeq DEF Init, SocketInit, TypeOK, SocketTypeOK

LEMMA CloseType ==
  ASSUME TypeOK, NEW S, CloseServerEnds(S)
  PROVE  /\ servEnd' \in [Conns -> {"none", "queued", "open", "closed"}]
         /\ out' \in [Conns -> Seq(Packets)]
<1>1. << >> \in Seq(Packets)
  BY EmptySeq
<1> QED BY <1>1 DEF TypeOK, SocketTypeOK, CloseServerEnds

(* An exit closes every end and forgets every client, in any state.        *)
LEMMA ExitType ==
  ASSUME TypeOK, NEW status, Exit(status),
         status \in {"exit0", "exit1", "exit0 after failure", "aborted"}
  PROVE  TypeOK'
<1>1. /\ servEnd' \in [Conns -> {"none", "queued", "open", "closed"}]
      /\ out' \in [Conns -> Seq(Packets)]
  BY CloseType DEF Exit, ProcessExit
<1>2. dialled' \in Seq(Conns)
  BY EmptySeq DEF Exit, ProcessExit
<1> QED BY <1>1, <1>2 DEF TypeOK, SocketTypeOK, Exit, ProcessExit

LEMMA AcceptType == TypeOK /\ AcceptClient => TypeOK'
<1> SUFFICES ASSUME TypeOK, AcceptClient PROVE TypeOK'
  OBVIOUS
<1>1. LowestFree \in Fds \ leaked /\ clients[LowestFree] = NoConn
  BY LowestFreeIsFree DEF AcceptClient, FreeFds
<1>2. Head(dialled) \in Conns /\ Tail(dialled) \in Seq(Conns)
  BY HeadTailProperties DEF AcceptClient, TypeOK, SocketTypeOK
<1> QED BY <1>1, <1>2 DEF AcceptClient, TypeOK, SocketTypeOK

LEMMA ReleaseType ==
  ASSUME TypeOK, NEW c \in Conns, ReleaseClient(c)
  PROVE  TypeOK'
<1>1. /\ clients' \in [Fds -> Conns \cup {NoConn}]
      /\ sockFd' \in [Conns -> Fds \cup {0}]
      /\ wants' \in [Conns -> SUBSET Types]
  BY DEF TypeOK, ReleaseClient
<1>2. /\ servEnd' \in [Conns -> {"none", "queued", "open", "closed"}]
      /\ out' \in [Conns -> Seq(Packets)]
  BY CloseType DEF ReleaseClient
<1> QED BY <1>1, <1>2 DEF TypeOK, SocketTypeOK, ReleaseClient

LEMMA ReadType ==
  ASSUME TypeOK, NEW c \in Conns, BevRead(c)
  PROVE  TypeOK'
<1> DEFINE req == Head(up[c])
<1>1. up[c] \in Seq(Requests) /\ up[c] # << >>
  BY DEF TypeOK, SocketTypeOK, BevRead, Readable
<1>2. req \in Requests /\ Tail(up[c]) \in Seq(Requests)
  BY <1>1, HeadTailProperties
<1>3. CASE up' = [up EXCEPT ![c] = Tail(@)]
  <2>0. up' \in [Conns -> Seq(Requests)]
    BY <1>2, <1>3 DEF TypeOK, SocketTypeOK
  <2>1. CASE req.kind = "config" /\ UpdateBroadcastConfig(c, req)
    <3>1. req \in ConfigReq
      BY <1>2, <2>1, ServerAssumption DEF AllRequests, OtherReq
    <3>2. req.on \subseteq Types
      BY <3>1 DEF ConfigReq
    <3>3. wants' \in [Conns -> SUBSET Types]
      BY <2>1, <3>2 DEF UpdateBroadcastConfig, TypeOK
    <3> QED BY <2>0, <2>1, <3>3 DEF UpdateBroadcastConfig, TypeOK, SocketTypeOK
  <2>2. CASE IgnorePacket
    BY <2>0, <2>2 DEF IgnorePacket, TypeOK, SocketTypeOK
  <2>3. CASE LoopFails
    BY <2>3, ExitType DEF LoopFails
  <2> QED BY <1>3, <2>1, <2>2, <2>3 DEF BevRead
<1>4. CASE LoopFails
  BY <1>4, ExitType DEF LoopFails
<1> QED BY <1>3, <1>4 DEF BevRead

LEMMA BroadcastType ==
  ASSUME TypeOK, NEW t \in Types, BroadcastRaw(t)
  PROVE  TypeOK'
<1>1. bcast' \in Nat /\ [n |-> bcast', type |-> t] \in Packets
  BY DEF TypeOK, BroadcastRaw, Packets
<1>2. \A c \in Conns : Append(out[c], [n |-> bcast', type |-> t]) \in Seq(Packets)
  BY <1>1, AppendProperties DEF TypeOK, SocketTypeOK
<1>3. out' \in [Conns -> Seq(Packets)]
  BY <1>2 DEF TypeOK, SocketTypeOK, BroadcastRaw
<1> QED BY <1>1, <1>3 DEF TypeOK, SocketTypeOK, BroadcastRaw

LEMMA ProcessType == TypeOK /\ Process => TypeOK'
<1> SUFFICES ASSUME TypeOK, Process PROVE TypeOK'
  OBVIOUS
<1>1. CASE Listen
  BY <1>1 DEF Listen, TypeOK, SocketTypeOK, sockVars
<1>2. CASE ProbeSucceeds
  BY <1>2 DEF ProbeSucceeds, TypeOK, SocketTypeOK, sockVars
<1>3. CASE ProbeFails
  BY <1>3, ExitType DEF ProbeFails
<1>4. CASE HandleTermination
  BY <1>4, ExitType DEF HandleTermination
<1>5. CASE SystemdRestart
  BY <1>5 DEF SystemdRestart, TypeOK, SocketTypeOK, sockVars
<1> QED BY <1>1, <1>2, <1>3, <1>4, <1>5 DEF Process

LEMMA FlushType ==
  ASSUME TypeOK, NEW c \in Conns, ServerFlush(c)
  PROVE  TypeOK'
<1>1. Append(down[c], out[c]) \in Seq(Seq(Packets))
  BY AppendProperties DEF TypeOK, SocketTypeOK
<1>2. /\ down' \in [Conns -> Seq(Seq(Packets))]
      /\ out' \in [Conns -> Seq(Packets)]
  BY <1>1 DEF ServerFlush, Flush, TypeOK, SocketTypeOK
<1> QED BY <1>2 DEF ServerFlush, Flush, TypeOK, SocketTypeOK, srvVars

LEMMA PeerType == TypeOK /\ Peer => TypeOK'
<1> SUFFICES ASSUME TypeOK, NEW c \in Conns,
                    \/ PeerDial(c) \/ PeerHangUp(c) \/ PeerRead(c)
                    \/ \E req \in Requests : PeerSend(c, req)
             PROVE  TypeOK'
  BY DEF Peer
<1>1. CASE PeerDial(c)
  <2>1. Append(dialled, c) \in Seq(Conns)
    BY AppendProperties DEF TypeOK, SocketTypeOK
  <2> QED BY <1>1, <2>1 DEF PeerDial, Dial, TypeOK, SocketTypeOK, srvVars
<1>2. CASE PeerHangUp(c)
  BY <1>2 DEF PeerHangUp, PeerClose, TypeOK, SocketTypeOK, srvVars
<1>3. CASE PeerRead(c)
  <2>1. Tail(down[c]) \in Seq(Seq(Packets))
    BY <1>3, HeadTailProperties DEF PeerRead, TypeOK, SocketTypeOK
  <2> QED BY <1>3, <2>1 DEF PeerRead, TypeOK, SocketTypeOK, srvVars
<1>4. ASSUME NEW req \in Requests, PeerSend(c, req) PROVE TypeOK'
  <2>1. Append(up[c], req) \in Seq(Requests)
    BY AppendProperties DEF TypeOK, SocketTypeOK
  <2> QED BY <1>4, <2>1 DEF PeerSend, PeerWrite, TypeOK, SocketTypeOK, srvVars
<1> QED BY <1>1, <1>2, <1>3, <1>4

LEMMA TypeStep == TypeOK /\ [Next]_vars => TypeOK'
<1> SUFFICES ASSUME TypeOK, [Next]_vars PROVE TypeOK'
  OBVIOUS
<1>1. CASE Process
  BY <1>1, ProcessType
<1>2. CASE AcceptClient
  BY <1>2, AcceptType
<1>3. ASSUME NEW c \in Conns, BevRead(c) PROVE TypeOK'
  BY <1>3, ReadType
<1>4. ASSUME NEW c \in Conns, BevEvent(c) PROVE TypeOK'
  BY <1>4, ReleaseType DEF BevEvent
<1>5. ASSUME NEW c \in Conns, ServerFlush(c) PROVE TypeOK'
  BY <1>5, FlushType
<1>6. ASSUME NEW t \in Types, BroadcastRaw(t) PROVE TypeOK'
  BY <1>6, BroadcastType
<1>7. CASE Peer
  BY <1>7, PeerType
<1>8. CASE UNCHANGED vars
  BY <1>8 DEF vars, sockVars, srvVars, TypeOK, SocketTypeOK
<1> QED BY <1>1, <1>2, <1>3, <1>4, <1>5, <1>6, <1>7, <1>8 DEF Next, Server

(* Every table and queue of the server and its sockets keeps its type,     *)
(* through accepts, failures, restarts and whatever the peers send.        *)
THEOREM TypeCorrect == Spec => []TypeOK
<1> QED BY TypeInit, TypeStep, PTL DEF Spec

(***************************************************************************)
(* The descriptor table                                                    *)
(***************************************************************************)
(* What FdTable needs to be inductive: a connection in the backlog is in   *)
(* it once and not yet accepted, one never dialled has no server's end,    *)
(* and an accepted one has a descriptor.                                   *)
Backlogged ==
  /\ \A i \in 1 .. Len(dialled) : servEnd[dialled[i]] = "queued"
  /\ \A i, j \in 1 .. Len(dialled) : dialled[i] = dialled[j] => i = j
  /\ \A c \in Conns : peerEnd[c] = "unused" => servEnd[c] = "none"
  /\ \A c \in Conns : servEnd[c] = "open" => sockFd[c] \in Fds

FdInv == TypeOK /\ Backlogged /\ FdTable

LEMMA FdInit == Init => FdInv
<1> SUFFICES ASSUME Init PROVE Backlogged /\ FdTable
  BY TypeInit DEF FdInv
<1>1. Backlogged
  BY DEF Init, SocketInit, Backlogged
<1>2. FdTable
  BY DEF Init, SocketInit, FdTable, Served
<1> QED BY <1>1, <1>2

(* Steps that touch neither the table nor the server's ends.               *)
LEMMA FdUnchanged ==
  ASSUME FdInv, UNCHANGED <<dialled, servEnd, clients, sockFd, leaked>>,
         \A c \in Conns : peerEnd'[c] = "unused" => peerEnd[c] = "unused"
  PROVE  Backlogged' /\ FdTable'
<1>1. Backlogged'
  BY DEF FdInv, Backlogged
<1>2. FdTable'
  BY DEF FdInv, FdTable, Served
<1> QED BY <1>1, <1>2

LEMMA FdExit ==
  ASSUME FdInv, NEW status, Exit(status)
  PROVE  Backlogged' /\ FdTable'
<1>1. /\ dialled' = << >> /\ UNCHANGED peerEnd
      /\ \A c \in Conns : servEnd'[c] = IF servEnd[c] \in {"queued", "open"}
                                       THEN "closed" ELSE servEnd[c]
      /\ clients' = [f \in Fds |-> NoConn]
  BY DEF Exit, ProcessExit, CloseServerEnds
<1>2. Backlogged'
  BY <1>1 DEF FdInv, Backlogged
<1>3. FdTable'
  <2>1. \A c \in Conns : servEnd'[c] # "open"
    BY <1>1
  <2>2. \A f \in Fds : clients'[f] = NoConn
    BY <1>1
  <2> QED BY <2>1, <2>2 DEF FdTable, Served
<1> QED BY <1>2, <1>3

LEMMA FdDial ==
  ASSUME FdInv, NEW c \in Conns, PeerDial(c)
  PROVE  Backlogged' /\ FdTable'
<1>1. /\ dialled \in Seq(Conns) /\ dialled' = Append(dialled, c)
      /\ servEnd[c] = "none" /\ servEnd' = [servEnd EXCEPT ![c] = "queued"]
      /\ servEnd \in [Conns -> {"none", "queued", "open", "closed"}]
      /\ peerEnd \in [Conns -> {"unused", "open", "closed"}]
      /\ peerEnd' = [peerEnd EXCEPT ![c] = "open"]
      /\ UNCHANGED <<clients, sockFd, leaked>>
  BY DEF FdInv, TypeOK, SocketTypeOK, Backlogged, PeerDial, Dial, srvVars
<1>2. /\ Len(dialled) \in Nat
      /\ Len(dialled') = Len(dialled) + 1
      /\ \A i \in 1 .. Len(dialled) : dialled'[i] = dialled[i] /\ dialled[i] \in Conns
      /\ dialled'[Len(dialled) + 1] = c
  BY <1>1, AppendProperties, LenProperties, ElementOfSeq
<1>3. \A i \in 1 .. Len(dialled) : dialled[i] # c
  BY <1>1 DEF FdInv, Backlogged
<1>4. \A i \in 1 .. Len(dialled') : i \in 1 .. Len(dialled) \/ i = Len(dialled) + 1
  BY <1>2
<1>5. Backlogged'
  <2>1. \A i \in 1 .. Len(dialled') : servEnd'[dialled'[i]] = "queued"
    BY <1>1, <1>2, <1>4 DEF FdInv, Backlogged
  <2>2. \A i, j \in 1 .. Len(dialled') : dialled'[i] = dialled'[j] => i = j
    BY <1>2, <1>3, <1>4 DEF FdInv, Backlogged
  <2>3. \A d \in Conns : peerEnd'[d] = "unused" => servEnd'[d] = "none"
    BY <1>1 DEF FdInv, Backlogged
  <2>4. \A d \in Conns : servEnd'[d] = "open" => sockFd'[d] \in Fds
    BY <1>1 DEF FdInv, Backlogged
  <2> QED BY <2>1, <2>2, <2>3, <2>4 DEF Backlogged
<1>6. FdTable'
  <2>1. \A d \in Conns : d \in Served' <=> d \in Served
    BY <1>1 DEF Served
  <2>2. ASSUME NEW f \in Fds, clients[f] # NoConn
        PROVE  servEnd'[clients[f]] = "open" /\ sockFd[clients[f]] = f /\ f \notin leaked
    <3>1. clients[f] \in Conns /\ servEnd[clients[f]] = "open"
      BY <2>2 DEF FdInv, TypeOK, FdTable
    <3>2. clients[f] # c /\ sockFd[clients[f]] = f /\ f \notin leaked
      BY <1>1, <2>2, <3>1 DEF FdInv, FdTable
    <3> QED BY <1>1, <3>1, <3>2
  <2>3. \A d \in Served : clients[sockFd[d]] = d
    BY DEF FdInv, FdTable
  <2> QED BY <1>1, <2>1, <2>2, <2>3 DEF FdTable, Served
<1> QED BY <1>5, <1>6

(* The accepted connection gets a descriptor nothing else has, and either  *)
(* a map entry at it or, if its Client was never built, none.              *)
LEMMA FdAccept ==
  ASSUME FdInv, AcceptClient
  PROVE  Backlogged' /\ FdTable'
<1> DEFINE c == Head(dialled)
           n == LowestFree
<1>1. n \in Fds /\ n \notin leaked /\ clients[n] = NoConn
  BY LowestFreeIsFree DEF AcceptClient, FreeFds
<1>2. /\ c \in Conns /\ c = dialled[1] /\ dialled' = Tail(dialled)
      /\ Len(dialled) \in Nat \ {0} /\ Len(dialled') = Len(dialled) - 1
      /\ \A i \in 1 .. Len(dialled') : dialled'[i] = dialled[i + 1]
  BY HeadTailProperties, EmptySeq DEF AcceptClient, FdInv, TypeOK, SocketTypeOK
<1>3. /\ servEnd' = [servEnd EXCEPT ![c] = "open"]
      /\ sockFd' = [sockFd EXCEPT ![c] = n]
      /\ \/ clients' = [clients EXCEPT ![n] = c] /\ leaked' = leaked
         \/ leaked' = leaked \cup {n} /\ clients' = clients
      /\ peerEnd' = peerEnd
  BY DEF AcceptClient
<1>4. /\ servEnd \in [Conns -> {"none", "queued", "open", "closed"}]
      /\ sockFd \in [Conns -> Fds \cup {0}]
      /\ clients \in [Fds -> Conns \cup {NoConn}]
      /\ NoConn \notin Conns
  BY ServerAssumption DEF FdInv, TypeOK, SocketTypeOK
<1>5. servEnd[c] = "queued"
  BY <1>2 DEF FdInv, Backlogged
<1> HIDE DEF c, n
<1>6. Backlogged'
  <2>1. ASSUME NEW i \in 1 .. Len(dialled')
        PROVE  servEnd'[dialled'[i]] = "queued"
    <3>1. i + 1 \in 1 .. Len(dialled) /\ 1 \in 1 .. Len(dialled) /\ i + 1 # 1
      BY <1>2
    <3>2. dialled[i + 1] # c /\ servEnd[dialled[i + 1]] = "queued"
      BY <3>1, <1>2 DEF FdInv, Backlogged
    <3>3. dialled[i + 1] \in Conns
      BY <3>1, ElementOfSeq DEF FdInv, TypeOK, SocketTypeOK
    <3> QED BY <1>2, <1>3, <1>4, <3>2, <3>3
  <2>2. ASSUME NEW i \in 1 .. Len(dialled'), NEW j \in 1 .. Len(dialled'),
               dialled'[i] = dialled'[j]
        PROVE  i = j
    <3>1. i + 1 \in 1 .. Len(dialled) /\ j + 1 \in 1 .. Len(dialled)
      BY <1>2
    <3>2. i + 1 = j + 1
      BY <1>2, <2>2, <3>1 DEF FdInv, Backlogged
    <3> QED BY <3>2
  <2>3. \A d \in Conns : peerEnd'[d] = "unused" => servEnd'[d] = "none"
    BY <1>2, <1>3, <1>4, <1>5 DEF FdInv, Backlogged
  <2>4. \A d \in Conns : servEnd'[d] = "open" => sockFd'[d] \in Fds
    BY <1>1, <1>2, <1>3, <1>4 DEF FdInv, Backlogged
  <2> QED BY <2>1, <2>2, <2>3, <2>4 DEF Backlogged
<1>7. FdTable'
  <2>1. ASSUME NEW d \in Conns, d \in Served' PROVE clients'[sockFd'[d]] = d
    <3>1. CASE d = c
      BY <1>1, <1>2, <1>3, <1>4, <2>1, <3>1 DEF Served
    <3>2. CASE d # c
      <4>1. servEnd[d] = "open" /\ sockFd'[d] = sockFd[d] /\ sockFd[d] \notin leaked
        BY <1>2, <1>3, <1>4, <2>1, <3>2 DEF Served
      <4>2. d \in Served /\ clients[sockFd[d]] = d /\ sockFd[d] \in Fds
        BY <4>1 DEF Served, FdInv, FdTable, Backlogged
      <4> QED BY <1>1, <1>3, <1>4, <4>1, <4>2
    <3> QED BY <3>1, <3>2
  <2>2. ASSUME NEW f \in Fds, clients'[f] # NoConn
        PROVE  servEnd'[clients'[f]] = "open" /\ sockFd'[clients'[f]] = f /\ f \notin leaked'
    <3>1. CASE f = n
      BY <1>1, <1>2, <1>3, <1>4, <2>2, <3>1
    <3>2. CASE f # n
      <4>1. clients'[f] = clients[f] /\ clients[f] \in Conns
        BY <1>1, <1>3, <1>4, <2>2, <3>2
      <4>2. servEnd[clients[f]] = "open" /\ sockFd[clients[f]] = f /\ f \notin leaked
        BY <2>2, <4>1 DEF FdInv, FdTable
      <4> QED BY <1>2, <1>3, <1>4, <1>5, <3>2, <4>1, <4>2
    <3> QED BY <3>1, <3>2
  <2>3. \A d \in Served' : d \in Conns
    BY DEF Served
  <2> QED BY <2>1, <2>2, <2>3 DEF FdTable
<1> QED BY <1>6, <1>7

(* Erasing by descriptor erases the right client: the table says whose it  *)
(* is.                                                                     *)
LEMMA FdRelease ==
  ASSUME FdInv, NEW c \in Served, ReleaseClient(c)
  PROVE  Backlogged' /\ FdTable'
<1>1. /\ c \in Conns /\ servEnd[c] = "open" /\ sockFd[c] \in Fds
      /\ clients[sockFd[c]] = c
  BY DEF Served, FdInv, FdTable, Backlogged
<1>2. /\ servEnd \in [Conns -> {"none", "queued", "open", "closed"}]
      /\ sockFd \in [Conns -> Fds \cup {0}]
      /\ clients \in [Fds -> Conns \cup {NoConn}]
      /\ dialled \in Seq(Conns)
  BY DEF FdInv, TypeOK, SocketTypeOK
<1>3. /\ \A d \in Conns : servEnd'[d] = IF d = c THEN "closed" ELSE servEnd[d]
      /\ sockFd' = [sockFd EXCEPT ![c] = 0]
      /\ clients' = [clients EXCEPT ![sockFd[c]] = NoConn]
      /\ UNCHANGED <<dialled, peerEnd, leaked>>
  BY DEF ReleaseClient, CloseServerEnds
<1>4. Backlogged'
  <2>1. \A i \in 1 .. Len(dialled) : dialled[i] \in Conns
    BY <1>2, ElementOfSeq
  <2> QED BY <1>1, <1>2, <1>3, <2>1 DEF FdInv, Backlogged
<1>5. FdTable'
  <2>1. ASSUME NEW d \in Served' PROVE clients'[sockFd'[d]] = d
    <3>1. d \in Conns /\ d # c /\ d \in Served /\ sockFd'[d] = sockFd[d]
      BY <1>1, <1>2, <1>3, <2>1 DEF Served
    <3>2. clients[sockFd[d]] = d /\ sockFd[d] # sockFd[c]
      BY <1>1, <3>1 DEF FdInv, FdTable
    <3> QED BY <1>2, <1>3, <3>1, <3>2
  <2>2. ASSUME NEW f \in Fds, clients'[f] # NoConn
        PROVE  servEnd'[clients'[f]] = "open" /\ sockFd'[clients'[f]] = f /\ f \notin leaked'
    <3>1. f # sockFd[c] /\ clients'[f] = clients[f] /\ clients[f] \in Conns
      BY <1>1, <1>2, <1>3, <2>2
    <3>2. servEnd[clients[f]] = "open" /\ sockFd[clients[f]] = f /\ f \notin leaked
      BY <2>2, <3>1 DEF FdInv, FdTable
    <3> QED BY <1>2, <1>3, <3>1, <3>2
  <2> QED BY <2>1, <2>2 DEF FdTable
<1> QED BY <1>4, <1>5

LEMMA FdStep == FdInv /\ [Next]_vars => FdInv'
<1> SUFFICES ASSUME FdInv, [Next]_vars PROVE Backlogged' /\ FdTable'
  BY TypeStep DEF FdInv
<1>1. CASE Process
  BY <1>1, FdExit, FdUnchanged DEF Process, Listen, ProbeSucceeds, ProbeFails,
     HandleTermination, SystemdRestart, sockVars
<1>2. CASE AcceptClient
  BY <1>2, FdAccept
<1>3. ASSUME NEW c \in Conns, BevRead(c) PROVE Backlogged' /\ FdTable'
  BY <1>3, FdExit, FdUnchanged DEF BevRead, UpdateBroadcastConfig, IgnorePacket, LoopFails
<1>4. ASSUME NEW c \in Conns, BevEvent(c) PROVE Backlogged' /\ FdTable'
  BY <1>4, FdRelease DEF BevEvent
<1>5. ASSUME NEW c \in Conns, ServerFlush(c) PROVE Backlogged' /\ FdTable'
  BY <1>5, FdUnchanged DEF ServerFlush, Flush, srvVars
<1>6. ASSUME NEW t \in Types, BroadcastRaw(t) PROVE Backlogged' /\ FdTable'
  BY <1>6, FdUnchanged DEF BroadcastRaw
<1>7. ASSUME NEW c \in Conns, PeerDial(c) PROVE Backlogged' /\ FdTable'
  BY <1>7, FdDial
<1>8. ASSUME NEW c \in Conns, PeerHangUp(c) PROVE Backlogged' /\ FdTable'
  <2>1. \A d \in Conns : peerEnd'[d] = "unused" => peerEnd[d] = "unused"
    BY <1>8 DEF PeerHangUp, PeerClose, FdInv, TypeOK, SocketTypeOK
  <2> QED BY <1>8, <2>1, FdUnchanged DEF PeerHangUp, PeerClose, srvVars
<1>9. ASSUME NEW c \in Conns, PeerRead(c) \/ \E req \in Requests : PeerSend(c, req)
      PROVE  Backlogged' /\ FdTable'
  BY <1>9, FdUnchanged DEF PeerRead, PeerSend, PeerWrite, srvVars
<1>10. CASE UNCHANGED vars
  BY <1>10, FdUnchanged DEF vars, sockVars, srvVars
<1> QED BY <1>1, <1>2, <1>3, <1>4, <1>5, <1>6, <1>7, <1>8, <1>9, <1>10
        DEF Next, Server, Peer

(* Server::clients is keyed by descriptor numbers the kernel reuses; still *)
(* an entry always is the connection that descriptor belongs to, so        *)
(* releaseClient() never erases another client's.                          *)
THEOREM FdTableCorrect == Spec => []FdTable
<1>1. FdInv => FdTable
  BY DEF FdInv
<1> QED BY FdInit, FdStep, <1>1, PTL DEF Spec

(***************************************************************************)
(* Clients do not disturb each other                                       *)
(***************************************************************************)
(* A step that leaves subscriptions and ends as they are disturbs nobody.  *)
LEMMA NobodyDisturbed ==
  ASSUME UNCHANGED <<servEnd, wants>>, NEW c
  PROVE  ~Disturbed(c)
BY DEF Disturbed

(* A callback of one connection disturbs no other.                         *)
LEMMA OnlyItself ==
  ASSUME TypeOK, NEW c \in Conns, NEW d \in Conns, Disturbed(d), daemon' = "running",
         \/ BevRead(c) \/ BevEvent(c) \/ ServerFlush(c)
         \/ PeerDial(c) \/ PeerHangUp(c) \/ PeerRead(c)
         \/ \E req \in Requests : PeerSend(c, req)
  PROVE  d = c
<1>1. CASE BevEvent(c)
  BY <1>1 DEF BevEvent, ReleaseClient, CloseServerEnds, Disturbed, TypeOK, SocketTypeOK
<1>2. CASE BevRead(c)
  BY <1>2 DEF BevRead, UpdateBroadcastConfig, IgnorePacket, LoopFails, Exit, Disturbed,
              TypeOK, SocketTypeOK
<1>3. CASE PeerDial(c)
  BY <1>3 DEF PeerDial, Dial, srvVars, Disturbed, TypeOK, SocketTypeOK
<1>4. CASE \/ ServerFlush(c) \/ PeerHangUp(c) \/ PeerRead(c)
           \/ \E req \in Requests : PeerSend(c, req)
  BY <1>4, NobodyDisturbed
     DEF ServerFlush, Flush, PeerHangUp, PeerClose, PeerRead, PeerSend, PeerWrite, srvVars
<1> QED BY <1>1, <1>2, <1>3, <1>4

(* Accepting makes an end open that was in the backlog; it closes none.    *)
LEMMA AcceptDisturbsNobody ==
  ASSUME FdInv, AcceptClient, NEW d \in Conns
  PROVE  ~Disturbed(d)
<1>1. /\ servEnd' = [servEnd EXCEPT ![Head(dialled)] = "open"] /\ wants' = wants
      /\ servEnd \in [Conns -> {"none", "queued", "open", "closed"}]
  BY DEF AcceptClient, FdInv, TypeOK, SocketTypeOK
<1> QED BY <1>1 DEF Disturbed

(* While pinballd runs, a step changes the subscription of one connection  *)
(* at most, and closes one at most, however many there are and whichever   *)
(* descriptors they had before.                                            *)
THEOREM OneClientCorrect == Spec => OneClientPerStep
<1> DEFINE Apart == daemon' = "running" =>
                      \A c, d \in Conns : Disturbed(c) /\ Disturbed(d) => c = d
<1>1. FdInv /\ [Next]_vars => [Apart]_vars
  <2> SUFFICES ASSUME FdInv, Next, daemon' = "running",
                      NEW c \in Conns, NEW d \in Conns, Disturbed(c), Disturbed(d)
               PROVE  c = d
    OBVIOUS
  <2>1. CASE Process
    BY <2>1, NobodyDisturbed DEF Process, Listen, ProbeSucceeds, ProbeFails,
       HandleTermination, SystemdRestart, Exit, sockVars
  <2>2. CASE AcceptClient
    BY <2>2, AcceptDisturbsNobody
  <2>3. CASE \E t \in Types : BroadcastRaw(t)
    BY <2>3, NobodyDisturbed DEF BroadcastRaw
  <2>4. ASSUME NEW e \in Conns,
               \/ BevRead(e) \/ BevEvent(e) \/ ServerFlush(e)
               \/ PeerDial(e) \/ PeerHangUp(e) \/ PeerRead(e)
               \/ \E req \in Requests : PeerSend(e, req)
        PROVE  c = d
    BY <2>4, OnlyItself DEF FdInv
  <2> QED BY <2>1, <2>2, <2>3, <2>4 DEF Next, Server, Peer
<1> QED BY <1>1, FdInit, FdStep, PTL DEF Spec, OneClientPerStep

(***************************************************************************)
(* The event feed                                                          *)
(***************************************************************************)
(* Numbers takes a packet's number out of each.                            *)
LEMMA NumbersType ==
  ASSUME NEW s \in Seq(Packets)
  PROVE  /\ Numbers(s) \in Seq(Nat) /\ Len(Numbers(s)) = Len(s) /\ Len(s) \in Nat
         /\ \A i \in 1 .. Len(s) : Numbers(s)[i] = s[i].n /\ s[i].n \in Nat
<1>1. /\ Len(s) \in Nat /\ DOMAIN s = 1 .. Len(s)
      /\ \A i \in 1 .. Len(s) : s[i] \in Packets
  BY LenProperties, ElementOfSeq
<1>2. \A i \in 1 .. Len(s) : s[i].n \in Nat
  BY <1>1 DEF Packets
<1>3. Numbers(s) = [i \in 1 .. Len(s) |-> s[i].n]
  BY <1>1 DEF Numbers
<1>4. Numbers(s) \in Seq(Nat) /\ Len(Numbers(s)) = Len(s)
  BY <1>1, <1>2, <1>3
<1> QED BY <1>1, <1>2, <1>3, <1>4

LEMMA NumbersAppend ==
  ASSUME NEW s \in Seq(Packets), NEW p \in Packets
  PROVE  Numbers(Append(s, p)) = Append(Numbers(s), p.n)
<1>1. /\ Append(s, p) \in Seq(Packets) /\ Len(Append(s, p)) = Len(s) + 1
      /\ \A i \in 1 .. Len(s) : Append(s, p)[i] = s[i]
      /\ Append(s, p)[Len(s) + 1] = p
  BY AppendProperties
<1>2. p.n \in Nat
  BY DEF Packets
<1>3. /\ Numbers(s) \in Seq(Nat) /\ Len(Numbers(s)) = Len(s) /\ Len(s) \in Nat
      /\ \A i \in 1 .. Len(s) : Numbers(s)[i] = s[i].n
  BY NumbersType
<1>4. /\ Append(Numbers(s), p.n) \in Seq(Nat)
      /\ Len(Append(Numbers(s), p.n)) = Len(s) + 1
      /\ \A i \in 1 .. Len(s) : Append(Numbers(s), p.n)[i] = s[i].n
      /\ Append(Numbers(s), p.n)[Len(s) + 1] = p.n
  BY <1>2, <1>3, AppendProperties
<1>5. /\ Numbers(Append(s, p)) \in Seq(Nat) /\ Len(Numbers(Append(s, p))) = Len(s) + 1
      /\ \A i \in 1 .. Len(s) + 1 : Numbers(Append(s, p))[i] = Append(s, p)[i].n
  BY <1>1, NumbersType
<1>6. ASSUME NEW i \in 1 .. Len(s) + 1
      PROVE  Numbers(Append(s, p))[i] = Append(Numbers(s), p.n)[i]
  <2>1. CASE i = Len(s) + 1
    BY <1>1, <1>4, <1>5, <2>1
  <2>2. CASE i # Len(s) + 1
    <3>1. i \in 1 .. Len(s)
      BY <1>3, <2>2
    <3> QED BY <1>1, <1>4, <1>5, <3>1
  <2> QED BY <2>1, <2>2
<1> QED BY <1>4, <1>5, <1>6, SeqEqual

LEMMA NumbersSubSeq ==
  ASSUME NEW s \in Seq(Packets), NEW m \in 1 .. Len(s) + 1, NEW n \in 0 .. Len(s)
  PROVE  Numbers(SubSeq(s, m, n)) = SubSeq(Numbers(s), m, n)
<1> DEFINE t == SubSeq(s, m, n)
           u == SubSeq(Numbers(s), m, n)
<1>1. /\ Numbers(s) \in Seq(Nat) /\ Len(Numbers(s)) = Len(s) /\ Len(s) \in Nat
      /\ \A i \in 1 .. Len(s) : Numbers(s)[i] = s[i].n /\ Numbers(s)[i] \in Nat
  BY NumbersType
<1>2. m \in Int /\ n \in Int /\ \A i \in m .. n : i \in 1 .. Len(s)
  BY <1>1
<1>3. \A i \in m .. n : s[i] \in Packets
  BY <1>2, ElementOfSeq
<1>4. /\ t \in Seq(Packets) /\ Len(t) = IF m <= n THEN n - m + 1 ELSE 0
      /\ \A i \in 1 .. n - m + 1 : t[i] = s[m + i - 1]
  BY <1>2, <1>3, SubSeqProperties
<1>5. /\ u \in Seq(Nat) /\ Len(u) = IF m <= n THEN n - m + 1 ELSE 0
      /\ \A i \in 1 .. n - m + 1 : u[i] = Numbers(s)[m + i - 1]
  BY <1>1, <1>2, SubSeqProperties
<1> HIDE DEF t, u
<1>6. /\ Numbers(t) \in Seq(Nat) /\ Len(Numbers(t)) = Len(u)
      /\ \A i \in 1 .. Len(u) : Numbers(t)[i] = t[i].n
  BY <1>4, <1>5, NumbersType
<1>7. ASSUME NEW i \in 1 .. Len(u) PROVE Numbers(t)[i] = u[i]
  <2>1. m <= n /\ i \in 1 .. n - m + 1 /\ m + i - 1 \in 1 .. Len(s)
    BY <1>1, <1>5
  <2> QED BY <1>1, <1>4, <1>5, <1>6, <2>1
<1>8. Numbers(t) = u
  BY <1>5, <1>6, <1>7, SeqEqual
<1> QED BY <1>8 DEF t, u

(* A record holds at least one packet, so a read callback has one to       *)
(* handle.                                                                 *)
NoEmptyRecord == \A c \in Conns : \A i \in 1 .. Len(down[c]) : down[c][i] # << >>
RpcInv == TypeOK /\ NoEmptyRecord

(* The steps of server and library together are steps of the server.       *)
LEMMA RpcStepIsStep == [RpcNext]_rpcVars => [Next]_vars
<1> SUFFICES ASSUME [RpcNext]_rpcVars PROVE Next \/ UNCHANGED vars
  OBVIOUS
<1>1. ASSUME NEW c \in Conns, ClientBevRead(c) PROVE Next
  BY <1>1 DEF ClientBevRead, Next, Peer
<1>2. ASSUME NEW t \in Types, Publish(t) PROVE Next
  BY <1>2 DEF Publish, Next, Server
<1>3. ASSUME NEW c \in Conns, PeerSends(c) PROVE Next
  BY <1>3 DEF PeerSends, Next, Peer
<1>4. CASE UNCHANGED rpcVars
  BY <1>4 DEF rpcVars
<1> QED BY <1>1, <1>2, <1>3, <1>4 DEF RpcNext, Next, Server

LEMMA NoEmptyStep ==
  ASSUME TypeOK, NoEmptyRecord, Next
  PROVE  NoEmptyRecord'
<1>1. down \in [Conns -> Seq(Seq(Packets))] /\ out \in [Conns -> Seq(Packets)]
  BY DEF TypeOK, SocketTypeOK
<1>2. CASE down' = down
  BY <1>2 DEF NoEmptyRecord
<1>3. ASSUME NEW c \in Conns, ServerFlush(c) PROVE NoEmptyRecord'
  <2>1. out[c] # << >> /\ down' = [down EXCEPT ![c] = Append(@, out[c])]
    BY <1>3 DEF ServerFlush, Flush
  <2>2. /\ Len(Append(down[c], out[c])) = Len(down[c]) + 1 /\ Len(down[c]) \in Nat
        /\ \A i \in 1 .. Len(down[c]) : Append(down[c], out[c])[i] = down[c][i]
        /\ Append(down[c], out[c])[Len(down[c]) + 1] = out[c]
    BY <1>1, AppendProperties, LenProperties
  <2>3. ASSUME NEW i \in 1 .. Len(down'[c]) PROVE down'[c][i] # << >>
    <3>1. down'[c] = Append(down[c], out[c])
      BY <1>1, <2>1
    <3>2. i \in 1 .. Len(down[c]) \/ i = Len(down[c]) + 1
      BY <2>2, <3>1
    <3> QED BY <2>1, <2>2, <3>1, <3>2 DEF NoEmptyRecord
  <2>4. ASSUME NEW d \in Conns, d # c PROVE down'[d] = down[d]
    BY <1>1, <2>1, <2>4
  <2> QED BY <2>3, <2>4 DEF NoEmptyRecord
<1>4. ASSUME NEW c \in Conns, PeerRead(c) PROVE NoEmptyRecord'
  <2>1. down[c] # << >> /\ down' = [down EXCEPT ![c] = Tail(@)]
    BY <1>4 DEF PeerRead
  <2>2. /\ down[c] \in Seq(Seq(Packets)) /\ Len(down[c]) \in Nat
        /\ Len(Tail(down[c])) = Len(down[c]) - 1
        /\ \A i \in 1 .. Len(Tail(down[c])) : Tail(down[c])[i] = down[c][i + 1]
    BY <1>1, <2>1, HeadTailProperties, LenProperties
  <2>3. ASSUME NEW i \in 1 .. Len(down'[c]) PROVE down'[c][i] # << >>
    <3>1. down'[c] = Tail(down[c])
      BY <1>1, <2>1
    <3>2. i + 1 \in 1 .. Len(down[c]) /\ down'[c][i] = down[c][i + 1]
      BY <2>2, <3>1
    <3> QED BY <3>2 DEF NoEmptyRecord
  <2>4. ASSUME NEW d \in Conns, d # c PROVE down'[d] = down[d]
    BY <1>1, <2>1, <2>4
  <2> QED BY <2>3, <2>4 DEF NoEmptyRecord
<1>5. CASE Process
  BY <1>2, <1>5 DEF Process, Listen, ProbeSucceeds, ProbeFails, HandleTermination,
     SystemdRestart, Exit, ProcessExit, sockVars
<1>6. CASE AcceptClient \/ \E t \in Types : BroadcastRaw(t)
  BY <1>2, <1>6 DEF AcceptClient, BroadcastRaw
<1>7. ASSUME NEW c \in Conns, BevRead(c) \/ BevEvent(c) PROVE NoEmptyRecord'
  BY <1>2, <1>7 DEF BevRead, UpdateBroadcastConfig, IgnorePacket, LoopFails, Exit,
     ProcessExit, BevEvent, ReleaseClient
<1>8. ASSUME NEW c \in Conns,
             PeerDial(c) \/ PeerHangUp(c) \/ \E req \in Requests : PeerSend(c, req)
      PROVE  NoEmptyRecord'
  BY <1>2, <1>8 DEF PeerDial, Dial, PeerHangUp, PeerClose, PeerSend, PeerWrite
<1> QED BY <1>3, <1>4, <1>5, <1>6, <1>7, <1>8 DEF Next, Server, Peer

LEMMA RpcInvInit == RpcInit => RpcInv
BY TypeInit DEF RpcInit, RpcInv, Init, SocketInit, NoEmptyRecord

LEMMA RpcInvStep == RpcInv /\ [RpcNext]_rpcVars => RpcInv'
<1> SUFFICES ASSUME RpcInv, [RpcNext]_rpcVars PROVE RpcInv'
  OBVIOUS
<1>1. [Next]_vars
  BY RpcStepIsStep
<1>2. CASE Next
  BY <1>1, <1>2, TypeStep, NoEmptyStep DEF RpcInv
<1>3. CASE UNCHANGED vars
  BY <1>1, <1>3, TypeStep DEF RpcInv, NoEmptyRecord, vars, sockVars
<1> QED BY <1>1, <1>2, <1>3

(* The packets in transit to a client: the kernel's records, then the      *)
(* server's output buffer.                                                 *)
InFlight(c) == Joined(down[c]) \o out[c]

LEMMA FlightTypes ==
  ASSUME TypeOK, NEW c \in Conns
  PROVE  /\ down[c] \in Seq(Seq(Packets)) /\ out[c] \in Seq(Packets)
         /\ Joined(down[c]) \in Seq(Packets)
         /\ InFlight(c) \in Seq(Packets)
         /\ InTransit(c) = Numbers(InFlight(c))
<1>1. down[c] \in Seq(Seq(Packets)) /\ out[c] \in Seq(Packets)
  BY DEF TypeOK, SocketTypeOK
<1>2. Joined(down[c]) \in Seq(Packets)
  BY <1>1, JoinedType
<1>3. InFlight(c) \in Seq(Packets)
  BY <1>1, <1>2, ConcatProperties DEF InFlight
<1> QED BY <1>1, <1>2, <1>3 DEF InFlight, InTransit

LEMMA FeedStart == RpcInit => Feed!FeedInit
<1> SUFFICES ASSUME RpcInit PROVE Feed!FeedInit
  OBVIOUS
<1>1. ASSUME NEW c \in Conns PROVE InTransit(c) = << >>
  <2>1. down[c] = << >> /\ out[c] = << >>
    BY DEF RpcInit, Init, SocketInit
  <2>2. Joined(down[c]) \o out[c] = << >>
    BY <2>1, JoinedEmpty, EmptySeq, ConcatEmptySeq
  <2>3. << >> \in Seq(Packets) /\ Len(<< >>) = 0
    BY EmptySeq
  <2>4. Numbers(<< >>) \in Seq(Nat) /\ Len(Numbers(<< >>)) = 0
    BY <2>3, NumbersType
  <2>5. Numbers(<< >>) = << >>
    BY <2>4, EmptySeq
  <2> QED BY <2>2, <2>5 DEF InTransit
<1> QED BY <1>1 DEF Feed!FeedInit, RpcInit, Init

(* broadcastRaw() publishes to the clients that want the type.             *)
LEMMA FeedPublish ==
  ASSUME RpcInv, NEW t \in Types, Publish(t)
  PROVE  Feed!FeedNext
<1> DEFINE p == [n |-> bcast', type |-> t]
<1>1. /\ bcast' = bcast + 1 /\ bcast \in Nat /\ UNCHANGED <<down, handled>>
      /\ \A c \in Conns : out'[c] = IF c \in Served /\ t \in wants[c]
                                   THEN Append(out[c], p) ELSE out[c]
  BY DEF Publish, BroadcastRaw, RpcInv, TypeOK
<1>2. PICK q \in Packets : q = p /\ q.n = bcast'
  BY <1>1 DEF Packets
<1> HIDE DEF p
<1>3. PICK S \in SUBSET Conns : S = {c \in Served : t \in wants[c]}
  BY DEF Served
<1>4. ASSUME NEW c \in Conns
      PROVE  InTransit(c)' = IF c \in S THEN Append(InTransit(c), bcast') ELSE InTransit(c)
  <2>1. CASE c \in S
    <3>1. InTransit(c)' = Numbers(Joined(down[c]) \o Append(out[c], q))
      BY <1>1, <1>2, <1>3, <2>1 DEF InTransit
    <3>2. Joined(down[c]) \in Seq(Packets) /\ out[c] \in Seq(Packets)
      BY FlightTypes DEF RpcInv
    <3>3. Joined(down[c]) \o Append(out[c], q) = Append(InFlight(c), q)
      <4>1. \A u, v \in Seq(Packets) : \A e \in Packets : u \o Append(v, e) = Append(u \o v, e)
        BY AppendToConcat
      <4> QED BY <3>2, <4>1 DEF InFlight
    <3>4. Numbers(Append(InFlight(c), q)) = Append(InTransit(c), q.n)
      BY FlightTypes, NumbersAppend DEF RpcInv
    <3> QED BY <1>2, <2>1, <3>1, <3>3, <3>4
  <2>2. CASE c \notin S
    <3>1. out'[c] = out[c]
      BY <1>1, <1>3, <2>2 DEF Served
    <3> QED BY <1>1, <2>2, <3>1 DEF InTransit
  <2> QED BY <2>1, <2>2
<1>5. Feed!Publish(S)
  BY <1>1, <1>4 DEF Feed!Publish
<1> QED BY <1>5 DEF Feed!FeedNext

(* One record for everything queued: nothing moves in the feed.            *)
LEMMA FeedFlush ==
  ASSUME RpcInv, NEW c \in Conns, ServerFlush(c), UNCHANGED handled
  PROVE  UNCHANGED Feed!feedVars
<1>1. /\ down \in [Conns -> Seq(Seq(Packets))] /\ out \in [Conns -> Seq(Packets)]
      /\ down' = [down EXCEPT ![c] = Append(@, out[c])]
      /\ out' = [out EXCEPT ![c] = << >>]
      /\ bcast' = bcast
  BY DEF ServerFlush, Flush, srvVars, RpcInv, TypeOK, SocketTypeOK
<1>2. ASSUME NEW d \in Conns
      PROVE  InTransit(d)' = InTransit(d)
  <2>1. CASE d = c
    <3>1. down'[d] = Append(down[c], out[c]) /\ out'[d] = << >>
      BY <1>1, <2>1
    <3>2. Joined(down'[d]) = InFlight(c)
      BY <3>1, FlightTypes, JoinedAppend DEF RpcInv, InFlight
    <3>3. InFlight(c) \o << >> = InFlight(c)
      BY FlightTypes, ConcatEmptySeq DEF RpcInv
    <3>4. InTransit(d)' = Numbers(InFlight(c) \o << >>)
      BY <3>1, <3>2 DEF InTransit
    <3> QED BY <2>1, <3>3, <3>4, FlightTypes DEF RpcInv
  <2>2. CASE d # c
    BY <1>1, <2>2 DEF InTransit
  <2> QED BY <2>1, <2>2
<1> QED BY <1>1, <1>2 DEF Feed!feedVars

(* The library handles the packet at the front of one record and drops the *)
(* rest of it.                                                             *)
LEMMA FeedRead ==
  ASSUME RpcInv, NEW c \in Conns, ClientBevRead(c)
  PROVE  Feed!FeedNext
<1> DEFINE h    == Head(down[c])
           rest == Joined(Tail(down[c])) \o out[c]
           all  == InFlight(c)
<1>1. /\ down \in [Conns -> Seq(Seq(Packets))] /\ out \in [Conns -> Seq(Packets)]
      /\ down[c] # << >>
      /\ down' = [down EXCEPT ![c] = Tail(@)]
      /\ handled' = [handled EXCEPT ![c] = Append(@, Head(h).n)]
      /\ UNCHANGED <<out, bcast>>
  BY DEF ClientBevRead, PeerRead, srvVars, RpcInv, TypeOK, SocketTypeOK
<1>2. /\ down[c] \in Seq(Seq(Packets)) /\ h \in Seq(Packets)
      /\ Tail(down[c]) \in Seq(Seq(Packets)) /\ out[c] \in Seq(Packets)
      /\ Len(down[c]) \in Nat \ {0} /\ h = down[c][1]
  BY <1>1, HeadTailProperties, EmptySeq
<1>3. h # << >>
  BY <1>2 DEF RpcInv, NoEmptyRecord
<1>4. Joined(Tail(down[c])) \in Seq(Packets) /\ rest \in Seq(Packets)
  BY <1>2, JoinedType, ConcatProperties
<1>5. all = h \o rest
  <2> DEFINE t == Joined(Tail(down[c]))
  <2>1. Joined(down[c]) = h \o t
    BY <1>1, <1>2, JoinedHead
  <2>2. h \in Seq(Packets) /\ t \in Seq(Packets) /\ out[c] \in Seq(Packets)
    BY <1>2, <1>4
  <2> HIDE DEF h, t
  <2>3. \A u, v, w \in Seq(Packets) : (u \o v) \o w = u \o (v \o w)
    BY ConcatAssociative
  <2>4. (h \o t) \o out[c] = h \o (t \o out[c])
    BY <2>2, <2>3
  <2> QED BY <2>1, <2>4 DEF t, InFlight
<1> HIDE DEF h, rest
<1>6. /\ all # << >> /\ Head(all) = Head(h) /\ Len(h) \in 1 .. Len(all)
      /\ SubSeq(all, Len(h) + 1, Len(all)) = rest
  <2>1. h \in Seq(Packets) /\ rest \in Seq(Packets)
    BY <1>2, <1>4
  <2>2. h \o rest # << >> /\ Head(h \o rest) = Head(h) /\ Len(h) \in 1 .. Len(h \o rest)
    BY <1>3, <2>1, HeadOfConcat
  <2>3. SubSeq(h \o rest, Len(h) + 1, Len(h \o rest)) = rest
    BY <2>1, BackOfConcat
  <2> QED BY <1>5, <2>2, <2>3
<1>7. all \in Seq(Packets) /\ InTransit(c) = Numbers(all)
  BY FlightTypes DEF RpcInv
<1> HIDE DEF all
<1>8. /\ Len(InTransit(c)) = Len(all) /\ InTransit(c) \in Seq(Nat)
      /\ InTransit(c) # << >> /\ Head(InTransit(c)) = Head(h).n
  <2>1. /\ Numbers(all) \in Seq(Nat) /\ Len(Numbers(all)) = Len(all) /\ Len(all) \in Nat
        /\ \A i \in 1 .. Len(all) : Numbers(all)[i] = all[i].n
    BY <1>7, NumbersType
  <2>2. 1 \in 1 .. Len(all) /\ Head(all) = all[1]
    BY <1>6, <1>7, <2>1
  <2>3. Numbers(all) # << >> /\ Head(Numbers(all)) = all[1].n
    BY <2>1, <2>2
  <2> QED BY <1>6, <1>7, <2>1, <2>2, <2>3
<1>9. SubSeq(InTransit(c), Len(h) + 1, Len(InTransit(c))) = Numbers(rest)
  <2>1. Len(all) \in 0 .. Len(all) /\ Len(h) + 1 \in 1 .. Len(all) + 1
    BY <1>6, <1>7, LenProperties
  <2> QED BY <1>6, <1>7, <1>8, <2>1, NumbersSubSeq
<1>10. ASSUME NEW d \in Conns
       PROVE  InTransit(d)' = IF d = c THEN Numbers(rest) ELSE InTransit(d)
  BY <1>1 DEF rest, InTransit
<1>11. Feed!Handle(c)
  BY <1>1, <1>6, <1>8, <1>9, <1>10 DEF Feed!Handle
<1> QED BY <1>11 DEF Feed!FeedNext

(* A release or an exit closes connections: the kernel's records stay, the *)
(* output buffer goes.                                                     *)
LEMMA FeedClose ==
  ASSUME RpcInv, UNCHANGED <<down, bcast, handled>>,
         \A c \in Conns : out'[c] \in {out[c], << >>}
  PROVE  Feed!FeedNext
<1>1. ASSUME NEW c \in Conns
      PROVE  \E k \in 0 .. Len(InTransit(c)) : InTransit(c)' = SubSeq(InTransit(c), 1, k)
  <2>1. InFlight(c) \in Seq(Packets) /\ InTransit(c) = Numbers(InFlight(c))
    BY FlightTypes DEF RpcInv
  <2>2. /\ InTransit(c) \in Seq(Nat) /\ Len(InTransit(c)) = Len(InFlight(c))
        /\ Len(InFlight(c)) \in Nat
    BY <2>1, NumbersType
  <2>3. CASE out'[c] = out[c]
    <3>1. InTransit(c)' = InTransit(c)
      BY <2>3 DEF InTransit
    <3>2. InTransit(c) = SubSeq(InTransit(c), 1, Len(InTransit(c)))
      BY <2>2, SubSeqFull
    <3>3. Len(InTransit(c)) \in 0 .. Len(InTransit(c))
      BY <2>2
    <3>4. \E k \in 0 .. Len(InTransit(c)) : InTransit(c) = SubSeq(InTransit(c), 1, k)
      BY <3>2, <3>3
    <3> QED BY <3>1, <3>4
  <2>4. CASE out'[c] = << >>
    <3> DEFINE k == Len(Joined(down[c]))
    <3>1. InTransit(c)' = Numbers(Joined(down[c]))
      BY <2>4, FlightTypes, ConcatEmptySeq DEF InTransit, RpcInv
    <3>2. k \in 0 .. Len(InFlight(c)) /\ SubSeq(InFlight(c), 1, k) = Joined(down[c])
      BY FlightTypes, FrontOfConcat DEF InFlight, RpcInv
    <3> HIDE DEF k
    <3>3. SubSeq(InTransit(c), 1, k) = Numbers(SubSeq(InFlight(c), 1, k))
      <4>1. 1 \in 1 .. Len(InFlight(c)) + 1
        BY <2>2
      <4> QED BY <2>1, <3>2, <4>1, NumbersSubSeq
    <3> QED BY <2>2, <3>1, <3>2, <3>3
  <2> QED BY <2>3, <2>4
<1>2. Feed!Hangup
  BY <1>1 DEF Feed!Hangup
<1> QED BY <1>2 DEF Feed!FeedNext

LEMMA FeedExit ==
  ASSUME RpcInv, NEW status, Exit(status), UNCHANGED handled
  PROVE  Feed!FeedNext
<1>1. \A c \in Conns : out'[c] \in {out[c], << >>}
  BY DEF Exit, ProcessExit, CloseServerEnds
<1> QED BY <1>1, FeedClose DEF Exit, ProcessExit

LEMMA FeedStutter ==
  ASSUME UNCHANGED <<down, out, bcast, handled>>
  PROVE  UNCHANGED Feed!feedVars
BY DEF Feed!feedVars, InTransit

LEMMA FeedStep == RpcInv /\ [RpcNext]_rpcVars => [Feed!FeedNext]_(Feed!feedVars)
<1> SUFFICES ASSUME RpcInv, [RpcNext]_rpcVars
             PROVE  Feed!FeedNext \/ UNCHANGED Feed!feedVars
  OBVIOUS
<1>1. ASSUME NEW c \in Conns, ClientBevRead(c)
      PROVE  Feed!FeedNext
  BY <1>1, FeedRead
<1>2. ASSUME NEW t \in Types, Publish(t)
      PROVE  Feed!FeedNext
  BY <1>2, FeedPublish
<1>3. ASSUME Process, UNCHANGED handled
      PROVE  Feed!FeedNext \/ UNCHANGED Feed!feedVars
  BY <1>3, FeedExit, FeedStutter
     DEF Process, Listen, ProbeSucceeds, ProbeFails, HandleTermination, SystemdRestart, sockVars
<1>4. ASSUME AcceptClient, UNCHANGED handled
      PROVE  UNCHANGED Feed!feedVars
  BY <1>4, FeedStutter DEF AcceptClient
<1>5. ASSUME NEW c \in Conns, BevRead(c), UNCHANGED handled
      PROVE  Feed!FeedNext \/ UNCHANGED Feed!feedVars
  BY <1>5, FeedExit, FeedStutter DEF BevRead, UpdateBroadcastConfig, IgnorePacket, LoopFails
<1>6. ASSUME NEW c \in Conns, BevEvent(c), UNCHANGED handled
      PROVE  Feed!FeedNext
  <2>1. \A d \in Conns : out'[d] \in {out[d], << >>}
    BY <1>6 DEF BevEvent, ReleaseClient, CloseServerEnds
  <2> QED BY <1>6, <2>1, FeedClose DEF BevEvent, ReleaseClient
<1>7. ASSUME NEW c \in Conns, ServerFlush(c), UNCHANGED handled
      PROVE  UNCHANGED Feed!feedVars
  BY <1>7, FeedFlush
<1>8. ASSUME NEW c \in Conns, PeerSends(c), UNCHANGED handled
      PROVE  UNCHANGED Feed!feedVars
  BY <1>8, FeedStutter
     DEF PeerSends, PeerDial, Dial, PeerHangUp, PeerClose, PeerSend, PeerWrite, srvVars
<1>9. CASE UNCHANGED rpcVars
  BY <1>9, FeedStutter DEF rpcVars, vars, sockVars, srvVars
<1> QED BY <1>1, <1>2, <1>3, <1>4, <1>5, <1>6, <1>7, <1>8, <1>9 DEF RpcNext

(* pinballd and its clients' library implement the event feed, whatever    *)
(* the sizes of the records, the descriptors and the restarts: a client    *)
(* handles each broadcast at most once, and in order.                      *)
THEOREM FeedImplemented == RpcSpec => ImplementsFeed
<1> QED BY RpcInvInit, RpcInvStep, FeedStart, FeedStep, PTL
        DEF RpcSpec, ImplementsFeed, Feed!FeedSpec

(* What a client was given and what is on its way to it are in the order   *)
(* they were published.                                                    *)
HandledInOrder ==
  \A c \in Conns : \A i, j \in 1 .. Len(handled[c]) : i < j => handled[c][i] < handled[c][j]

OrderInv ==
  /\ handled = [c \in Conns |-> handled[c]]
  /\ \A c \in Conns : FeedOrder(handled[c], InTransit(c), bcast)

LEMMA OrderInvInit == Feed!FeedInit => OrderInv
<1> SUFFICES ASSUME Feed!FeedInit PROVE OrderInv
  OBVIOUS
<1>1. /\ bcast = 0 /\ handled = [c \in Conns |-> << >>]
      /\ [c \in Conns |-> InTransit(c)] = [c \in Conns |-> << >>]
  BY DEF Feed!FeedInit
<1>2. ASSUME NEW c \in Conns PROVE handled[c] = << >> /\ InTransit(c) = << >>
  <2>1. [d \in Conns |-> InTransit(d)][c] = << >>
    BY <1>1
  <2> QED BY <1>1, <2>1
<1> QED BY <1>1, <1>2, OrderStart DEF OrderInv

LEMMA OrderInvStep == OrderInv /\ [Feed!FeedNext]_(Feed!feedVars) => OrderInv'
<1> SUFFICES ASSUME OrderInv, [Feed!FeedNext]_(Feed!feedVars) PROVE OrderInv'
  OBVIOUS
<1> DEFINE flight == [c \in Conns |-> InTransit(c)]
<1>1. /\ handled = [c \in Conns |-> handled[c]]
      /\ \A c \in Conns : FeedOrder(handled[c], flight[c], bcast)
  BY DEF OrderInv
<1>2. SUFFICES /\ handled' = [c \in Conns |-> handled'[c]]
               /\ \A c \in Conns : FeedOrder(handled'[c], flight'[c], bcast')
  BY DEF OrderInv
<1>3. ASSUME NEW S \in SUBSET Conns, Feed!Publish(S)
      PROVE  \A c \in Conns : FeedOrder(handled'[c], flight'[c], bcast')
  <2> TAKE c \in Conns
  <2>1. /\ bcast' = bcast + 1 /\ handled' = handled
        /\ flight' = [d \in Conns |-> IF d \in S THEN Append(flight[d], bcast') ELSE flight[d]]
    BY <1>3 DEF Feed!Publish
  <2> HIDE DEF flight
  <2>2. flight'[c] = IF c \in S THEN Append(flight[c], bcast + 1) ELSE flight[c]
    BY <2>1
  <2> QED BY <1>1, <2>1, <2>2, OrderPublish, OrderLater
<1>4. ASSUME NEW c \in Conns, Feed!Handle(c)
      PROVE  /\ handled' = [d \in Conns |-> handled'[d]]
             /\ \A d \in Conns : FeedOrder(handled'[d], flight'[d], bcast')
  <2>1. /\ flight[c] # << >> /\ bcast' = bcast
        /\ handled' = [handled EXCEPT ![c] = Append(@, Head(flight[c]))]
    BY <1>4 DEF Feed!Handle
  <2>2. PICK k \in 1 .. Len(flight[c]) :
          flight' = [flight EXCEPT ![c] = SubSeq(@, k + 1, Len(@))]
    BY <1>4 DEF Feed!Handle
  <2>3. flight = [d \in Conns |-> flight[d]]
    OBVIOUS
  <2> HIDE DEF flight
  <2>4. ASSUME NEW d \in Conns PROVE FeedOrder(handled'[d], flight'[d], bcast')
    <3>1. CASE d = c
      <4>1. /\ handled'[c] = Append(handled[c], Head(flight[c]))
            /\ flight'[c] = SubSeq(flight[c], k + 1, Len(flight[c]))
        BY <1>1, <2>1, <2>2, <2>3
      <4> QED BY <1>1, <2>1, <3>1, <4>1, OrderHandle
    <3>2. CASE d # c
      <4>1. handled'[d] = handled[d] /\ flight'[d] = flight[d]
        BY <1>1, <2>1, <2>2, <2>3, <3>2
      <4> QED BY <1>1, <2>1, <4>1
    <3> QED BY <3>1, <3>2
  <2>5. handled' = [d \in Conns |-> handled'[d]]
    BY <1>1, <2>1
  <2> QED BY <2>4, <2>5
<1>5. ASSUME Feed!Hangup
      PROVE  \A c \in Conns : FeedOrder(handled'[c], flight'[c], bcast')
  <2> TAKE c \in Conns
  <2>1. /\ bcast' = bcast /\ handled' = handled
        /\ \E k \in 0 .. Len(flight[c]) : flight'[c] = SubSeq(flight[c], 1, k)
    BY <1>5 DEF Feed!Hangup
  <2> HIDE DEF flight
  <2> QED BY <1>1, <2>1, OrderHangup
<1>6. CASE UNCHANGED Feed!feedVars
  BY <1>1, <1>6 DEF Feed!feedVars
<1>7. handled' = handled => handled' = [c \in Conns |-> handled'[c]]
  BY <1>1
<1> HIDE DEF flight
<1>8. \A S \in SUBSET Conns : Feed!Publish(S) => handled' = handled
  BY DEF Feed!Publish
<1>9. Feed!Hangup => handled' = handled
  BY DEF Feed!Hangup
<1> QED BY <1>1, <1>3, <1>4, <1>5, <1>6, <1>7, <1>8, <1>9 DEF Feed!FeedNext

(* What the feed is for: however pinballd packs its broadcasts into        *)
(* records, and whatever becomes of the connections, no client handles     *)
(* one twice or out of order.                                              *)
THEOREM BroadcastsInOrder == RpcSpec => []HandledInOrder
<1>1. RpcInit => OrderInv
  BY FeedStart, OrderInvInit
<1>2. RpcInv /\ OrderInv /\ [RpcNext]_rpcVars => OrderInv'
  BY FeedStep, OrderInvStep
<1>3. OrderInv => HandledInOrder
  BY DEF OrderInv, HandledInOrder, FeedOrder
<1> QED BY RpcInvInit, RpcInvStep, <1>1, <1>2, <1>3, PTL DEF RpcSpec
==============================================================================
