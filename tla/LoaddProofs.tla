----------------------------- MODULE LoaddProofs -----------------------------
(***************************************************************************)
(* loadd, in two parts.  Its RPC server, for any number of clients,        *)
(* addresses, record sizes and packets of the M4: type correctness, the    *)
(* client map, the promise to clients that only listen, and the event feed *)
(* it implements with its clients' library.  Its way from main() to exit,  *)
(* for any number of kills: the M4 is left offline, and the loop entered   *)
(* with both channels in place.                                            *)
(***************************************************************************)
EXTENDS LoaddServer, LoaddBoot, InductionLemmas


(***************************************************************************)
(* Type correctness                                                        *)
(***************************************************************************)
(* A record holds at least one packet; so a client that reads one has a    *)
(* packet to handle.                                                       *)
Numbers == 1 .. MaxBcast
NoEmptyRecord == \A c \in Conns : \A i \in 1 .. Len(down[c]) : down[c][i] # << >>
TypeInv == TypeOK /\ NoEmptyRecord

LEMMA TypeInit == Init => TypeInv
<1> SUFFICES ASSUME Init PROVE TypeOK /\ NoEmptyRecord
  BY DEF TypeInv
<1>1. SocketTypeOK(Sizes, Numbers)
  BY EmptySeq DEF Init, SocketInit, SocketTypeOK
<1>2. TypeOK
  BY <1>1, EmptySeq, LoaddAssumption DEF Init, TypeOK, Numbers
<1>3. NoEmptyRecord
  BY DEF Init, SocketInit, NoEmptyRecord
<1> QED BY <1>2, <1>3

LEMMA EraseType ==
  ASSUME TypeInv, NEW c \in Conns, EraseClient(c)
  PROVE  TypeInv'
<1>1. << >> \in Seq(1 .. MaxBcast) /\ 0 \in 0 .. Header - 1
  BY EmptySeq, LoaddAssumption
<1>2. /\ servEnd' \in [Conns -> {"none", "queued", "open", "closed"}]
      /\ out' \in [Conns -> Seq(1 .. MaxBcast)]
  BY <1>1 DEF TypeInv, TypeOK, SocketTypeOK, EraseClient, CloseServerEnds
<1>3. /\ clients' \in [Bevs -> Conns \cup {NoConn}]
      /\ bev' \in [Conns -> Bevs \cup {NoBev}]
      /\ inBuf' \in [Conns -> 0 .. Header - 1]
  BY <1>1 DEF TypeInv, TypeOK, EraseClient
<1>4. UNCHANGED <<dialled, peerEnd, up, down, running, rpmsg, bcast, handled>>
  BY DEF EraseClient, m4Vars
<1> QED BY <1>2, <1>3, <1>4 DEF TypeInv, TypeOK, SocketTypeOK, NoEmptyRecord

LEMMA ReadType ==
  ASSUME TypeInv, NEW c \in Conns, HandleClientRead(c)
  PROVE  TypeInv'
<1>1. CASE EraseClient(c)
  BY <1>1, EraseType
<1>2. CASE ~EraseClient(c)
  <2>1. up[c] \in Seq(Sizes) /\ up[c] # << >>
    BY DEF TypeInv, TypeOK, SocketTypeOK, HandleClientRead, Readable
  <2>2. Head(up[c]) \in Nat /\ Tail(up[c]) \in Seq(Sizes)
    BY <2>1, HeadTailProperties, LoaddAssumption
  <2>3. /\ inBuf[c] + Head(up[c]) < Header
        /\ inBuf' = [inBuf EXCEPT ![c] = @ + Head(up[c])]
        /\ up' = [up EXCEPT ![c] = Tail(@)]
        /\ UNCHANGED <<dialled, peerEnd, servEnd, down, out, running, clients, bev,
                       rpmsg, bcast, handled>>
    BY <1>2 DEF HandleClientRead, m4Vars
  <2>4. inBuf[c] + Head(up[c]) \in 0 .. Header - 1
    BY <2>2, <2>3, LoaddAssumption DEF TypeInv, TypeOK
  <2>5. inBuf' \in [Conns -> 0 .. Header - 1] /\ up' \in [Conns -> Seq(Sizes)]
    BY <2>2, <2>3, <2>4 DEF TypeInv, TypeOK, SocketTypeOK
  <2> QED BY <2>3, <2>5 DEF TypeInv, TypeOK, SocketTypeOK, NoEmptyRecord
<1> QED BY <1>1, <1>2

LEMMA AcceptType == TypeInv /\ AcceptClient => TypeInv'
<1> SUFFICES ASSUME TypeInv, AcceptClient PROVE TypeInv'
  OBVIOUS
<1>1. Head(dialled) \in Conns /\ Tail(dialled) \in Seq(Conns)
  BY HeadTailProperties DEF AcceptClient, TypeInv, TypeOK, SocketTypeOK
<1>2. /\ dialled' \in Seq(Conns)
      /\ servEnd' \in [Conns -> {"none", "queued", "open", "closed"}]
  BY <1>1 DEF AcceptClient, TypeInv, TypeOK, SocketTypeOK
<1>3. /\ clients' \in [Bevs -> Conns \cup {NoConn}]
      /\ bev' \in [Conns -> Bevs \cup {NoBev}]
  <2>1. clients \in [Bevs -> Conns \cup {NoConn}] /\ bev \in [Conns -> Bevs \cup {NoBev}]
    BY DEF TypeInv, TypeOK
  <2>2. FreeBevs \subseteq Bevs
    BY DEF FreeBevs
  <2> QED BY <1>1, <2>1, <2>2 DEF AcceptClient
<1>4. UNCHANGED <<peerEnd, up, down, out, running, inBuf, m4Vars, handled>>
  BY DEF AcceptClient
<1> QED BY <1>2, <1>3, <1>4 DEF TypeInv, TypeOK, SocketTypeOK, NoEmptyRecord, m4Vars

LEMMA FlushType ==
  ASSUME TypeInv, NEW c \in Conns, ServerFlush(c)
  PROVE  TypeInv'
<1>1. /\ down[c] \in Seq(Seq(Numbers)) /\ out[c] \in Seq(Numbers) /\ out[c] # << >>
      /\ down' = [down EXCEPT ![c] = Append(@, out[c])]
      /\ out' = [out EXCEPT ![c] = << >>]
      /\ UNCHANGED <<dialled, peerEnd, servEnd, up, running, clients, bev, inBuf,
                     rpmsg, bcast, handled>>
      /\ down \in [Conns -> Seq(Seq(Numbers))] /\ out \in [Conns -> Seq(Numbers)]
  BY DEF ServerFlush, Flush, srvVars, m4Vars, TypeInv, TypeOK, SocketTypeOK, Numbers
<1>2. /\ Append(down[c], out[c]) \in Seq(Seq(Numbers))
      /\ \A i \in 1 .. Len(Append(down[c], out[c])) :
           \/ i \in 1 .. Len(down[c]) /\ Append(down[c], out[c])[i] = down[c][i]
           \/ Append(down[c], out[c])[i] = out[c]
  BY <1>1, AppendProperties, LenProperties
<1>3. down' \in [Conns -> Seq(Seq(Numbers))] /\ out' \in [Conns -> Seq(Numbers)]
  BY <1>1, <1>2, EmptySeq
<1>4. NoEmptyRecord'
  <2>1. ASSUME NEW d \in Conns, NEW i \in 1 .. Len(down'[d]) PROVE down'[d][i] # << >>
    <3>1. CASE d = c
      BY <1>1, <1>2, <2>1, <3>1 DEF TypeInv, NoEmptyRecord
    <3>2. CASE d # c
      BY <1>1, <2>1, <3>2 DEF TypeInv, NoEmptyRecord
    <3> QED BY <3>1, <3>2
  <2> QED BY <2>1 DEF NoEmptyRecord
<1> QED BY <1>1, <1>3, <1>4 DEF TypeInv, TypeOK, SocketTypeOK, Numbers

LEMMA ClientReadType ==
  ASSUME TypeInv, NEW c \in Conns, ClientBevRead(c)
  PROVE  TypeInv'
<1>1. /\ down[c] \in Seq(Seq(Numbers)) /\ down[c] # << >> /\ handled[c] \in Seq(Numbers)
      /\ down' = [down EXCEPT ![c] = Tail(@)]
      /\ handled' = [handled EXCEPT ![c] = Append(@, Head(Head(down[c])))]
      /\ UNCHANGED <<dialled, peerEnd, servEnd, up, out, running, clients, bev, inBuf,
                     rpmsg, bcast>>
      /\ down \in [Conns -> Seq(Seq(Numbers))] /\ handled \in [Conns -> Seq(Numbers)]
  BY DEF ClientBevRead, srvVars, m4Vars, TypeInv, TypeOK, SocketTypeOK, Numbers
<1>2. /\ Tail(down[c]) \in Seq(Seq(Numbers))
      /\ Len(Tail(down[c])) = Len(down[c]) - 1 /\ Len(down[c]) \in Nat \ {0}
      /\ \A i \in 1 .. Len(Tail(down[c])) : Tail(down[c])[i] = down[c][i + 1]
      /\ Head(down[c]) \in Seq(Numbers) /\ Head(down[c]) = down[c][1]
  BY <1>1, HeadTailProperties, EmptySeq
<1>3. Head(Head(down[c])) \in Numbers
  <2>1. Head(down[c]) # << >>
    BY <1>2 DEF TypeInv, NoEmptyRecord
  <2> QED BY <1>2, <2>1, HeadTailProperties
<1>4. /\ down' \in [Conns -> Seq(Seq(Numbers))]
      /\ handled' \in [Conns -> Seq(Numbers)]
  BY <1>1, <1>2, <1>3, AppendProperties
<1>5. NoEmptyRecord'
  <2>1. ASSUME NEW d \in Conns, NEW i \in 1 .. Len(down'[d]) PROVE down'[d][i] # << >>
    <3>1. CASE d = c
      <4>1. i + 1 \in 1 .. Len(down[c]) /\ down'[d][i] = down[c][i + 1]
        BY <1>1, <1>2, <2>1, <3>1
      <4> QED BY <4>1 DEF TypeInv, NoEmptyRecord
    <3>2. CASE d # c
      BY <1>1, <2>1, <3>2 DEF TypeInv, NoEmptyRecord
    <3> QED BY <3>1, <3>2
  <2> QED BY <2>1 DEF NoEmptyRecord
<1> QED BY <1>1, <1>4, <1>5 DEF TypeInv, TypeOK, SocketTypeOK, Numbers

LEMMA RpmsgType ==
  ASSUME TypeInv, HandleRpmsgRead
  PROVE  TypeInv'
<1>1. Tail(rpmsg) \in Seq(M4Packets)
  BY HeadTailProperties DEF HandleRpmsgRead, TypeInv, TypeOK
<1>2. bcast' \in 0 .. MaxBcast /\ out' \in [Conns -> Seq(Numbers)]
  <2>1. CASE UNCHANGED <<bcast, out>>
    BY <2>1 DEF TypeInv, TypeOK, SocketTypeOK, Numbers
  <2>2. CASE bcast < MaxBcast /\ bcast' = bcast + 1 /\ BroadcastPacket
    <3>1. bcast + 1 \in Numbers /\ bcast + 1 \in 0 .. MaxBcast
      BY <2>2, LoaddAssumption DEF TypeInv, TypeOK, Numbers
    <3>2. \A c \in Conns : out[c] \in Seq(Numbers) /\ Append(out[c], bcast + 1) \in Seq(Numbers)
      BY <3>1, AppendProperties DEF TypeInv, TypeOK, SocketTypeOK, Numbers
    <3> QED BY <2>2, <3>1, <3>2 DEF BroadcastPacket
  <2> QED BY <2>1, <2>2 DEF HandleRpmsgRead
<1> QED BY <1>1, <1>2 DEF HandleRpmsgRead, TypeInv, TypeOK, SocketTypeOK, NoEmptyRecord,
           Numbers, srvVars

LEMMA TerminationType ==
  ASSUME TypeInv, HandleTermination
  PROVE  TypeInv'
<1>1. << >> \in Seq(1 .. MaxBcast) /\ << >> \in Seq(Conns) /\ << >> \in Seq(M4Packets)
      /\ 0 \in 0 .. Header - 1
  BY EmptySeq, LoaddAssumption
<1>2. /\ servEnd' \in [Conns -> {"none", "queued", "open", "closed"}]
      /\ out' \in [Conns -> Seq(1 .. MaxBcast)]
  BY <1>1 DEF TypeInv, TypeOK, SocketTypeOK, HandleTermination, ProcessExit, CloseServerEnds
<1> QED BY <1>1, <1>2 DEF HandleTermination, ProcessExit, TypeInv, TypeOK, SocketTypeOK,
           NoEmptyRecord

LEMMA OthersType == TypeInv /\ Others => TypeInv'
<1> SUFFICES ASSUME TypeInv, Others PROVE TypeInv'
  OBVIOUS
<1>1. ASSUME NEW p \in M4Packets, M4Sends(p) PROVE TypeInv'
  <2>1. Append(rpmsg, p) \in Seq(M4Packets)
    BY AppendProperties DEF TypeInv, TypeOK
  <2> QED BY <1>1, <2>1 DEF M4Sends, TypeInv, TypeOK, SocketTypeOK, NoEmptyRecord,
             sockVars, srvVars
<1>2. ASSUME NEW c \in Conns, PeerDial(c) PROVE TypeInv'
  <2>1. Append(dialled, c) \in Seq(Conns)
    BY AppendProperties DEF TypeInv, TypeOK, SocketTypeOK
  <2> QED BY <1>2, <2>1 DEF PeerDial, Dial, TypeInv, TypeOK, SocketTypeOK, NoEmptyRecord,
             srvVars, m4Vars
<1>3. ASSUME NEW c \in Conns, PeerHangUp(c) PROVE TypeInv'
  BY <1>3 DEF PeerHangUp, PeerClose, TypeInv, TypeOK, SocketTypeOK, NoEmptyRecord,
     srvVars, m4Vars
<1>4. ASSUME NEW c \in Conns, NEW n \in Sizes, PeerSend(c, n) PROVE TypeInv'
  <2>1. Append(up[c], n) \in Seq(Sizes)
    BY AppendProperties DEF TypeInv, TypeOK, SocketTypeOK
  <2> QED BY <1>4, <2>1 DEF PeerSend, PeerWrite, TypeInv, TypeOK, SocketTypeOK, NoEmptyRecord,
             srvVars, m4Vars
<1> QED BY <1>1, <1>2, <1>3, <1>4, ClientReadType DEF Others

LEMMA TypeStep == TypeInv /\ [Next]_vars => TypeInv'
<1> SUFFICES ASSUME TypeInv, [Next]_vars PROVE TypeInv'
  OBVIOUS
<1>1. CASE Others
  BY <1>1, OthersType
<1>2. CASE AcceptClient
  BY <1>2, AcceptType
<1>3. CASE HandleTermination
  BY <1>3, TerminationType
<1>4. CASE HandleRpmsgRead
  BY <1>4, RpmsgType
<1>5. ASSUME NEW c \in Conns, HandleClientRead(c) PROVE TypeInv'
  BY <1>5, ReadType
<1>6. ASSUME NEW c \in Conns, HandleClientEvent(c) PROVE TypeInv'
  BY <1>6, EraseType DEF HandleClientEvent
<1>7. ASSUME NEW c \in Conns, ServerFlush(c) PROVE TypeInv'
  BY <1>7, FlushType
<1>8. CASE UNCHANGED vars
  BY <1>8 DEF vars, sockVars, srvVars, m4Vars, TypeInv, TypeOK, SocketTypeOK, NoEmptyRecord
<1> QED BY <1>1, <1>2, <1>3, <1>4, <1>5, <1>6, <1>7, <1>8 DEF Next, Server

(* Every table, queue and input buffer of the server keeps its type; in    *)
(* particular what waits below the watermark never reaches it.             *)
THEOREM TypeCorrect == Spec => []TypeOK
<1>1. TypeInv => TypeOK
  BY DEF TypeInv
<1> QED BY TypeInit, TypeStep, <1>1, PTL DEF Spec

(***************************************************************************)
(* The client map                                                          *)
(***************************************************************************)
(* What ClientTable needs to be inductive: connections in the backlog are  *)
(* there once and not yet open, one never dialled has no server's end, and *)
(* only an open one has a bufferevent.                                     *)
Backlogged ==
  /\ \A i \in 1 .. Len(dialled) : servEnd[dialled[i]] = "queued"
  /\ \A i, j \in 1 .. Len(dialled) : dialled[i] = dialled[j] => i = j
  /\ \A c \in Conns : peerEnd[c] = "unused" => servEnd[c] = "none"
  /\ \A c \in Conns : bev[c] # NoBev => servEnd[c] = "open"

TableInv == TypeInv /\ Backlogged /\ ClientTable

LEMMA TableInit == Init => TableInv
<1> SUFFICES ASSUME Init PROVE Backlogged /\ ClientTable
  BY TypeInit DEF TableInv
<1>1. Backlogged
  BY DEF Init, SocketInit, Backlogged
<1>2. ClientTable
  BY DEF Init, SocketInit, ClientTable, Served
<1> QED BY <1>1, <1>2

(* Steps that touch neither the map nor the server's ends.                 *)
LEMMA TableUnchanged ==
  ASSUME TableInv, UNCHANGED <<dialled, servEnd, clients, bev>>,
         \A c \in Conns : peerEnd'[c] = "unused" => peerEnd[c] = "unused"
  PROVE  Backlogged' /\ ClientTable'
<1>1. Backlogged'
  BY DEF TableInv, Backlogged
<1>2. ClientTable'
  BY DEF TableInv, ClientTable, Served
<1> QED BY <1>1, <1>2

LEMMA TableTermination ==
  ASSUME TableInv, HandleTermination
  PROVE  Backlogged' /\ ClientTable'
<1>1. /\ dialled' = << >> /\ UNCHANGED peerEnd
      /\ \A c \in Conns : servEnd[c] = "none" => servEnd'[c] = "none"
      /\ clients' = [b \in Bevs |-> NoConn] /\ bev' = [c \in Conns |-> NoBev]
  BY DEF HandleTermination, ProcessExit, CloseServerEnds
<1>2. Backlogged'
  BY <1>1 DEF TableInv, Backlogged
<1>3. ClientTable'
  BY <1>1 DEF ClientTable, Served
<1> QED BY <1>2, <1>3

LEMMA TableDial ==
  ASSUME TableInv, NEW c \in Conns, PeerDial(c)
  PROVE  Backlogged' /\ ClientTable'
<1>1. /\ dialled \in Seq(Conns) /\ dialled' = Append(dialled, c)
      /\ servEnd[c] = "none" /\ servEnd' = [servEnd EXCEPT ![c] = "queued"]
      /\ servEnd \in [Conns -> {"none", "queued", "open", "closed"}]
      /\ peerEnd \in [Conns -> {"unused", "open", "closed"}]
      /\ peerEnd' = [peerEnd EXCEPT ![c] = "open"]
      /\ UNCHANGED <<clients, bev>>
  BY DEF TableInv, TypeInv, TypeOK, SocketTypeOK, Backlogged, PeerDial, Dial, srvVars
<1>2. /\ Len(dialled) \in Nat
      /\ Len(dialled') = Len(dialled) + 1
      /\ \A i \in 1 .. Len(dialled) : dialled'[i] = dialled[i] /\ dialled[i] \in Conns
      /\ dialled'[Len(dialled) + 1] = c
  BY <1>1, AppendProperties, LenProperties, ElementOfSeq
<1>3. \A i \in 1 .. Len(dialled) : dialled[i] # c
  BY <1>1 DEF TableInv, Backlogged
<1>4. \A i \in 1 .. Len(dialled') : i \in 1 .. Len(dialled) \/ i = Len(dialled) + 1
  BY <1>2
<1>5. bev[c] = NoBev
  BY <1>1 DEF TableInv, Backlogged
<1>6. Backlogged'
  <2>1. \A i \in 1 .. Len(dialled') : servEnd'[dialled'[i]] = "queued"
    BY <1>1, <1>2, <1>4 DEF TableInv, Backlogged
  <2>2. \A i, j \in 1 .. Len(dialled') : dialled'[i] = dialled'[j] => i = j
    BY <1>2, <1>3, <1>4 DEF TableInv, Backlogged
  <2>3. \A d \in Conns : peerEnd'[d] = "unused" => servEnd'[d] = "none"
    BY <1>1 DEF TableInv, Backlogged
  <2>4. \A d \in Conns : bev'[d] # NoBev => servEnd'[d] = "open"
    BY <1>1, <1>5 DEF TableInv, Backlogged
  <2> QED BY <2>1, <2>2, <2>3, <2>4 DEF Backlogged
<1>7. Served' = Served
  BY <1>1, <1>5 DEF Served
<1>8. ClientTable'
  BY <1>1, <1>7 DEF TableInv, ClientTable
<1> QED BY <1>6, <1>8

(* The accepted connection gets an address no client of the map has, or,   *)
(* if its Client was never built, none.                                    *)
LEMMA TableAccept ==
  ASSUME TableInv, AcceptClient
  PROVE  Backlogged' /\ ClientTable'
<1> DEFINE c == Head(dialled)
<1>1. /\ c \in Conns /\ c = dialled[1] /\ dialled' = Tail(dialled)
      /\ Len(dialled) \in Nat \ {0} /\ Len(dialled') = Len(dialled) - 1
      /\ \A i \in 1 .. Len(dialled') : dialled'[i] = dialled[i + 1]
  BY HeadTailProperties, EmptySeq DEF AcceptClient, TableInv, TypeInv, TypeOK, SocketTypeOK
<1>2. /\ servEnd' = [servEnd EXCEPT ![c] = "open"]
      /\ peerEnd' = peerEnd
      /\ \/ \E b \in FreeBevs : clients' = [clients EXCEPT ![b] = c]
                               /\ bev' = [bev EXCEPT ![c] = b]
         \/ clients' = clients /\ bev' = bev
  BY DEF AcceptClient
<1>3. /\ servEnd \in [Conns -> {"none", "queued", "open", "closed"}]
      /\ clients \in [Bevs -> Conns \cup {NoConn}]
      /\ bev \in [Conns -> Bevs \cup {NoBev}]
      /\ NoConn \notin Conns /\ NoBev \notin Bevs
  BY LoaddAssumption DEF TableInv, TypeInv, TypeOK, SocketTypeOK
<1>4. servEnd[c] = "queued" /\ bev[c] = NoBev
  BY <1>1 DEF TableInv, Backlogged
<1>5. \A i \in 1 .. Len(dialled) : dialled[i] \in Conns
  BY ElementOfSeq DEF TableInv, TypeInv, TypeOK, SocketTypeOK
<1> HIDE DEF c
<1>6. Backlogged'
  <2>1. ASSUME NEW i \in 1 .. Len(dialled') PROVE servEnd'[dialled'[i]] = "queued"
    <3>1. i + 1 \in 1 .. Len(dialled) /\ 1 \in 1 .. Len(dialled) /\ i + 1 # 1
      BY <1>1
    <3>2. dialled[i + 1] # c /\ servEnd[dialled[i + 1]] = "queued"
      BY <3>1, <1>1 DEF TableInv, Backlogged
    <3> QED BY <1>1, <1>2, <1>3, <1>5, <3>1, <3>2
  <2>2. ASSUME NEW i \in 1 .. Len(dialled'), NEW j \in 1 .. Len(dialled'),
               dialled'[i] = dialled'[j]
        PROVE  i = j
    <3>1. i + 1 \in 1 .. Len(dialled) /\ j + 1 \in 1 .. Len(dialled)
      BY <1>1
    <3>2. i + 1 = j + 1
      BY <1>1, <2>2, <3>1 DEF TableInv, Backlogged
    <3> QED BY <3>2
  <2>3. \A d \in Conns : peerEnd'[d] = "unused" => servEnd'[d] = "none"
    BY <1>1, <1>2, <1>3, <1>4 DEF TableInv, Backlogged
  <2>4. \A d \in Conns : bev'[d] # NoBev => servEnd'[d] = "open"
    BY <1>1, <1>2, <1>3 DEF TableInv, Backlogged
  <2> QED BY <2>1, <2>2, <2>3, <2>4 DEF Backlogged
<1>7. ClientTable'
  <2>1. CASE clients' = clients /\ bev' = bev
    <3>1. Served' = Served
      BY <1>1, <1>2, <1>3, <1>4, <2>1 DEF Served
    <3> QED BY <2>1, <3>1 DEF TableInv, ClientTable
  <2>2. ASSUME NEW b \in FreeBevs, clients' = [clients EXCEPT ![b] = c],
               bev' = [bev EXCEPT ![c] = b]
        PROVE  ClientTable'
    <3>1. b \in Bevs /\ clients[b] = NoConn
      BY <1>3 DEF FreeBevs, TableInv, ClientTable
    <3>2. Served' = Served \cup {c}
      BY <1>1, <1>2, <1>3, <2>2, <3>1 DEF Served
    <3>3. c \notin Served
      BY <1>4 DEF Served
    <3>4. \A d \in Served : d # c /\ bev[d] \in Bevs /\ clients[bev[d]] = d
      BY <1>3, <3>3 DEF Served, TableInv, ClientTable
    <3>5. \A d \in Served : bev[d] # b
      BY <3>1, <3>4, <1>3 DEF Served
    <3>6. \A d \in Served' : clients'[bev'[d]] = d
      BY <1>1, <1>3, <2>2, <3>1, <3>2, <3>4, <3>5 DEF Served
    <3>7. ASSUME NEW a \in Bevs, clients'[a] # NoConn
          PROVE  clients'[a] \in Served' /\ bev'[clients'[a]] = a
      <4>1. CASE a = b
        BY <1>1, <1>3, <2>2, <3>1, <3>2, <4>1
      <4>2. CASE a # b
        <5>1. clients'[a] = clients[a] /\ clients[a] \in Served /\ bev[clients[a]] = a
          BY <1>3, <2>2, <3>7, <4>2 DEF TableInv, ClientTable
        <5> QED BY <1>3, <2>2, <3>2, <3>4, <5>1 DEF Served
      <4> QED BY <4>1, <4>2
    <3> QED BY <3>6, <3>7 DEF ClientTable
  <2> QED BY <1>2, <2>1, <2>2
<1> QED BY <1>6, <1>7

LEMMA TableErase ==
  ASSUME TableInv, NEW c \in Served, EraseClient(c)
  PROVE  Backlogged' /\ ClientTable'
<1>1. c \in Conns /\ servEnd[c] = "open" /\ bev[c] # NoBev /\ clients[bev[c]] = c
  BY DEF Served, TableInv, ClientTable
<1>2. /\ clients \in [Bevs -> Conns \cup {NoConn}]
      /\ bev \in [Conns -> Bevs \cup {NoBev}]
      /\ dialled \in Seq(Conns)
  BY DEF TableInv, TypeInv, TypeOK, SocketTypeOK
<1>3. /\ \A d \in Conns : servEnd'[d] = IF d = c THEN "closed" ELSE servEnd[d]
      /\ clients' = [clients EXCEPT ![bev[c]] = NoConn]
      /\ bev' = [bev EXCEPT ![c] = NoBev]
      /\ UNCHANGED <<dialled, peerEnd>>
  BY DEF EraseClient, CloseServerEnds
<1>4. Backlogged'
  <2>1. \A i \in 1 .. Len(dialled) : dialled[i] \in Conns
    BY <1>2, ElementOfSeq
  <2> QED BY <1>1, <1>2, <1>3, <2>1 DEF TableInv, Backlogged
<1>5. Served' = Served \ {c}
  BY <1>1, <1>2, <1>3 DEF Served
<1>6. \A d \in Served' : clients'[bev'[d]] = d
  <2>1. ASSUME NEW d \in Served, d # c PROVE clients'[bev'[d]] = d
    <3>1. d \in Conns /\ bev[d] \in Bevs /\ clients[bev[d]] = d
      BY <1>2 DEF Served, TableInv, ClientTable
    <3>2. bev[d] # bev[c]
      BY <1>1, <2>1, <3>1
    <3> QED BY <1>2, <1>3, <2>1, <3>1, <3>2
  <2> QED BY <1>5, <2>1
<1>7. ASSUME NEW a \in Bevs, clients'[a] # NoConn
      PROVE  clients'[a] \in Served' /\ bev'[clients'[a]] = a
  <2>1. a # bev[c] /\ clients'[a] = clients[a]
    BY <1>2, <1>3, <1>7
  <2>2. clients[a] \in Served /\ bev[clients[a]] = a /\ clients[a] # c
    BY <1>7, <2>1 DEF TableInv, ClientTable
  <2> QED BY <1>2, <1>3, <1>5, <2>1, <2>2 DEF Served
<1> QED BY <1>4, <1>6, <1>7 DEF ClientTable

LEMMA TableStep == TableInv /\ [Next]_vars => TableInv'
<1> SUFFICES ASSUME TableInv, [Next]_vars PROVE Backlogged' /\ ClientTable'
  BY TypeStep DEF TableInv
<1>1. CASE AcceptClient
  BY <1>1, TableAccept
<1>2. CASE HandleTermination
  BY <1>2, TableTermination
<1>3. CASE HandleRpmsgRead
  BY <1>3, TableUnchanged DEF HandleRpmsgRead, srvVars
<1>4. ASSUME NEW c \in Conns, HandleClientRead(c) PROVE Backlogged' /\ ClientTable'
  BY <1>4, TableErase, TableUnchanged DEF HandleClientRead
<1>5. ASSUME NEW c \in Conns, HandleClientEvent(c) PROVE Backlogged' /\ ClientTable'
  BY <1>5, TableErase DEF HandleClientEvent
<1>6. ASSUME NEW c \in Conns, ServerFlush(c) PROVE Backlogged' /\ ClientTable'
  BY <1>6, TableUnchanged DEF ServerFlush, Flush, srvVars
<1>7. ASSUME NEW p \in M4Packets, M4Sends(p) PROVE Backlogged' /\ ClientTable'
  BY <1>7, TableUnchanged DEF M4Sends, sockVars, srvVars
<1>8. ASSUME NEW c \in Conns, PeerDial(c) PROVE Backlogged' /\ ClientTable'
  BY <1>8, TableDial
<1>9. ASSUME NEW c \in Conns, PeerHangUp(c) PROVE Backlogged' /\ ClientTable'
  <2>1. \A d \in Conns : peerEnd'[d] = "unused" => peerEnd[d] = "unused"
    BY <1>9 DEF PeerHangUp, PeerClose, TableInv, TypeInv, TypeOK, SocketTypeOK
  <2> QED BY <1>9, <2>1, TableUnchanged DEF PeerHangUp, PeerClose, srvVars
<1>10. ASSUME NEW c \in Conns, ClientBevRead(c) \/ \E n \in Sizes : PeerSend(c, n)
       PROVE  Backlogged' /\ ClientTable'
  BY <1>10, TableUnchanged DEF ClientBevRead, PeerSend, PeerWrite, srvVars
<1>11. CASE UNCHANGED vars
  BY <1>11, TableUnchanged DEF vars, sockVars, srvVars
<1> QED BY <1>1, <1>2, <1>3, <1>4, <1>5, <1>6, <1>7, <1>8, <1>9, <1>10, <1>11
        DEF Next, Server, Others

(* RpcServer::clients is keyed by addresses malloc() reuses; still every   *)
(* entry is the client whose bufferevent is at that address now, so the    *)
(* callbacks find, and abortClient() ends, the client they are about.      *)
THEOREM ClientTableCorrect == Spec => []ClientTable
<1>1. TableInv => ClientTable
  BY DEF TableInv
<1> QED BY TableInit, TableStep, <1>1, PTL DEF Spec

(***************************************************************************)
(* Clients that only listen                                                *)
(***************************************************************************)
LEMMA OffendersStep ==
  ASSUME TypeInv, Next, running', NEW c \in Served, servEnd'[c] = "closed"
  PROVE  peerEnd[c] = "closed" \/ up[c] # << >>
<1>1. /\ c \in Conns /\ servEnd[c] = "open"
      /\ servEnd \in [Conns -> {"none", "queued", "open", "closed"}]
  BY DEF Served, TypeInv, TypeOK, SocketTypeOK
<1>2. servEnd' # servEnd
  BY <1>1
<1>3. CASE AcceptClient
  BY <1>1, <1>3 DEF AcceptClient
<1>4. CASE HandleTermination
  BY <1>4 DEF HandleTermination
<1>5. CASE HandleRpmsgRead \/ \E p \in M4Packets : M4Sends(p)
  BY <1>2, <1>5 DEF HandleRpmsgRead, M4Sends, sockVars
<1>6. ASSUME NEW d \in Conns, HandleClientRead(d) \/ HandleClientEvent(d)
      PROVE  peerEnd[c] = "closed" \/ up[c] # << >>
  <2>1. d = c
    BY <1>1, <1>2, <1>6 DEF HandleClientRead, HandleClientEvent, EraseClient, CloseServerEnds
  <2> QED BY <1>6, <2>1 DEF HandleClientRead, HandleClientEvent, Readable, HungUp
<1>7. ASSUME NEW d \in Conns, PeerDial(d)
      PROVE  peerEnd[c] = "closed" \/ up[c] # << >>
  BY <1>1, <1>7 DEF PeerDial, Dial
<1>8. ASSUME NEW d \in Conns,
             ServerFlush(d) \/ PeerHangUp(d) \/ ClientBevRead(d) \/ \E n \in Sizes : PeerSend(d, n)
      PROVE  peerEnd[c] = "closed" \/ up[c] # << >>
  BY <1>2, <1>8 DEF ServerFlush, Flush, PeerHangUp, PeerClose, ClientBevRead, PeerSend, PeerWrite
<1> QED BY <1>3, <1>4, <1>5, <1>6, <1>7, <1>8 DEF Next, Server, Others

(* Whatever the other clients and the M4 do, a client that neither writes  *)
(* nor hangs up keeps its connection while loadd runs.                     *)
THEOREM ListenersKept == Spec => OnlyOffendersClosed
<1>1. TypeInv /\ [Next]_vars =>
        [running' => \A c \in Served : servEnd'[c] = "closed" =>
                       peerEnd[c] = "closed" \/ up[c] # << >>]_vars
  BY OffendersStep
<1> QED BY TypeInit, TypeStep, <1>1, PTL DEF Spec, OnlyOffendersClosed

(***************************************************************************)
(* The event feed                                                          *)
(***************************************************************************)
(* What is in transit to a client, the records the kernel holds and then   *)
(* the server's output buffer, is a sequence of broadcast numbers.         *)
InFlight(c) == Joined(down[c]) \o out[c]

LEMMA FlightTypes ==
  ASSUME TypeInv, NEW c \in Conns
  PROVE  /\ down[c] \in Seq(Seq(Numbers)) /\ out[c] \in Seq(Numbers)
         /\ Joined(down[c]) \in Seq(Numbers)
         /\ InFlight(c) \in Seq(Numbers)
<1>1. down[c] \in Seq(Seq(Numbers)) /\ out[c] \in Seq(Numbers)
  BY DEF TypeInv, TypeOK, SocketTypeOK, Numbers
<1> QED BY <1>1, JoinedType, ConcatProperties DEF InFlight

(* The connections nothing happens to lose nothing.                        *)
LEMMA WholeFlight ==
  ASSUME TypeInv, NEW c \in Conns
  PROVE  \E k \in 0 .. Len(InFlight(c)) : InFlight(c) = SubSeq(InFlight(c), 1, k)
<1>1. InFlight(c) \in Seq(Numbers)
  BY FlightTypes
<1>2. Len(InFlight(c)) \in 0 .. Len(InFlight(c))
  BY <1>1, LenProperties
<1>3. InFlight(c) = SubSeq(InFlight(c), 1, Len(InFlight(c)))
  BY <1>1, SubSeqFull
<1> QED BY <1>2, <1>3

LEMMA FeedStart == Init => Feed!FeedInit
<1> SUFFICES ASSUME Init PROVE Feed!FeedInit
  OBVIOUS
<1>1. ASSUME NEW c \in Conns PROVE Joined(down[c]) \o out[c] = << >>
  <2>1. down[c] = << >> /\ out[c] = << >>
    BY DEF Init, SocketInit
  <2> QED BY <2>1, JoinedEmpty, EmptySeq, ConcatEmptySeq
<1> QED BY <1>1 DEF Feed!FeedInit, Init

(* A broadcast is published to the clients the server has.                 *)
LEMMA FeedBroadcast ==
  ASSUME TypeInv, bcast' = bcast + 1, bcast' \in Numbers, BroadcastPacket,
         UNCHANGED <<down, handled>>
  PROVE  Feed!FeedNext
<1>1. PICK S \in SUBSET Conns : S = Served
  BY DEF Served
<1>2. ASSUME NEW c \in Conns
      PROVE  Joined(down'[c]) \o out'[c] =
               IF c \in Served THEN Append(Joined(down[c]) \o out[c], bcast')
                               ELSE Joined(down[c]) \o out[c]
  <2>1. CASE c \in Served
    <3>1. out'[c] = Append(out[c], bcast')
      BY <2>1 DEF BroadcastPacket
    <3>2. Joined(down[c]) \in Seq(Numbers) /\ out[c] \in Seq(Numbers)
      BY FlightTypes
    <3>3. \A s, t \in Seq(Numbers) : \A e \in Numbers : s \o Append(t, e) = Append(s \o t, e)
      BY AppendToConcat
    <3>4. Joined(down[c]) \o Append(out[c], bcast') = Append(Joined(down[c]) \o out[c], bcast')
      BY <3>2, <3>3
    <3> QED BY <2>1, <3>1, <3>4
  <2>2. CASE c \notin Served
    BY <2>2 DEF BroadcastPacket
  <2> QED BY <2>1, <2>2
<1>3. Feed!Publish(S)
  BY <1>1, <1>2 DEF Feed!Publish
<1> QED BY <1>3 DEF Feed!FeedNext

(* Handing the buffer to the kernel as one record moves nothing in the     *)
(* feed.                                                                   *)
LEMMA FeedFlush ==
  ASSUME TypeInv, NEW c \in Conns, ServerFlush(c)
  PROVE  UNCHANGED Feed!feedVars
<1>1. /\ down \in [Conns -> Seq(Seq(Numbers))] /\ out \in [Conns -> Seq(Numbers)]
      /\ down' = [down EXCEPT ![c] = Append(@, out[c])]
      /\ out' = [out EXCEPT ![c] = << >>]
      /\ UNCHANGED <<bcast, handled>>
  BY DEF ServerFlush, Flush, m4Vars, TypeInv, TypeOK, SocketTypeOK, Numbers
<1>2. ASSUME NEW d \in Conns
      PROVE  Joined(down'[d]) \o out'[d] = Joined(down[d]) \o out[d]
  <2>1. CASE d = c
    <3>1. down'[d] = Append(down[c], out[c]) /\ out'[d] = << >>
      BY <1>1, <2>1
    <3>2. Joined(down'[d]) = Joined(down[c]) \o out[c]
      BY <3>1, FlightTypes, JoinedAppend
    <3>3. (Joined(down[c]) \o out[c]) \o << >> = Joined(down[c]) \o out[c]
      BY FlightTypes, ConcatEmptySeq DEF InFlight
    <3> QED BY <2>1, <3>1, <3>2, <3>3
  <2>2. CASE d # c
    BY <1>1, <2>2
  <2> QED BY <2>1, <2>2
<1> QED BY <1>1, <1>2 DEF Feed!feedVars

(* The library handles the first packet of the first record, and the rest  *)
(* of that record is lost.                                                 *)
LEMMA FeedRead ==
  ASSUME TypeInv, NEW c \in Conns, ClientBevRead(c)
  PROVE  Feed!FeedNext
<1> DEFINE h    == Head(down[c])
           rest == Joined(Tail(down[c])) \o out[c]
           all  == Joined(down[c]) \o out[c]
<1>1. /\ down \in [Conns -> Seq(Seq(Numbers))] /\ out \in [Conns -> Seq(Numbers)]
      /\ down[c] # << >>
      /\ down' = [down EXCEPT ![c] = Tail(@)]
      /\ handled' = [handled EXCEPT ![c] = Append(@, Head(h))]
      /\ UNCHANGED <<out, bcast>>
  BY DEF ClientBevRead, m4Vars, TypeInv, TypeOK, SocketTypeOK, Numbers
<1>2. /\ down[c] \in Seq(Seq(Numbers)) /\ h \in Seq(Numbers)
      /\ Tail(down[c]) \in Seq(Seq(Numbers)) /\ out[c] \in Seq(Numbers)
      /\ Len(down[c]) \in Nat \ {0} /\ h = down[c][1]
  BY <1>1, HeadTailProperties, EmptySeq
<1>3. h # << >>
  BY <1>2 DEF TypeInv, NoEmptyRecord
<1>4. Joined(Tail(down[c])) \in Seq(Numbers) /\ rest \in Seq(Numbers)
  BY <1>2, JoinedType, ConcatProperties
<1>5. all = h \o rest
  <2> DEFINE t == Joined(Tail(down[c]))
  <2>1. Joined(down[c]) = h \o t
    BY <1>1, <1>2, JoinedHead
  <2>2. h \in Seq(Numbers) /\ t \in Seq(Numbers) /\ out[c] \in Seq(Numbers)
    BY <1>2, <1>4
  <2> HIDE DEF h, t
  <2>3. \A u, v, w \in Seq(Numbers) : (u \o v) \o w = u \o (v \o w)
    BY ConcatAssociative
  <2>4. (h \o t) \o out[c] = h \o (t \o out[c])
    BY <2>2, <2>3
  <2> QED BY <2>1, <2>4 DEF t
<1> HIDE DEF h, rest, all
<1>6. /\ all # << >> /\ Head(all) = Head(h) /\ Len(h) \in 1 .. Len(all)
      /\ SubSeq(all, Len(h) + 1, Len(all)) = rest
  <2>1. h \in Seq(Numbers) /\ rest \in Seq(Numbers)
    BY <1>2, <1>4
  <2>2. h \o rest # << >> /\ Head(h \o rest) = Head(h) /\ Len(h) \in 1 .. Len(h \o rest)
    BY <1>3, <2>1, HeadOfConcat
  <2>3. SubSeq(h \o rest, Len(h) + 1, Len(h \o rest)) = rest
    BY <2>1, BackOfConcat
  <2> QED BY <1>5, <2>2, <2>3
<1>7. ASSUME NEW d \in Conns
      PROVE  Joined(down'[d]) \o out'[d] = IF d = c THEN rest ELSE Joined(down[d]) \o out[d]
  BY <1>1 DEF rest
<1>8. Feed!Handle(c)
  BY <1>1, <1>6, <1>7 DEF Feed!Handle, all
<1> QED BY <1>8 DEF Feed!FeedNext

(* Connections the server closes keep what the kernel holds, and lose the  *)
(* output buffer.                                                          *)
LEMMA FeedClose ==
  ASSUME TypeInv, UNCHANGED <<down, bcast, handled>>,
         \A c \in Conns : out'[c] \in {out[c], << >>}
  PROVE  Feed!FeedNext
<1>1. ASSUME NEW c \in Conns
      PROVE  \E k \in 0 .. Len(Joined(down[c]) \o out[c]) :
               Joined(down'[c]) \o out'[c] = SubSeq(Joined(down[c]) \o out[c], 1, k)
  <2>1. CASE out'[c] = out[c]
    BY <2>1, WholeFlight DEF InFlight
  <2>2. CASE out'[c] = << >>
    <3>1. Joined(down[c]) \in Seq(Numbers) /\ out[c] \in Seq(Numbers)
      BY FlightTypes
    <3>2. Joined(down'[c]) \o out'[c] = Joined(down[c])
      BY <2>2, <3>1, ConcatEmptySeq
    <3> QED BY <3>1, <3>2, FrontOfConcat
  <2> QED BY <2>1, <2>2
<1>2. Feed!Hangup
  BY <1>1 DEF Feed!Hangup
<1> QED BY <1>2 DEF Feed!FeedNext

LEMMA FeedStutter ==
  ASSUME UNCHANGED <<down, out, bcast, handled>>
  PROVE  UNCHANGED Feed!feedVars
BY DEF Feed!feedVars

LEMMA FeedStep == TypeInv /\ [Next]_vars => [Feed!FeedNext]_(Feed!feedVars)
<1> SUFFICES ASSUME TypeInv, [Next]_vars
             PROVE  Feed!FeedNext \/ UNCHANGED Feed!feedVars
  OBVIOUS
<1>1. CASE AcceptClient
  BY <1>1, FeedStutter DEF AcceptClient, m4Vars
<1>2. CASE HandleTermination
  <2>1. \A c \in Conns : out'[c] \in {out[c], << >>}
    BY <1>2 DEF HandleTermination, ProcessExit, CloseServerEnds
  <2> QED BY <1>2, <2>1, FeedClose DEF HandleTermination, ProcessExit
<1>3. CASE HandleRpmsgRead
  <2>1. CASE UNCHANGED <<bcast, out>>
    BY <1>3, <2>1, FeedStutter DEF HandleRpmsgRead
  <2>2. CASE bcast < MaxBcast /\ bcast' = bcast + 1 /\ BroadcastPacket
    <3>1. bcast' \in Numbers
      BY <2>2, LoaddAssumption DEF TypeInv, TypeOK, Numbers
    <3> QED BY <1>3, <2>2, <3>1, FeedBroadcast DEF HandleRpmsgRead
  <2> QED BY <1>3, <2>1, <2>2 DEF HandleRpmsgRead
<1>4. ASSUME NEW c \in Conns, EraseClient(c)
      PROVE  Feed!FeedNext
  <2>1. \A d \in Conns : out'[d] \in {out[d], << >>}
    BY <1>4 DEF EraseClient, CloseServerEnds
  <2> QED BY <1>4, <2>1, FeedClose DEF EraseClient, m4Vars
<1>5. ASSUME NEW c \in Conns, HandleClientRead(c)
      PROVE  Feed!FeedNext \/ UNCHANGED Feed!feedVars
  BY <1>4, <1>5, FeedStutter DEF HandleClientRead, m4Vars
<1>6. ASSUME NEW c \in Conns, HandleClientEvent(c)
      PROVE  Feed!FeedNext
  BY <1>4, <1>6 DEF HandleClientEvent
<1>7. ASSUME NEW c \in Conns, ServerFlush(c)
      PROVE  UNCHANGED Feed!feedVars
  BY <1>7, FeedFlush
<1>8. ASSUME NEW p \in M4Packets, M4Sends(p)
      PROVE  UNCHANGED Feed!feedVars
  BY <1>8, FeedStutter DEF M4Sends, sockVars
<1>9. ASSUME NEW c \in Conns,
             PeerDial(c) \/ PeerHangUp(c) \/ \E n \in Sizes : PeerSend(c, n)
      PROVE  UNCHANGED Feed!feedVars
  BY <1>9, FeedStutter
     DEF PeerDial, Dial, PeerHangUp, PeerClose, PeerSend, PeerWrite, m4Vars
<1>10. ASSUME NEW c \in Conns, ClientBevRead(c)
       PROVE  Feed!FeedNext
  BY <1>10, FeedRead
<1>11. CASE UNCHANGED vars
  BY <1>11, FeedStutter DEF vars, sockVars, m4Vars
<1> QED BY <1>1, <1>2, <1>3, <1>5, <1>6, <1>7, <1>8, <1>9, <1>10, <1>11
        DEF Next, Server, Others

(* loadd and its clients' library implement the event feed: across records *)
(* of many packets, broken connections and reused addresses a client       *)
(* handles each broadcast at most once, and in order.                      *)
THEOREM FeedImplemented == Spec => ImplementsFeed
<1> QED BY TypeInit, TypeStep, FeedStart, FeedStep, PTL
        DEF Spec, ImplementsFeed, Feed!FeedSpec

(* What a client was given and what is on its way to it are in the order   *)
(* they were published.                                                    *)
HandledInOrder ==
  \A c \in Conns : \A i, j \in 1 .. Len(handled[c]) : i < j => handled[c][i] < handled[c][j]

OrderInv ==
  /\ handled = [c \in Conns |-> handled[c]]
  /\ \A c \in Conns : FeedOrder(handled[c], Joined(down[c]) \o out[c], bcast)

LEMMA OrderInvInit == Feed!FeedInit => OrderInv
<1> SUFFICES ASSUME Feed!FeedInit PROVE OrderInv
  OBVIOUS
<1>1. /\ bcast = 0 /\ handled = [c \in Conns |-> << >>]
      /\ [c \in Conns |-> Joined(down[c]) \o out[c]] = [c \in Conns |-> << >>]
  BY DEF Feed!FeedInit
<1>2. ASSUME NEW c \in Conns PROVE handled[c] = << >> /\ Joined(down[c]) \o out[c] = << >>
  <2>1. [d \in Conns |-> Joined(down[d]) \o out[d]][c] = << >>
    BY <1>1
  <2> QED BY <1>1, <2>1
<1> QED BY <1>1, <1>2, OrderStart DEF OrderInv

LEMMA OrderInvStep == OrderInv /\ [Feed!FeedNext]_(Feed!feedVars) => OrderInv'
<1> SUFFICES ASSUME OrderInv, [Feed!FeedNext]_(Feed!feedVars) PROVE OrderInv'
  OBVIOUS
<1> DEFINE flight == [c \in Conns |-> Joined(down[c]) \o out[c]]
<1>1. /\ handled = [c \in Conns |-> handled[c]]
      /\ \A c \in Conns : FeedOrder(handled[c], flight[c], bcast)
  BY DEF OrderInv
<1>2. SUFFICES /\ handled' = [c \in Conns |-> handled'[c]]
               /\ \A c \in Conns : FeedOrder(handled'[c], flight'[c], bcast')
  BY DEF OrderInv
<1>3. ASSUME NEW S \in SUBSET Conns, Feed!Publish(S)
      PROVE  \A c \in Conns : FeedOrder(handled'[c], flight'[c], bcast')
  <2> TAKE c \in Conns
  <2>1. /\ bcast' = bcast + 1 /\ handled' = handled
        /\ flight' = [d \in Conns |-> IF d \in S THEN Append(flight[d], bcast') ELSE flight[d]]
    BY <1>3 DEF Feed!Publish
  <2> HIDE DEF flight
  <2>2. flight'[c] = IF c \in S THEN Append(flight[c], bcast + 1) ELSE flight[c]
    BY <2>1
  <2> QED BY <1>1, <2>1, <2>2, OrderPublish, OrderLater
<1>4. ASSUME NEW c \in Conns, Feed!Handle(c)
      PROVE  /\ handled' = [d \in Conns |-> handled'[d]]
             /\ \A d \in Conns : FeedOrder(handled'[d], flight'[d], bcast')
  <2>1. /\ flight[c] # << >> /\ bcast' = bcast
        /\ handled' = [handled EXCEPT ![c] = Append(@, Head(flight[c]))]
    BY <1>4 DEF Feed!Handle
  <2>2. PICK k \in 1 .. Len(flight[c]) :
          flight' = [flight EXCEPT ![c] = SubSeq(@, k + 1, Len(@))]
    BY <1>4 DEF Feed!Handle
  <2>3. flight = [d \in Conns |-> flight[d]]
    OBVIOUS
  <2> HIDE DEF flight
  <2>4. ASSUME NEW d \in Conns PROVE FeedOrder(handled'[d], flight'[d], bcast')
    <3>1. CASE d = c
      <4>1. /\ handled'[c] = Append(handled[c], Head(flight[c]))
            /\ flight'[c] = SubSeq(flight[c], k + 1, Len(flight[c]))
        BY <1>1, <2>1, <2>2, <2>3
      <4> QED BY <1>1, <2>1, <3>1, <4>1, OrderHandle
    <3>2. CASE d # c
      <4>1. handled'[d] = handled[d] /\ flight'[d] = flight[d]
        BY <1>1, <2>1, <2>2, <2>3, <3>2
      <4> QED BY <1>1, <2>1, <4>1
    <3> QED BY <3>1, <3>2
  <2>5. handled' = [d \in Conns |-> handled'[d]]
    BY <1>1, <2>1
  <2> QED BY <2>4, <2>5
<1>5. ASSUME Feed!Hangup
      PROVE  \A c \in Conns : FeedOrder(handled'[c], flight'[c], bcast')
  <2> TAKE c \in Conns
  <2>1. /\ bcast' = bcast /\ handled' = handled
        /\ \E k \in 0 .. Len(flight[c]) : flight'[c] = SubSeq(flight[c], 1, k)
    BY <1>5 DEF Feed!Hangup
  <2> HIDE DEF flight
  <2> QED BY <1>1, <2>1, OrderHangup
<1>6. CASE UNCHANGED Feed!feedVars
  BY <1>1, <1>6 DEF Feed!feedVars
<1>7. handled' = handled => handled' = [c \in Conns |-> handled'[c]]
  BY <1>1
<1> HIDE DEF flight
<1>8. \A S \in SUBSET Conns : Feed!Publish(S) => handled' = handled
  BY DEF Feed!Publish
<1>9. Feed!Hangup => handled' = handled
  BY DEF Feed!Hangup
<1> QED BY <1>1, <1>3, <1>4, <1>5, <1>6, <1>7, <1>8, <1>9 DEF Feed!FeedNext

(* What the feed is for: however loadd packs its broadcasts into records,  *)
(* and whatever becomes of the connections, no client handles one twice    *)
(* or out of order.                                                        *)
THEOREM BroadcastsInOrder == Spec => []HandledInOrder
<1>1. Init => OrderInv
  BY FeedStart, OrderInvInit
<1>2. TypeInv /\ OrderInv /\ [Next]_vars => OrderInv'
  BY FeedStep, OrderInvStep
<1>3. OrderInv => HandledInOrder
  BY DEF OrderInv, HandledInOrder, FeedOrder
<1> QED BY TypeInit, TypeStep, <1>1, <1>2, <1>3, PTL DEF Spec

(***************************************************************************)
(* The invariant                                                           *)
(***************************************************************************)
ControlOnly == [ch \in Channels |-> IF ch = "control" THEN 0 ELSE NoDev]
Both == [ch \in Channels |-> IF ch = "control" THEN 0 ELSE 1]

(* What main() has done by the time it is where it is.                     *)
Stages ==
  /\ pc \in {"off", "load", "start"} => coprocState = "Unknown"
  /\ pc \in {"serve", "rpc", "connect", "loop"} => coprocState = "Running" /\ m4 = "running"
  /\ pc = "start" => m4 = "offline"
  /\ pc \in {"rpc", "connect", "loop"} => evbase
  /\ pc \notin {"connect", "loop"} => chan = Closed

(* The devices: none without the M4, none before the channels, and then    *)
(* those of the channels, numbered in the order they are connected.        *)
Devices ==
  /\ m4 = "offline" => devs = {}
  /\ pc \in {"serve", "rpc"} => devs = {}
  /\ pc = "connect" => \/ chan = Closed /\ devs = {}
                       \/ chan = ControlOnly /\ devs = {0}
  /\ pc = "loop" => chan = Both /\ devs = {0, 1}

(* M4NotOrphaned, up to the moment loadd finds the firmware busy.          *)
Excused == pc \in {"off", "load"} /\ m4 = "running" => kills > 0 \/ stopFailed

BootInv == BootTypeOK /\ Stages /\ Devices /\ Excused

LEMMA ChannelFacts ==
  /\ Channels = {"control", "confd"} /\ NoDev = 99
  /\ ControlOnly # Closed /\ Both # Closed
  /\ {Closed, ControlOnly, Both} \subseteq [Channels -> {NoDev, 0, 1}]
<1>1. "control" \in Channels /\ Channels = {"control", "confd"} /\ NoDev = 99
  BY DEF Channels, NoDev
<1>2. Closed["control"] = 99 /\ ControlOnly["control"] = 0 /\ Both["control"] = 0
  BY <1>1 DEF Closed, ControlOnly, Both
<1>3. {Closed, ControlOnly, Both} \subseteq [Channels -> {NoDev, 0, 1}]
  BY DEF Closed, ControlOnly, Both
<1> QED BY <1>1, <1>2, <1>3

(* The kernel's next device, and what NextChannel is then.                 *)
LEMMA NextDevice ==
  /\ devs = {} => LowestFree = 0 /\ Expected = 0
  /\ devs = {0} => LowestFree = 1 /\ Expected = 1
<1>1. ASSUME devs = {} PROVE LowestFree = 0 /\ Expected = 0
  <2>1. \A n \in 0 .. 9 : n \notin devs /\ (\A k \in 0 .. n - 1 : k \in devs) <=> n = 0
    BY <1>1
  <2> QED BY <1>1, <2>1 DEF LowestFree, Expected
<1>2. ASSUME devs = {0} PROVE LowestFree = 1 /\ Expected = 1
  <2>1. \A n \in 0 .. 9 : n \notin devs /\ (\A k \in 0 .. n - 1 : k \in devs) <=> n = 1
    BY <1>2
  <2>2. (CHOOSE n \in devs : \A k \in devs : k <= n) = 0
    BY <1>2
  <2> QED BY <1>2, <2>1, <2>2 DEF LowestFree, Expected
<1> QED BY <1>1, <1>2

LEMMA NextChannelIs ==
  /\ chan = Closed => NextChannel = "control"
  /\ chan = ControlOnly => NextChannel = "confd"
BY DEF NextChannel, Open, Closed, ControlOnly, Channels, NoDev

(***************************************************************************)
(* Steps                                                                   *)
(***************************************************************************)
LEMMA BootInvInit == BootInit => BootInv
<1> SUFFICES ASSUME BootInit PROVE BootInv
  OBVIOUS
<1>1. BootTypeOK
  <2>1. kills \in 0 .. MaxKills
    BY BootAssumption DEF BootInit
  <2>2. {evbase, confd, stopFailed} \subseteq BOOLEAN
    BY Zenon DEF BootInit
  <2> QED BY <2>1, <2>2, ChannelFacts DEF BootInit, BootTypeOK
<1>2. Stages /\ Devices /\ Excused
  BY DEF BootInit, Stages, Devices, Excused
<1> QED BY <1>1, <1>2 DEF BootInv

(* However the process ends, with the devices it leaves.                   *)
LEMMA UnwindBoot ==
  ASSUME BootInv, pc # "off", NEW left, left \subseteq 0 .. 1,
         left = devs \/ pc = "connect",
         Unwind(left), UNCHANGED <<confd, kills>>
  PROVE  BootInv'
<1> USE DEF BootInv, BootTypeOK, Stages, Devices, Excused
<1>1. CASE coprocState = "Running"
  BY <1>1, ChannelFacts DEF Unwind, StopM4
<1>2. CASE coprocState # "Running"
  BY <1>2, ChannelFacts DEF Unwind
<1> QED BY <1>1, <1>2

LEMMA ConnectBoot == BootInv /\ ConnectChannel => BootInv'
<1> SUFFICES ASSUME BootInv, ConnectChannel PROVE BootInv'
  OBVIOUS
<1> USE DEF BootInv, BootTypeOK, Stages, Devices, Excused
<1>1. CASE chan = Closed /\ devs = {}
  <2>1. chan' = ControlOnly /\ devs' = {0} /\ pc' = "connect"
    BY <1>1, NextDevice, NextChannelIs DEF ConnectChannel, Closed, ControlOnly, Channels
  <2> QED BY <1>1, <2>1, ChannelFacts DEF ConnectChannel, flagVars
<1>2. CASE chan = ControlOnly /\ devs = {0}
  <2>1. chan' = Both /\ devs' = {0, 1} /\ pc' = "loop"
    BY <1>2, NextDevice, NextChannelIs DEF ConnectChannel, Both, ControlOnly, Channels
  <2> QED BY <1>2, <2>1, ChannelFacts DEF ConnectChannel, flagVars
<1> QED BY <1>1, <1>2 DEF ConnectChannel

LEMMA BootInvStep == BootInv /\ [BootNext]_bootVars => BootInv'
<1> SUFFICES ASSUME BootInv, [BootNext]_bootVars PROVE BootInv'
  OBVIOUS
<1> USE DEF BootInv, BootTypeOK, Stages, Devices, Excused
<1>1. CASE Start
  BY <1>1 DEF Start, procVars, flagVars
<1>2. CASE LoadFirmware
  BY <1>2 DEF LoadFirmware, procVars, flagVars
<1>3. CASE StartM4
  BY <1>3 DEF StartM4, flagVars
<1>4. CASE MakeServer
  BY <1>4 DEF MakeServer, flagVars
<1>5. CASE DestroyAllRpcEndpoints
  BY <1>5, ChannelFacts DEF DestroyAllRpcEndpoints, procVars, flagVars
<1>6. CASE ConnectChannel
  BY <1>6, ConnectBoot
<1>7. CASE StartupThrows
  <2>1. CASE Unwind(devs)
    BY <1>7, <2>1, UnwindBoot DEF StartupThrows
  <2>2. CASE pc = "connect" /\ Unwind(devs \cup {LowestFree})
    <3>1. \/ devs = {} /\ LowestFree = 0
          \/ devs = {0} /\ LowestFree = 1
      <4>1. devs = {} \/ devs = {0}
        BY <2>2
      <4> QED BY <4>1, NextDevice
    <3>2. devs \cup {LowestFree} \subseteq 0 .. 1
      <4>1. devs \subseteq 0 .. 1 /\ LowestFree \in 0 .. 1
        BY <3>1
      <4> QED BY ONLY <4>1
    <3>3. UNCHANGED <<confd, kills>>
      BY <1>7 DEF StartupThrows
    <3>4. BootInv /\ pc = "connect" /\ pc # "off"
      BY <2>2
    <3> QED BY <2>2, <3>2, <3>3, <3>4, UnwindBoot
  <2> QED BY <1>7, <2>1, <2>2 DEF StartupThrows
<1>8. CASE ShutDown
  <2>1. CASE Unwind(devs)
    BY <1>8, <2>1, UnwindBoot DEF ShutDown
  <2>2. CASE ~Unwind(devs)
    BY <1>8, <2>2, ChannelFacts DEF ShutDown
  <2> QED BY <2>1, <2>2
<1>9. CASE Kill
  <2>1. kills' \in 0 .. MaxKills /\ kills' > 0
    BY <1>9, BootAssumption DEF Kill
  <2>2. BootTypeOK'
    BY <1>9, <2>1, ChannelFacts DEF Kill
  <2> QED BY <1>9, <2>1, <2>2 DEF Kill
<1>10. CASE ConfdChanges
  BY <1>10 DEF ConfdChanges, procVars
<1>11. CASE UNCHANGED bootVars
  BY <1>11 DEF bootVars, procVars, flagVars
<1> QED
  BY <1>1, <1>2, <1>3, <1>4, <1>5, <1>6, <1>7, <1>8, <1>9, <1>10, <1>11 DEF BootNext, Main

(***************************************************************************)
(* Theorems                                                                *)
(***************************************************************************)
THEOREM BootInvariant == BootSpec => []BootInv
BY BootInvInit, BootInvStep, PTL DEF BootSpec

(* loadd's state keeps its type, for any number of kills: never more than  *)
(* two devices, never a channel on another.                                *)
THEOREM BootTypeCorrect == BootSpec => []BootTypeOK
<1>1. BootInv => BootTypeOK
  BY DEF BootInv
<1> QED BY <1>1, BootInvariant, PTL

(* Whatever step of start-up fails, and however often loadd was killed, it *)
(* leaves the M4 running only if it was killed or the driver refused.      *)
THEOREM M4NotOrphanedCorrect == BootSpec => []M4NotOrphaned
<1>1. BootInv => M4NotOrphaned
  BY DEF BootInv, Excused, M4NotOrphaned
<1> QED BY <1>1, BootInvariant, PTL

(* In its loop loadd has the M4 running and a device for each channel.     *)
THEOREM LoopReadyCorrect == BootSpec => []LoopReady
<1>1. BootInv => LoopReady
  <2> SUFFICES ASSUME BootInv, pc = "loop" PROVE LoopReady
    BY DEF LoopReady
  <2>1. chan = Both /\ devs = {0, 1} /\ m4 = "running" /\ evbase
    BY DEF BootInv, Stages, Devices
  <2>2. chan["control"] = 0 /\ chan["confd"] = 1 /\ Channels = {"control", "confd"}
    BY <2>1 DEF Both, Channels
  <2> QED BY <2>1, <2>2 DEF LoopReady, Open, NoDev
<1> QED BY <1>1, BootInvariant, PTL

==============================================================================
