----------------------------- MODULE ConfdProxy -----------------------------
(***************************************************************************)
(* loadd's handler of the "confd" rpmsg channel, ConfdEpHandler.cpp: it    *)
(* carries the M4's requests to the confd daemon over a stream socket and  *)
(* the replies back, and replaces the socket after confd went away.  The   *)
(* handler starts out connected: its constructor dials confd.              *)
(*                                                                         *)
(* Of libevent, outside the repository: a bufferevent stops reading when a *)
(* read ends in EOF or an error, stops writing when a write fails, and     *)
(* bufferevent_setfd() keeps what is enabled and what is queued.  Of the   *)
(* kernel: a stream delivers what it holds before the end, and the end is  *)
(* ECONNRESET when the other side closed with data unread.                 *)
(***************************************************************************)
EXTENDS Naturals, Sequences

CONSTANTS
  MaxReq,     (* bound: requests the M4 makes                              *)
  MaxCrash    (* bound: times confd goes away                              *)

ASSUME ProxyAssumption == MaxReq \in Nat /\ MaxCrash \in Nat

VARIABLES
  made,           (* requests made so far; numbers them                    *)
  rpmsgIn,        (* requests waiting in the rpmsg channel                 *)
  out,            (* requests queued in confdBev                           *)
  needsNewSocket,
  confdSocket,    (* the member: a connection's descriptor, or 0           *)
  reading,        (* EV_READ is enabled on confdBev                        *)
  writing,        (* EV_WRITE is enabled on confdBev                       *)
  link,           (* the connection confdBev is on, as confd left it       *)
  toConfd,        (* its bytes towards confd, request by request           *)
  fromConfd,      (* its bytes towards loadd, reply by reply               *)
  served,         (* requests confd got, in order                          *)
  answered,       (* replies the M4 got, in order                          *)
  confd,          (* confd accepts connections                             *)
  crashes

proxyVars == <<rpmsgIn, out, needsNewSocket, confdSocket, reading, writing>>
linkVars  == <<link, toConfd, fromConfd>>
vars == <<made, proxyVars, linkVars, served, answered, confd, crashes>>

Init ==
  /\ made = 0 /\ rpmsgIn = << >> /\ out = << >>
  /\ needsNewSocket = FALSE
  /\ confdSocket = "connected"
  /\ reading = TRUE /\ writing = TRUE
  /\ link = "open" /\ toConfd = << >> /\ fromConfd = << >>
  /\ served = << >> /\ answered = << >>
  /\ confd = TRUE /\ crashes = 0

(***************************************************************************)
(* The M4 and confd                                                        *)
(***************************************************************************)
Request ==
  /\ made < MaxReq
  /\ made' = made + 1
  /\ rpmsgIn' = Append(rpmsgIn, made')
  /\ UNCHANGED <<out, needsNewSocket, confdSocket, reading, writing, linkVars,
                 served, answered, confd, crashes>>

ConfdReplies ==
  /\ link = "open"
  /\ toConfd # << >>
  /\ toConfd' = Tail(toConfd)
  /\ served' = Append(served, Head(toConfd))
  /\ fromConfd' = Append(fromConfd, Head(toConfd))
  /\ UNCHANGED <<made, proxyVars, link, answered, confd, crashes>>

ConfdStops ==
  /\ confd
  /\ crashes < MaxCrash
  /\ confd' = FALSE
  /\ crashes' = crashes + 1
  /\ link' = IF link # "open" THEN link ELSE IF toConfd = << >> THEN "eof" ELSE "reset"
  /\ toConfd' = << >>
  /\ UNCHANGED <<made, proxyVars, fromConfd, served, answered>>

ConfdStarts ==
  /\ ~confd
  /\ confd' = TRUE
  /\ UNCHANGED <<made, proxyVars, linkVars, served, answered, crashes>>

(***************************************************************************)
(* ConfdEpHandler                                                          *)
(***************************************************************************)
(* connectToConfd() and bufferevent_setfd().                               *)
ReplaceSocket ==
  /\ confd
  /\ confdSocket' = "connected"
  /\ link' = "open" /\ toConfd' = << >> /\ fromConfd' = << >>

(* Mutants of ForwardRequest: an empty packet; the wrong end of the queue. *)
ForwardEmpty == out' = Append(out, 0)
ForwardFirst == out' = <<Head(rpmsgIn)>> \o out

ForwardRequest == out' = Append(out, Head(rpmsgIn))

(* The flag is exchanged before the connection is dialled; if that throws  *)
(* the request already read is gone.                                       *)
HandleRpmsgRead ==
  /\ rpmsgIn # << >>
  /\ rpmsgIn' = Tail(rpmsgIn)
  /\ needsNewSocket' = FALSE
  /\ \/ /\ ~needsNewSocket
        /\ ForwardRequest
        /\ UNCHANGED <<confdSocket, linkVars>>
     \/ /\ needsNewSocket
        /\ ReplaceSocket
        /\ ForwardRequest
     \/ /\ needsNewSocket
        /\ ~confd
        /\ UNCHANGED <<out, confdSocket, linkVars>>
  /\ UNCHANGED <<made, reading, writing, served, answered, confd, crashes>>

(* Mutant of FlushToConfd: the write event is not persistent.              *)
FlushOnce ==
  /\ writing
  /\ out # << >>
  /\ writing' = FALSE
  /\ IF link = "open" THEN toConfd' = toConfd \o out /\ out' = << >>
                      ELSE UNCHANGED <<out, toConfd>>
  /\ UNCHANGED <<made, rpmsgIn, needsNewSocket, confdSocket, reading, link, fromConfd,
                 served, answered, confd, crashes>>

(* The write event; on a dead connection it ends in the error event, which *)
(* is only logged.                                                         *)
FlushToConfd ==
  /\ writing
  /\ out # << >>
  /\ \/ /\ link = "open"
        /\ toConfd' = toConfd \o out
        /\ out' = << >>
        /\ UNCHANGED writing
     \/ /\ link # "open"
        /\ writing' = FALSE
        /\ UNCHANGED <<out, toConfd>>
  /\ UNCHANGED <<made, rpmsgIn, needsNewSocket, confdSocket, reading, link, fromConfd,
                 served, answered, confd, crashes>>

(* Mutant of HandleConfdRead: copies out of the buffer, does not remove.   *)
ReadWithoutRemoving ==
  /\ reading
  /\ fromConfd # << >>
  /\ answered' = answered \o fromConfd
  /\ Len(answered) < MaxReq
  /\ UNCHANGED <<made, proxyVars, linkVars, served, confd, crashes>>

(* Everything read goes to the M4 in one write(); if that fails it is lost.*)
HandleConfdRead ==
  /\ reading
  /\ fromConfd # << >>
  /\ fromConfd' = << >>
  /\ answered' \in {answered \o fromConfd, answered}
  /\ UNCHANGED <<made, proxyVars, link, toConfd, served, confd, crashes>>

(* Mutant of HandleConfdEvent: any event asks for a new socket.            *)
AnyEventReplaces ==
  /\ reading
  /\ fromConfd = << >>
  /\ link # "open"
  /\ reading' = FALSE
  /\ needsNewSocket' = TRUE /\ confdSocket' = "zero"
  /\ UNCHANGED <<made, rpmsgIn, out, writing, linkVars, served, answered, confd, crashes>>

(* EOF asks for a new socket and forgets the old one; an error is logged.  *)
HandleConfdEvent ==
  /\ reading
  /\ fromConfd = << >>
  /\ link # "open"
  /\ reading' = FALSE
  /\ IF link = "eof"
     THEN needsNewSocket' = TRUE /\ confdSocket' = "zero"
     ELSE UNCHANGED <<needsNewSocket, confdSocket>>
  /\ UNCHANGED <<made, rpmsgIn, out, writing, linkVars, served, answered, confd, crashes>>

Environment == Request \/ ConfdReplies \/ ConfdStops \/ ConfdStarts
Handler == HandleRpmsgRead \/ FlushToConfd \/ HandleConfdRead \/ HandleConfdEvent

Next == Environment \/ Handler

Spec == Init /\ [][Next]_vars

(* The event loop serves each active event; confd answers what it reads.   *)
FairSpec ==
  /\ Spec
  /\ WF_vars(HandleRpmsgRead) /\ WF_vars(FlushToConfd)
  /\ WF_vars(HandleConfdRead) /\ WF_vars(HandleConfdEvent)
  /\ WF_vars(ConfdReplies) /\ WF_vars(ConfdStarts)

(***************************************************************************)
(* Properties                                                              *)
(***************************************************************************)
Numbers == 1 .. MaxReq

TypeOK ==
  /\ made \in 0 .. MaxReq
  /\ rpmsgIn \in Seq(Numbers) /\ out \in Seq(Numbers)
  /\ toConfd \in Seq(Numbers) /\ fromConfd \in Seq(Numbers)
  /\ served \in Seq(Numbers) /\ answered \in Seq(Numbers)
  /\ needsNewSocket \in BOOLEAN /\ confd \in BOOLEAN
  /\ reading \in BOOLEAN /\ writing \in BOOLEAN
  /\ confdSocket \in {"connected", "zero"}
  /\ link \in {"open", "eof", "reset"}
  /\ crashes \in 0 .. MaxCrash

Increasing(s) == \A i, j \in DOMAIN s : i < j => s[i] < s[j]

(* Requests reach confd once and in order, across any number of sockets,   *)
(* and those still on their way come later than those it got.              *)
RequestsInOrder == Increasing(served \o toConfd \o out \o rpmsgIn)

(* The M4 gets a reply once, in order, and only to what confd served.      *)
RepliesInOrder ==
  /\ Increasing(answered \o fromConfd)
  /\ \A i \in DOMAIN answered : \E j \in DOMAIN served : served[j] = answered[i]

(* A socket is only replaced after confd closed it, so no reply that could *)
(* still be read is thrown away with it.                                   *)
FlagMeansClosed ==
  needsNewSocket => /\ link = "eof" /\ fromConfd = << >>
                    /\ confdSocket = "zero" /\ ~reading

(* Until confd first goes away, every request reaches it, and every reply  *)
(* is taken off the socket.                                                *)
ServedUntilFirstCrash ==
  \A n \in Numbers : (made >= n /\ crashes = 0) ~>
    \/ crashes > 0
    \/ (\E i \in DOMAIN served : served[i] = n) /\ fromConfd = << >>

(* ConfdEpHandler.cpp, line 179: "Read all of the data in the confd client *)
(* buffer and transmit it to the rpmsg connection".                        *)
RepliesRead == fromConfd # << >> ~> fromConfd = << >>

=============================================================================
