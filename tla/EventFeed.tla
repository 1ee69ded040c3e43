------------------------------ MODULE EventFeed ------------------------------
(***************************************************************************)
(* What a subscriber of one of the two daemons' broadcasts is promised by  *)
(* the sockets and the code at both ends: numbered packets reach it in     *)
(* order and at most once.  It may miss some: packets that travelled       *)
(* behind another in the same record, and whatever was still in transit    *)
(* when the connection ended.                                              *)
(***************************************************************************)
EXTENDS Naturals, Sequences

CONSTANT Conns

VARIABLES
  last,     (* the number of the latest packet published                   *)
  transit,  (* the packets on their way to each subscriber                 *)
  seen      (* the packets each subscriber handled                         *)

feedVars == <<last, transit, seen>>

FeedInit ==
  /\ last = 0
  /\ transit = [c \in Conns |-> << >>]
  /\ seen    = [c \in Conns |-> << >>]

Publish(S) ==
  /\ last' = last + 1
  /\ transit' = [c \in Conns |-> IF c \in S THEN Append(transit[c], last') ELSE transit[c]]
  /\ UNCHANGED seen

(* The first packet in transit is handled, a run behind it may be lost.    *)
Handle(c) ==
  /\ transit[c] # << >>
  /\ seen' = [seen EXCEPT ![c] = Append(@, Head(transit[c]))]
  /\ \E k \in 1 .. Len(transit[c]) :
       transit' = [transit EXCEPT ![c] = SubSeq(@, k + 1, Len(@))]
  /\ UNCHANGED last

(* The server ends some connections: what it had not yet handed over is    *)
(* lost, a suffix of what is in transit.                                   *)
Hangup ==
  /\ \A c \in Conns :
       \E k \in 0 .. Len(transit[c]) : transit'[c] = SubSeq(transit[c], 1, k)
  /\ transit' = [c \in Conns |-> transit'[c]]
  /\ UNCHANGED <<last, seen>>

FeedNext ==
  \/ \E S \in SUBSET Conns : Publish(S)
  \/ \E c \in Conns : Handle(c)
  \/ Hangup

FeedSpec == FeedInit /\ [][FeedNext]_feedVars

==============================================================================
