------------------------------- MODULE Records -------------------------------
(***************************************************************************)
(* What a run of records carries.  A record is one writev() of everything  *)
(* that was queued for a connection, a sequence of packets.                *)
(***************************************************************************)
EXTENDS Naturals, Sequences

(* The packets of a run of records, in order.                              *)
Joined(ss) ==
  LET upTo[i \in 0 .. Len(ss)] == IF i = 0 THEN << >> ELSE upTo[i - 1] \o ss[i]
  IN  upTo[Len(ss)]

==============================================================================
