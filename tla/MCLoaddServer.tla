---------------------------- MODULE MCLoaddServer ----------------------------
(* Two connections that may use the same bufferevent address one after the *)
(* other, or two at a time; broadcasts among other packets of the M4.      *)
EXTENDS LoaddServer

CONSTANTS c1, c2, b1, b2

TwoConns == {c1, c2}
TwoBevs  == {b1, b2}
TwoSizes == {1, 2}

Meter == [versionOk |-> TRUE, flags |-> {"broadcast"}]
Reply == [versionOk |-> TRUE, flags |-> {"reply"}]

MeterAndReply == {Meter, Reply}
==============================================================================
