-------------------------- MODULE MCPinballServer --------------------------
(* Two connections over two descriptors: a leaked one leaves one to reuse. *)
EXTENDS PinballServer

CONSTANTS c1, c2, touch, button

TwoConns == {c1, c2}
TwoTypes == {touch, button}
TwoFds   == {5, 6}

Subscribe(S) == [kind |-> "config", on |-> S, off |-> {}]
Only(S)      == [kind |-> "config", on |-> S, off |-> TwoTypes \ S]

MCRequests == {Subscribe({touch}), Only({button}), Only({})} \cup
              [kind : {"noop", "indicator", "bad"}]
=============================================================================
