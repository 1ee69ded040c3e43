---------------------------- MODULE MCPinballRpc ----------------------------
EXTENDS PinballRpc, TLC

CONSTANTS c1, c2, touch, button

TwoConns == {c1, c2}
TwoTypes == {touch, button}
OneFd    == {5}
TwoFds   == {5, 6}

Subscribe(S) == [kind |-> "config", on |-> S, off |-> {}]
SomeRequests == {Subscribe(TwoTypes), Subscribe({touch})}
FeedRequests == SomeRequests \cup {[kind |-> "bad"]}
==============================================================================
