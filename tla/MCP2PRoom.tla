------------------------------ MODULE MCP2PRoom ------------------------------
EXTENDS P2PRoom, TLC

\* A second poll can overlap the first at the receiver; at the dialer.
Overlap == <<{1, 2}, {1}>>

DialerOverlap == <<{1}, {1, 2}>>
==============================================================================
