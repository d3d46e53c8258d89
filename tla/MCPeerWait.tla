----------------------------- MODULE MCPeerWait -----------------------------
EXTENDS PeerWait
CONSTANTS a, b, c, m1
=============================================================================
