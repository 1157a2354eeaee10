----------------------------- MODULE MCPeerConn -----------------------------
(***************************************************************************)
(* A small instance of PeerConn for TLC.                                   *)
(***************************************************************************)
EXTENDS PeerConn

\* An idle timeout of several keepalive intervals, as in the code (60 s and 20 s).
Defaults == [idle |-> 6, keepalive |-> 1, write |-> 1]

\* The idle timeout is shortened to the least that suffices with a delay of one:
\* the acceptor waits from the moment it sends the ack, the keepalive timer of
\* the dialer starts when the ack arrives, and its keepalive travels too.  With
\* this write timeout the send loop of a dead connection outlives the receive loop,
\* as it does with the large socket buffers of a real network.  The value of
\* keepalive, not being positive, leaves the default.
Shortest == [idle |-> 4, keepalive |-> 0, write |-> 5]

ASSUME ShortestTimely == Timely
=============================================================================
