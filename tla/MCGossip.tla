------------------------------ MODULE MCGossip ------------------------------
(***************************************************************************)
(* A small instance of Gossip for TLC.  Key and node identifier of a node  *)
(* are named alike: k1 is the key of n1.                                   *)
(***************************************************************************)
EXTENDS Gossip, TLC

CONSTANTS n0, n1, n2, k0, k1, k2, c1, c2, m1, own

MCNodeIDOf == (k0 :> n0) @@ (k1 :> n1) @@ (k2 :> n2)

Msg(m, s, p, k, h) ==
    [id |-> m, sender |-> s, pubkey |-> p, sig |-> k, hops |-> h,
     wellFormed |-> TRUE, kind |-> "chat"]

\* Two nodes connect.  m1 is a message of n2, which n1 may relay before n2 has
\* connected: with a key to learn, a claim of n2 under the wrong key, an
\* oversized one, and one of no known type, without a key, that has no hop left.
\* The node's own message comes back.
NodePeerOf == (c1 :> n1) @@ (c2 :> n2)
NodeReceived ==
    {Msg(m1, n2, k2, k2, 3), Msg(m1, n2, k1, k1, 3),
     [Msg(m1, n2, k2, k2, 3) EXCEPT !.wellFormed = FALSE],
     [Msg(m1, n2, NoKey, k2, 0) EXCEPT !.kind = "other"],
     Msg(own, n0, k0, k0, 1)}
=============================================================================
