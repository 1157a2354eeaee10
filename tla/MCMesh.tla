------------------------------- MODULE MCMesh -------------------------------
(***************************************************************************)
(* A small instance of Mesh for TLC.                                       *)
(***************************************************************************)
EXTENDS Mesh, TLC

CONSTANTS n1, n2, n3, n4, n5, m1

\* A triangle with a tail: a message of n1 reaches n4 and n5 through n3, and n3
\* may hear of it from n2 first.
TailLinks ==
    {<<n1, n2>>, <<n2, n1>>, <<n2, n3>>, <<n3, n2>>, <<n1, n3>>, <<n3, n1>>,
     <<n3, n4>>, <<n4, n3>>, <<n4, n5>>, <<n5, n4>>}

\* The least family that MeshAssumption admits, distance in the graph.
Balls(b0, b1, b2, b3, b4) == (0 :> b0) @@ (1 :> b1) @@ (2 :> b2) @@ (3 :> b3) @@ (4 :> b4)
TailWithin ==
    (n1 :> Balls({n1}, {n1, n2, n3}, {n1, n2, n3, n4}, Nodes, Nodes))
    @@ (n2 :> Balls({n2}, {n1, n2, n3}, {n1, n2, n3, n4}, Nodes, Nodes))
    @@ (n3 :> Balls({n3}, {n1, n2, n3, n4}, Nodes, Nodes, Nodes))
    @@ (n4 :> Balls({n4}, {n3, n4, n5}, Nodes, Nodes, Nodes))
    @@ (n5 :> Balls({n5}, {n4, n5}, {n3, n4, n5}, Nodes, Nodes))

OneAuthor == (m1 :> n1)
=============================================================================
