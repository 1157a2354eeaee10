--------------------------- MODULE Dissemination ---------------------------
(***************************************************************************)
(* What the mesh promises its users, whatever its topology, its failures   *)
(* and the way messages travel: a message appears on a node's partyline    *)
(* only after its author wrote it, and not again while the node remembers  *)
(* it.  Nothing is promised about when, or whether, it appears.            *)
(***************************************************************************)
EXTENDS Naturals

CONSTANTS
    Nodes,   \* the nodes of the mesh
    Msgs,    \* chat messages
    Author   \* the node at which each is written

VARIABLES
    written, \* messages their author has sent out
    memory,  \* messages each node remembers
    shown    \* how often each has appeared on a node's partyline since the node
             \* last forgot it

vars == <<written, memory, shown>>

Init ==
    /\ written = {}
    /\ memory = [n \in Nodes |-> {}]
    /\ shown = [n \in Nodes |-> [m \in Msgs |-> 0]]

\* The author's own users see the message without the help of the mesh.
Write(m) ==
    /\ m \notin written
    /\ written' = written \cup {m}
    /\ memory' = [memory EXCEPT ![Author[m]] = memory[Author[m]] \cup {m}]
    /\ UNCHANGED shown

Show(n, m) ==
    /\ m \in written /\ m \notin memory[n]
    /\ memory' = [memory EXCEPT ![n] = memory[n] \cup {m}]
    /\ shown' = [shown EXCEPT ![n][m] = @ + 1]
    /\ UNCHANGED written

Forget(n, m) ==
    /\ memory' = [memory EXCEPT ![n] = memory[n] \ {m}]
    /\ shown' = [shown EXCEPT ![n][m] = 0]
    /\ UNCHANGED written

Next ==
    \/ \E m \in Msgs : Write(m)
    \/ \E n \in Nodes, m \in Msgs : Show(n, m) \/ Forget(n, m)

Spec == Init /\ [][Next]_vars
=============================================================================
