----------------------------- MODULE MCManager -----------------------------
(***************************************************************************)
(* Small instances of Manager for TLC.                                     *)
(***************************************************************************)
EXTENDS Manager, TLC

CONSTANTS a, b, c, k1, k2, k3

\* The slots are interchangeable.
ConnSymmetry == Permutations(Conns)

\* Two nodes share a bootstrap peer.
Star == {<<a, b>>, <<c, b>>}
OneWay == {<<a, b>>}
NoRecords == {}
\* b is listed under the address of c as well, as after b has moved.
Moved == {<<b, b>>, <<b, c>>}
=============================================================================
