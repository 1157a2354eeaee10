---------------------------- MODULE MCDiscovery ----------------------------
(***************************************************************************)
(* Small instances of Discovery for TLC.                                   *)
(***************************************************************************)
EXTENDS Discovery

Hello(p, a) == [id |-> p, addr |-> a, reachable |-> a # NoAddr]
Info(p, a, k, t) == [id |-> p, addr |-> a, reachable |-> TRUE, key |-> k, lastSeen |-> t]

\* p advertises an address, q a wildcard.
SomeHellos == {Hello("p", "a1"), Hello("q", Wildcard)}

\* An entry under somebody else's key, one about this node, old and new
\* addresses, a time beyond int64, the bootstrap address.
SomeExchanges ==
    {{Info("p", "a1", "p", 1), Info("q", "a1", "p", 1), Info("self", "a2", "self", 1)},
     {Info("p", "a2", "p", MaxUint), Info("q", Boot, "q", 1)}}

SomeSeeds == {[addr |-> "a2", reachable |-> TRUE, key |-> "p", lastSeen |-> 1,
               fails |-> 1, lastFail |-> 0]}

FewHellos == {Hello("p", "a1")}
FewExchanges == {{Info("p", "a2", "p", 2)}}
NoSeeds == {}
=============================================================================
