------------------------------ MODULE MCStartup ------------------------------
(***************************************************************************)
(* A small instance of Startup for TLC.                                    *)
(***************************************************************************)
EXTENDS Startup

Plain ==
    [listen |-> "good", advertise |-> "empty", ssh |-> "good", bootstrap |-> {"good"},
     maxPeers |-> 15, interval |-> 30, level |-> "", flagLevel |-> "", envLevel |-> ""]

\* Every pair of listen and advertised address, then one other field at a time.
ManyConfigs ==
    {[Plain EXCEPT !.listen = l, !.advertise = a] : l, a \in Addresses}
    \cup {[Plain EXCEPT !.bootstrap = {a}] : a \in Addresses}
    \cup {[Plain EXCEPT !.ssh = a] : a \in Addresses}
    \cup {[Plain EXCEPT !.maxPeers = n] : n \in {-1, 0}}
    \cup {[Plain EXCEPT !.interval = n] : n \in {-1, 0}}
    \cup {[Plain EXCEPT !.level = l, !.flagLevel = f, !.envLevel = e] : l, f, e \in Levels}
=============================================================================
