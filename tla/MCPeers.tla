------------------------------- MODULE MCPeers -------------------------------
(* Heartbeats share nothing with links and blocks but the clock, so it is    *)
(* enough to look at behaviours with traffic of one of the two kinds.        *)
EXTENDS PeerNet

CONSTANTS alice, ip, p, http1, http2, c1, c2

VARIABLE traffic

Beats == {[address |-> alice, unix |-> 2]}

MCInit == Init /\ traffic \in {"heartbeats", "blocks"}

MCNext ==
    /\ \/ traffic = "heartbeats" /\ UptimeNext /\ UNCHANGED <<linkVars, scoreVars>>
       \/ traffic = "blocks" /\ Tick /\ UNCHANGED <<linkVars, scoreVars>>
       \/ traffic = "blocks" /\ PeerNext
    /\ UNCHANGED traffic

MCSpec == MCInit /\ [][MCNext]_<<vars, traffic>>
=============================================================================
