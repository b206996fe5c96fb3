------------------------------- MODULE PeerNet -------------------------------
(***************************************************************************)
(* The network front of one node (internal/p2p/node.go, discovery.go,      *)
(* scoring.go): its links to peers and their count, what the blocks a peer *)
(* passes on do to the peer's score, and the heartbeats of module Uptime   *)
(* that arrive beside them, on one clock.                                  *)
(*                                                                         *)
(* New dials the bootstrap peers (startDiscovery) before it registers the  *)
(* notifications that count links, and peers dial in meanwhile.            *)
(***************************************************************************)
EXTENDS Uptime

CONSTANTS
    Links,       \* bound: connections, each to some peer
    Peers,       \* bound: peers that pass on blocks
    BanFor,      \* ticks of a ban
    MaxReports   \* bound: blocks from one peer

ASSUME PeerBounds == {BanFor, MaxReports} \subseteq Nat
ASSUME LinksFinite == IsFiniteSet(Links)

BanBelow == -50

VARIABLES
    link,        \* per connection: down, dialled, up or lost
    registered,  \* New has called Network().Notify
    peerCount,   \* Node.peerCount
    score,       \* PeerScorer.score
    until,       \* PeerScorer.banned, 0 where there is no entry
    early,       \* history: links up when the notifications were registered
    reports,     \* history: blocks reported, by peer
    rejected,    \* history: blocks rejected since the peer's score was last reset
    forgiven     \* history: peers whose score a ban's end has reset

linkVars == <<link, registered, peerCount, early>>
scoreVars == <<score, until, reports, rejected, forgiven>>
vars == <<uptimeVars, linkVars, scoreVars>>

Init ==
    /\ UptimeInit
    /\ link = [c \in Links |-> "down"]
    /\ registered = FALSE
    /\ peerCount = 0
    /\ score = [p \in Peers |-> 0]
    /\ until = [p \in Peers |-> 0]
    /\ early = {}
    /\ reports = [p \in Peers |-> 0]
    /\ rejected = [p \in Peers |-> 0]
    /\ forgiven = {}

-----------------------------------------------------------------------------
(* Links *)

\* The links whose Connected notification is over and Disconnected is not.
Announced == {c \in Links : link[c] \in {"up", "lost"}}

\* Bootstrap, DHT or mDNS dials a peer, or a peer dials in.
Connect(c) ==
    /\ link[c] = "down"
    /\ link' = [link EXCEPT ![c] = "dialled"]
    /\ UNCHANGED <<uptimeVars, registered, peerCount, early, scoreVars>>

\* ConnectedF, if New has registered it by now.
Connected(c) ==
    /\ link[c] = "dialled"
    /\ link' = [link EXCEPT ![c] = "up"]
    /\ peerCount' = IF registered THEN peerCount + 1 ELSE peerCount
    /\ UNCHANGED <<uptimeVars, registered, early, scoreVars>>

Lost(c) ==
    /\ link[c] = "up"
    /\ link' = [link EXCEPT ![c] = "lost"]
    /\ UNCHANGED <<uptimeVars, registered, peerCount, early, scoreVars>>

\* The last peer is never counted out.
OneFewerLate(n) == IF n > 1 THEN n - 1 ELSE n

OneFewer(n) == IF n > 0 THEN n - 1 ELSE n

\* DisconnectedF comes for links that ConnectedF never saw as well.
Disconnected(c) ==
    /\ link[c] = "lost"
    /\ link' = [link EXCEPT ![c] = "down"]
    /\ peerCount' = IF registered THEN OneFewer(peerCount) ELSE peerCount
    /\ UNCHANGED <<uptimeVars, registered, early, scoreVars>>

\* The end of New.
Register ==
    /\ ~registered
    /\ registered' = TRUE
    /\ early' = Announced
    /\ UNCHANGED <<uptimeVars, link, peerCount, scoreVars>>

-----------------------------------------------------------------------------
(* Scores *)

Over(p) == until[p] # 0 /\ clock > until[p]
IsBanned(p) == until[p] # 0 /\ ~Over(p)

\* The score is left where it was.
SoftResetNot(sc) == sc

\* IsBanned deletes a ban that is over and lets the peer rehabilitate.
SoftReset(sc) == IF sc < 0 THEN -((-BanBelow) \div 2) ELSE sc

\* PeerScorer.Add on what IsBanned has left of the score and the ban.
Add(p, sc, ban, delta) ==
    /\ score' = [score EXCEPT ![p] = sc + delta]
    /\ until' = [until EXCEPT ![p] = IF sc + delta <= BanBelow THEN clock + BanFor ELSE ban]

Reported(p) == reports[p] < MaxReports /\ reports' = [reports EXCEPT ![p] = @ + 1]

\* OnBlock with a block that is saved: ReportPeer adds 2, ban or no ban, and
\* does not look whether a ban is over.
GoodBlock(p) ==
    /\ Reported(p)
    /\ Add(p, score[p], until[p], 2)
    /\ UNCHANGED <<uptimeVars, linkVars, rejected, forgiven>>

\* OnBlock with a block VerifyAndSaveGossipedBlockStrict refuses, one that is
\* only late included: ReportPeer takes 10 off unless the peer is banned.
RefusedBlock(p) ==
    /\ Reported(p)
    /\ IF IsBanned(p)
       THEN UNCHANGED <<score, until, rejected, forgiven>>
       ELSE IF Over(p)
       THEN /\ Add(p, SoftReset(score[p]), 0, -10)
            /\ rejected' = [rejected EXCEPT ![p] = 1]
            /\ forgiven' = forgiven \cup {p}
       ELSE /\ Add(p, score[p], 0, -10)
            /\ rejected' = [rejected EXCEPT ![p] = @ + 1]
            /\ UNCHANGED forgiven
    /\ UNCHANGED <<uptimeVars, linkVars>>

-----------------------------------------------------------------------------
PeerNext ==
    \/ Register
    \/ \E c \in Links : Connect(c)
    \/ \E c \in Links : Connected(c)
    \/ \E c \in Links : Lost(c)
    \/ \E c \in Links : Disconnected(c)
    \/ \E p \in Peers : GoodBlock(p)
    \/ \E p \in Peers : RefusedBlock(p)

Next ==
    \/ UptimeNext /\ UNCHANGED <<linkVars, scoreVars>>
    \/ PeerNext

Spec == Init /\ [][Next]_vars

-----------------------------------------------------------------------------
(* Properties *)

\* The count that Stats and the metrics show never exceeds the links that
\* exist, and falls short of them by no more than the links that were up
\* before New registered its notifications, whatever is dialled and lost later.
PeerCountBounds ==
    /\ peerCount <= Cardinality(Announced)
    /\ registered => peerCount >= Cardinality(Announced) - Cardinality(early)

\* A ban in force was earned: it takes five refused blocks from a clean start,
\* and three more once a ban is over, however many accepted blocks lie between
\* and although an accepted block may renew a ban.
BansEarned ==
    \A p \in Peers : IsBanned(p) => rejected[p] >= IF p \in forgiven THEN 3 ELSE 5
=============================================================================
