---------------------------- MODULE StoreWriters -----------------------------
(***************************************************************************)
(* Several writers of one header store.  The engine is off and the nodes   *)
(* take turns as legacy producers (internal/consensus/producer.go); each   *)
(* also saves the blocks others announce (VerifyAndSaveGossipedBlock-      *)
(* Strict), fills in headers from the archive or from a peer               *)
(* (internal/sync/archive.go, internal/p2p/sync.go and block_provider.go)  *)
(* and prunes old ones.  Every one of these goroutines reads latest_height *)
(* in one store transaction and writes in another, and SaveBlock sets      *)
(* latest_height to whatever it is given.                                  *)
(*                                                                         *)
(* Only headers are modelled; TxPipeline and StateSync have the            *)
(* transactions.  The producer's pause after a block from outside is a     *)
(* matter of time alone: a node may skip any turn.  Who may lead is what a *)
(* node's own store says: validators it has not jailed, with enough stake. *)
(***************************************************************************)
EXTENDS Integers, Sequences, SequencesExt, FiniteSets

CONSTANTS
    Roster,         \* the registered validators, sorted: each is a node
    Syncers,        \* the nodes that sync headers and prune
    ChunkSize,      \* archiveRangeSize and maxBlocksPerResponse
    Keep,           \* KeepRecentBlocks
    Word,           \* 2^64, the width of a height
    NoBlock,        \* no header
    MaxHeight,      \* bound: heights
    MaxSeals,       \* bound: blocks one node seals
    Judgements,     \* bound: <<node, validator, standing>> that may come about
    MaxViews,       \* bound: how many of them do
    MaxSyncs,       \* bound: runs of SyncFromArchive and SyncFromPeers
    MaxPrunes       \* bound: runs of PruneOldBlocks

Nodes == Range(Roster)
Heights == 1..MaxHeight

ASSUME WriterBounds ==
    /\ {ChunkSize, Keep, Word, MaxHeight, MaxSeals} \subseteq Nat \ {0}
    /\ {MaxViews, MaxSyncs, MaxPrunes} \subseteq Nat
    /\ Word > 2 * MaxHeight + Keep
ASSUME RosterSorted == IsInjective(Roster) /\ Syncers \subseteq Nodes
ASSUME JudgementsType == Judgements \subseteq Nodes \X Nodes \X {"ok", "jailed", "below"}

VARIABLES
    chain, tip,  \* per node, the store's headers by height and latest_height
    standing,    \* per node, what its store says of each validator
    announced,   \* blocks published
    seal,        \* per node, trySeal and SealBlockWithTxs in progress
    gossip,      \* per node, the announced block that passed the checks
    sync,        \* per node, SyncFromArchive or SyncFromPeers in progress
    prune,       \* per node, the cutoff PruneOldBlocks has computed, or 0
    count,       \* how many seals by each node, views, syncs and prunes so far
    won,         \* history: who found itself leader of which height
    fell,        \* history: nodes whose tip has moved back
    passed       \* history: nodes whose sync skipped a height that others had stored

store == <<chain, tip>>
vars == <<chain, tip, standing, announced, seal, gossip, sync, prune, count, won, fell, passed>>

\* A hash names its block; the time in it tells apart two by one node at one height.
BlockHash(k) == <<k.height, k.by, k.time>>
Genesis == <<0>>

\* The headers that may be stored, and what they may link to.
Hashes == {Genesis} \cup (Heights \X Nodes \X Nat)
BlockHeader == [height : Heights, by : Nodes, time : Nat, prev : Hashes]
ASSUME NoBlockIsNone == NoBlock \notin BlockHeader

\* eligibleValidatorsLocked, and LeaderForHeight as node n computes it.
Eligible(n) == SelectSeq(Roster, LAMBDA v : standing[n][v] = "ok")
LeaderForHeight(n, h) ==
    IF Eligible(n) = <<>> THEN n ELSE Eligible(n)[(h % Len(Eligible(n))) + 1]

\* GetBlock(latest), which a node needs to seal or to accept a block.
TipLoads(n) == tip[n] > 0 => chain[n][tip[n]] # NoBlock

\* The header before the tip's is loaded.
TipHashOneBack(n) == IF tip[n] <= 1 THEN Genesis ELSE BlockHash(chain[n][tip[n] - 1])

\* The hash that a block on n's tip has to link to.
TipHash(n) == IF tip[n] = 0 THEN Genesis ELSE BlockHash(chain[n][tip[n]])

\* SaveBlock and SaveBlockWithTxs.
SaveBlock(n, k) ==
    /\ chain' = [chain EXCEPT ![n][k.height] = k]
    /\ tip' = [tip EXCEPT ![n] = k.height]
    /\ fell' = IF k.height < tip[n] THEN fell \cup {n} ELSE fell

Idle == [pc |-> "idle", saw |-> 0, prev |-> Genesis, block |-> NoBlock,
         kind |-> "none", from |-> 0, target |-> 0, todo |-> <<>>]

Init ==
    /\ chain = [n \in Nodes |-> [h \in Heights |-> NoBlock]]
    /\ tip = [n \in Nodes |-> 0]
    /\ standing = [n \in Nodes |-> [v \in Nodes |-> "ok"]]
    /\ announced = {}
    /\ seal = [n \in Nodes |-> Idle] /\ gossip = [n \in Nodes |-> Idle]
    /\ sync = [n \in Nodes |-> Idle] /\ prune = [n \in Nodes |-> 0]
    /\ count = [seals |-> [n \in Nodes |-> 0], views |-> 0, syncs |-> 0, prunes |-> 0]
    /\ won = {} /\ fell = {} /\ passed = {}

\* A jail record is written or ends, or a stake crosses the minimum, on one node.
StandingChanges(n, v, s) ==
    /\ <<n, v, s>> \in Judgements /\ count.views < MaxViews /\ standing[n][v] # s
    /\ standing' = [standing EXCEPT ![n][v] = s]
    /\ count' = [count EXCEPT !.views = @ + 1]
    /\ UNCHANGED <<store, announced, seal, gossip, sync, prune, won, fell, passed>>
-----------------------------------------------------------------------------
(* The producer.                                                             *)

\* IsLocalLeader of a node that has an address.
IsLocalLeader(n, h) == LeaderForHeight(n, h) = n

\* trySeal reads the tip and finds that this node leads the next height.
TrySeal(n) ==
    /\ seal[n].pc = "idle" /\ tip[n] < MaxHeight /\ count.seals[n] < MaxSeals
    /\ IsLocalLeader(n, tip[n] + 1)
    /\ seal' = [seal EXCEPT ![n].pc = "lead"]
    /\ won' = won \cup {<<n, tip[n] + 1>>}
    /\ UNCHANGED <<store, standing, announced, gossip, sync, prune, count, fell, passed>>

\* SealBlockWithTxs reads the tip again, and the header it builds on.
SealReads(n) ==
    /\ seal[n].pc = "lead" /\ tip[n] < MaxHeight /\ TipLoads(n)
    /\ seal' = [seal EXCEPT ![n] = [Idle EXCEPT !.pc = "seal", !.saw = tip[n], !.prev = TipHash(n)]]
    /\ UNCHANGED <<store, standing, announced, gossip, sync, prune, count, won, fell, passed>>

\* Its transactions applied, the block is signed, stored and published.
SealSaves(n) ==
    LET k == [height |-> seal[n].saw + 1, by |-> n, time |-> count.seals[n], prev |-> seal[n].prev] IN
    /\ seal[n].pc = "seal"
    /\ SaveBlock(n, k)
    /\ announced' = announced \cup {k}
    /\ seal' = [seal EXCEPT ![n] = Idle]
    /\ count' = [count EXCEPT !.seals[n] = @ + 1]
    /\ UNCHANGED <<standing, gossip, sync, prune, won, passed>>

\* The header to build on cannot be loaded, or signing or saving fails.
SealFails(n) ==
    /\ seal[n].pc # "idle" /\ seal' = [seal EXCEPT ![n] = Idle]
    /\ UNCHANGED <<store, standing, announced, gossip, sync, prune, count, won, fell, passed>>
-----------------------------------------------------------------------------
(* Announced blocks.                                                         *)

\* The checks of VerifyAndSaveGossipedBlockStrict on a well-formed block of a validator.
Accepts(n, k) ==
    /\ k.height = tip[n] + 1 /\ TipLoads(n) /\ k.prev = TipHash(n)
    /\ standing[n][k.by] # "jailed"

GossipBegins(n, k) ==
    /\ gossip[n].pc = "idle" /\ k.by # n /\ Accepts(n, k)
    /\ gossip' = [gossip EXCEPT ![n] = [Idle EXCEPT !.pc = "apply", !.saw = tip[n], !.block = k]]
    /\ UNCHANGED <<store, standing, announced, seal, sync, prune, count, won, fell, passed>>

GossipSaves(n) ==
    /\ gossip[n].pc = "apply" /\ SaveBlock(n, gossip[n].block)
    /\ gossip' = [gossip EXCEPT ![n] = Idle]
    /\ UNCHANGED <<standing, announced, seal, sync, prune, count, won, passed>>
-----------------------------------------------------------------------------
(* Header sync.                                                              *)

Lower(x, y) == IF x < y THEN x ELSE y

\* SyncFromArchive or SyncFromPeers starts below its target.
SyncBegins(n, kind, target) ==
    /\ sync[n].pc = "idle" /\ tip[n] < target /\ count.syncs < MaxSyncs
    /\ sync' = [sync EXCEPT ![n] = [Idle EXCEPT !.pc = "fetch", !.kind = kind,
                                                !.saw = tip[n],
                                                !.from = tip[n] + 1, !.target = target]]
    /\ count' = [count EXCEPT !.syncs = @ + 1]
    /\ passed' = passed \ {n}
    /\ UNCHANGED <<store, standing, announced, seal, gossip, prune, won, fell>>

\* What fetchArchiveRange may return: blocks that were published, with gaps.
ArchiveAnswers(from, to) ==
    {s \in SeqOf(announced, to - from + 1) :
        /\ \A i \in DOMAIN s : s[i].height \in from..to
        /\ \A i, j \in DOMAIN s : i < j => s[i].height < s[j].height}

\* GetBlockRange of peer p: its headers up to the first that is missing.
PeerAnswer(p, from, to) ==
    LET have == {h \in from..to : \A i \in from..h : chain[p][i] # NoBlock}
    IN  SubSeq(chain[p], from, from + Cardinality(have) - 1)

Fetched(n, answer, from) ==
    sync' = [sync EXCEPT ![n] = IF answer = <<>> /\ @.kind = "peers" THEN Idle
                                ELSE [@ EXCEPT !.pc = "save", !.todo = answer, !.from = from]]

\* The next range is fetched; after the last the sync ends, and so it does when a
\* peer has nothing of the range.
SyncFetches(n) ==
    LET s == sync[n]
        to == Lower(s.from + ChunkSize - 1, s.target) IN
    /\ s.pc = "fetch"
    /\ \/ /\ s.from > s.target
          /\ sync' = [sync EXCEPT ![n] = Idle]
       \/ /\ s.from <= s.target /\ s.kind = "archive"
          /\ \E answer \in ArchiveAnswers(s.from, to) : Fetched(n, answer, s.from + ChunkSize)
       \/ /\ s.from <= s.target /\ s.kind = "peers"
          /\ \E p \in Nodes \ {n} : Fetched(n, PeerAnswer(p, s.from, to), s.from)
    /\ UNCHANGED <<store, standing, announced, seal, gossip, prune, count, won, fell, passed>>

\* Every header fetched is written, whatever the tip is by now.
MissingAny(n, k) == TRUE

\* The tip is read anew before a header is written.
Missing(n, k) == k.height > tip[n]

SyncChecks(n) ==
    LET s == sync[n] k == Head(s.todo) IN
    /\ s.pc = "save"
    /\ \/ /\ s.todo = <<>>
          /\ sync' = [sync EXCEPT ![n].pc = "fetch"] /\ UNCHANGED passed
       \/ /\ s.todo # <<>> /\ Missing(n, k)
          /\ sync' = [sync EXCEPT ![n].pc = "write", ![n].saw = tip[n]] /\ UNCHANGED passed
       \/ /\ s.todo # <<>> /\ ~Missing(n, k)
          /\ sync' = [sync EXCEPT ![n].todo = Tail(@)]
          /\ passed' = IF k.height > s.saw THEN passed \cup {n} ELSE passed
    /\ UNCHANGED <<store, standing, announced, seal, gossip, prune, count, won, fell>>

\* A peer's header that was saved is asked for again.
FromAgain(s, k) == IF s.kind = "peers" THEN k.height ELSE s.from

\* Where SyncFromPeers goes on after saving k.
FromNext(s, k) == IF s.kind = "peers" THEN k.height + 1 ELSE s.from

SyncSaves(n) ==
    LET s == sync[n] k == Head(s.todo) IN
    /\ s.pc = "write" /\ SaveBlock(n, k)
    /\ sync' = [sync EXCEPT ![n].pc = "save", ![n].todo = Tail(@),
                               ![n].saw = k.height, ![n].from = FromNext(s, k)]
    /\ UNCHANGED <<standing, announced, seal, gossip, prune, count, won, passed>>

\* A request or a store transaction fails, or times out.
SyncFails(n) ==
    /\ sync[n].pc # "idle" /\ sync' = [sync EXCEPT ![n] = Idle]
    /\ UNCHANGED <<store, standing, announced, seal, gossip, prune, count, won, fell, passed>>
-----------------------------------------------------------------------------
(* Pruning.                                                                  *)

\* Nothing is said about chains that are shorter than what is kept.
WorthPruningAlways(latest) == TRUE

\* PruneOldBlocks' early return.
WorthPruning(latest) == latest > Keep

\* PruneOldBlocks reads the tip and computes the cutoff, in unsigned arithmetic.
PruneReads(n) ==
    /\ prune[n] = 0 /\ count.prunes < MaxPrunes /\ WorthPruning(tip[n])
    /\ prune' = [prune EXCEPT ![n] = (tip[n] - Keep) % Word]
    /\ count' = [count EXCEPT !.prunes = @ + 1]
    /\ UNCHANGED <<store, standing, announced, seal, gossip, sync, won, fell, passed>>

\* The headers below the cutoff go, in one transaction.
PruneDeletes(n) ==
    /\ prune[n] # 0
    /\ chain' = [chain EXCEPT ![n] = [h \in Heights |-> IF h < prune[n] THEN NoBlock ELSE @[h]]]
    /\ prune' = [prune EXCEPT ![n] = 0]
    /\ UNCHANGED <<tip, standing, announced, seal, gossip, sync, count, won, fell, passed>>
-----------------------------------------------------------------------------
Syncing(n) == SyncFetches(n) \/ SyncChecks(n) \/ SyncSaves(n)

Next ==
    \E n \in Nodes :
        \/ \E v \in Nodes, s \in {"ok", "jailed", "below"} : StandingChanges(n, v, s)
        \/ TrySeal(n) \/ SealReads(n) \/ SealSaves(n) \/ SealFails(n)
        \/ \E k \in announced : GossipBegins(n, k)
        \/ GossipSaves(n)
        \/ /\ n \in Syncers
           /\ \E kind \in {"archive", "peers"}, target \in Heights : SyncBegins(n, kind, target)
        \/ Syncing(n) \/ SyncFails(n)
        \/ n \in Syncers /\ PruneReads(n)
        \/ PruneDeletes(n)

\* Requests time out, so that the goroutine of a sync always gets on.
Spec == Init /\ [][Next]_vars /\ \A n \in Syncers : WF_vars(Syncing(n))
-----------------------------------------------------------------------------
\* Two nodes each found itself the leader of one height.
Contested == \E x, y \in won : x[1] # y[1] /\ x[2] = y[2]

(***************************************************************************)
(* The headers of all stores form one chain, each block by the leader of   *)
(* its height, unless two nodes each found itself leader of a height, or a *)
(* tip has moved back: nothing else that trySeal, gossip, sync and pruning *)
(* do between their reads of the tip and their writes makes a fork, a      *)
(* second block at a height or a broken link.                              *)
(***************************************************************************)
OneChain == ~Contested /\ fell = {} =>
    \A n \in Nodes, h \in Heights : chain[n][h] # NoBlock =>
        /\ <<chain[n][h].by, h>> \in won
        /\ \A m \in Nodes : chain[m][h] \in {NoBlock, chain[n][h]}
        /\ h > 1 /\ chain[n][h - 1] # NoBlock => chain[n][h].prev = BlockHash(chain[n][h - 1])

(***************************************************************************)
(* The header of the tip can be loaded, without which a node can neither   *)
(* seal nor accept another block: however pruning interleaves with the     *)
(* writers, unless the tip has moved back below the cutoff meanwhile.      *)
(***************************************************************************)
TipStaysLoadable == \A n \in Nodes : n \notin fell => TipLoads(n)

(***************************************************************************)
(* A tip moves back only when a header is written after another writer of  *)
(* the same store has raised the tip past the one that its check had seen. *)
(***************************************************************************)
FallsOnlyOvertaken == [][\A n \in Nodes : tip'[n] < tip[n] =>
    \E w \in {seal[n], gossip[n], sync[n]} :
        w.pc \in {"seal", "apply", "write"} /\ w.saw < tip'[n]]_vars

(***************************************************************************)
(* A sync that is running ends, unless it finds that another writer has    *)
(* stored a height it asked for: SyncFromPeers then asks for the same      *)
(* range for as long as the peer has nothing beyond.                       *)
(***************************************************************************)
SyncEnds == \A n \in Syncers : sync[n].pc # "idle" ~> sync[n].pc = "idle" \/ n \in passed
=============================================================================
