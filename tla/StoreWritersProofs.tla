-------------------------- MODULE StoreWritersProofs --------------------------
(***************************************************************************)
(* Proofs about StoreWriters, for any nodes, heights, chunk sizes and      *)
(* numbers of blocks kept.                                                 *)
(*                                                                         *)
(* WritersInv says of every goroutine what it still knows of the store     *)
(* when it writes: the headers it holds were published, and their heights  *)
(* are above the tip that it had read.  CalmInv is the argument for one    *)
(* chain.  While no height is contested and no tip has moved back, nobody  *)
(* can overtake a node that found itself leader: a published block above   *)
(* its tip would rest on one at the very next height, which only this node *)
(* may seal.                                                               *)
(***************************************************************************)
EXTENDS StoreWriters, FiniteSetTheorems, SequenceTheorems, TLAPS

\* A goroutine of a node and what it holds.
Proc == [pc : {"idle", "lead", "seal", "apply", "fetch", "save", "write"},
         saw : 0..MaxHeight, prev : Hashes, block : BlockHeader \cup {NoBlock},
         kind : {"none", "archive", "peers"}, from : Nat, target : 0..MaxHeight, todo : Seq(BlockHeader)]

Counts == [seals : [Nodes -> Nat], views : Nat, syncs : Nat, prunes : Nat]

TypeInv ==
    /\ chain \in [Nodes -> [Heights -> BlockHeader \cup {NoBlock}]]
    /\ tip \in [Nodes -> 0..MaxHeight]
    /\ announced \subseteq BlockHeader
    /\ seal \in [Nodes -> Proc] /\ gossip \in [Nodes -> Proc] /\ sync \in [Nodes -> Proc]
    /\ prune \in [Nodes -> 0..MaxHeight]
    /\ count \in Counts
    /\ won \subseteq Nodes \X Heights

\* What is stored has been published, at its own height.
StoreInv == \A n \in Nodes, h \in Heights :
    chain[n][h] # NoBlock => chain[n][h] \in announced /\ chain[n][h].height = h

\* What the goroutines of a node hold while they wait for the store.
SealOK(s) == s.pc = "seal" => s.saw < MaxHeight

GossipOK(g, pub) == g.pc = "apply" => g.block \in pub /\ g.block.height = g.saw + 1

SyncOK(s, pub) ==
    /\ \A i \in 1..Len(s.todo) : s.todo[i] \in pub
    /\ s.pc \in {"fetch", "save", "write"} => s.from > 0
    /\ s.pc = "write" => s.todo # <<>> /\ s.todo[1].height > s.saw

ProcInv == \A n \in Nodes :
    SealOK(seal[n]) /\ GossipOK(gossip[n], announced) /\ SyncOK(sync[n], announced)

\* As long as the tip of n never moved back, pruning stays below it.
LoadInv == \A n \in Nodes : n \notin fell =>
    TipLoads(n) /\ (prune[n] # 0 => prune[n] <= tip[n])

WritersInv == TypeInv /\ StoreInv /\ ProcInv /\ LoadInv

\* A block that node n may build at height h, on what has been published.
Rests(prev, h) ==
    \/ h = 1 /\ prev = Genesis
    \/ \E j \in announced : j.height = h - 1 /\ prev = BlockHash(j)

\* What OneChain presupposes.
Calm == ~Contested /\ fell = {}
-----------------------------------------------------------------------------
\* The bounds are natural numbers.
LEMMA Bounds ==
    /\ MaxHeight \in Nat /\ MaxHeight > 0 /\ ChunkSize \in Nat /\ ChunkSize > 0
    /\ Keep \in Nat /\ Keep > 0 /\ Word \in Nat /\ Word > 2 * MaxHeight + Keep
    /\ Heights \subseteq Nat /\ Heights = 1..MaxHeight
BY WriterBounds DEF Heights

\* An idle goroutine is a goroutine.
LEMMA IdleType == Idle \in Proc /\ Idle.pc = "idle" /\ Idle.todo = <<>> /\ Idle.saw = 0
<1>1. 0 \in 0..MaxHeight /\ 0 \in Nat
  BY Bounds
<1>2. <<>> \in Seq(BlockHeader)
  OBVIOUS
<1>3. Genesis \in Hashes /\ NoBlock \in BlockHeader \cup {NoBlock}
  BY Zenon DEF Hashes
<1>4. Idle \in Proc
  BY <1>1, <1>2, <1>3, Zenon DEF Idle, Proc
<1> QED BY <1>4 DEF Idle

\* Saving a published header keeps what StoreInv and LoadInv say.
LEMMA SaveBlockKeeps ==
    ASSUME WritersInv, NEW n \in Nodes, NEW k \in BlockHeader, SaveBlock(n, k),
           k \in announced', announced \subseteq announced', prune' = prune
    PROVE  /\ chain' \in [Nodes -> [Heights -> BlockHeader \cup {NoBlock}]]
           /\ tip' \in [Nodes -> 0..MaxHeight]
           /\ StoreInv' /\ LoadInv'
<1> USE DEF WritersInv, TypeInv
<1>0. k.height \in Heights /\ k.height \in 0..MaxHeight /\ k # NoBlock
  BY Bounds, NoBlockIsNone DEF BlockHeader
<1>1. \A m \in Nodes, h \in Heights :
        chain'[m][h] = IF m = n /\ h = k.height THEN k ELSE chain[m][h]
  BY <1>0 DEF SaveBlock
<1>2. \A m \in Nodes : tip'[m] = IF m = n THEN k.height ELSE tip[m]
  BY DEF SaveBlock
<1>3. chain' \in [Nodes -> [Heights -> BlockHeader \cup {NoBlock}]]
  BY <1>0 DEF SaveBlock
<1>4. tip' \in [Nodes -> 0..MaxHeight]
  BY <1>0 DEF SaveBlock
<1>5. StoreInv'
  BY <1>0, <1>1 DEF StoreInv
<1>6. LoadInv'
  <2> SUFFICES ASSUME NEW m \in Nodes, m \notin fell'
               PROVE  TipLoads(m)' /\ (prune[m] # 0 => prune[m] <= tip'[m])
    BY DEF LoadInv
  <2>1. m \notin fell /\ (m = n => ~(k.height < tip[n]))
    BY DEF SaveBlock
  <2>2. TipLoads(m) /\ (prune[m] # 0 => prune[m] <= tip[m])
    BY <2>1 DEF LoadInv
  <2>3. tip[m] \in 0..MaxHeight /\ prune[m] \in 0..MaxHeight /\ (tip[m] > 0 => tip[m] \in Heights)
    BY Bounds
  <2>4. CASE m = n
    BY <1>0, <1>1, <1>2, <2>1, <2>2, <2>3, <2>4, Bounds DEF TipLoads
  <2>5. CASE m # n
    BY <1>1, <1>2, <2>2, <2>3, <2>5 DEF TipLoads
  <2> QED BY <2>4, <2>5
<1> QED BY <1>3, <1>4, <1>5, <1>6

\* What StoreInv and LoadInv say does not depend on anything else.
LEMMA StoreSame ==
    ASSUME WritersInv, UNCHANGED <<chain, tip, prune, fell, announced>>
    PROVE  StoreInv' /\ LoadInv'
BY DEF WritersInv, StoreInv, LoadInv, TipLoads

\* What a node has stored may link the next block.
LEMMA TipHashType ==
    ASSUME WritersInv, NEW n \in Nodes, TipLoads(n)
    PROVE  /\ TipHash(n) \in Hashes
           /\ Rests(TipHash(n), tip[n] + 1)
<1>1. CASE tip[n] = 0
  BY <1>1 DEF TipHash, Hashes, Rests
<1>2. CASE tip[n] # 0
  <2> DEFINE k == chain[n][tip[n]]
  <2>1. tip[n] \in Heights /\ tip[n] > 0 /\ tip[n] \in Nat
    BY <1>2, Bounds DEF WritersInv, TypeInv
  <2>2. k \in announced /\ k.height = tip[n]
    BY <2>1 DEF WritersInv, StoreInv, TipLoads
  <2>3. k \in BlockHeader
    BY <2>2 DEF WritersInv, TypeInv
  <2>4. TipHash(n) = BlockHash(k)
    BY <1>2 DEF TipHash
  <2> HIDE DEF k
  <2>5. BlockHash(k) \in Hashes
    BY <2>3 DEF BlockHash, Hashes, BlockHeader
  <2>6. k.height = (tip[n] + 1) - 1
    BY <2>1, <2>2
  <2>7. \E j \in announced : j.height = (tip[n] + 1) - 1 /\ TipHash(n) = BlockHash(j)
    BY <2>2, <2>4, <2>6
  <2> QED BY <2>4, <2>5, <2>7, Zenon DEF Rests
<1> QED BY <1>1, <1>2

\* What GetBlockRange returns are headers that the peer has stored.
LEMMA PeerAnswerType ==
    ASSUME WritersInv, NEW p \in Nodes, NEW from \in Nat, NEW to \in Nat,
           from > 0, from <= to, to <= MaxHeight
    PROVE  /\ PeerAnswer(p, from, to) \in Seq(BlockHeader)
           /\ \A i \in 1..Len(PeerAnswer(p, from, to)) : PeerAnswer(p, from, to)[i] \in announced
<1> DEFINE have == {h \in from..to : \A i \in from..h : chain[p][i] # NoBlock}
           c == Cardinality(have)
           a == PeerAnswer(p, from, to)
<1>1. IsFiniteSet(from..to) /\ Cardinality(from..to) = to - from + 1
  BY FS_Interval
<1>2. IsFiniteSet(have) /\ c \in Nat /\ c <= to - from + 1
  BY <1>1, FS_Subset, FS_CardinalityType
<1>3. \A i \in from..(from + c - 1) : chain[p][i] # NoBlock
  <2> SUFFICES ASSUME NEW i \in from..(from + c - 1), chain[p][i] = NoBlock PROVE FALSE
    OBVIOUS
  <2>0. i \in Nat /\ i - 1 \in Int
    BY <1>2
  <2>1. have \subseteq from..(i - 1)
    BY <2>0
  <2>2. IsFiniteSet(from..(i - 1)) /\ Cardinality(from..(i - 1)) = i - from
    <3>1. IsFiniteSet(from..(i - 1)) /\ Cardinality(from..(i - 1)) =
             IF from > i - 1 THEN 0 ELSE (i - 1) - from + 1
      BY <2>0, FS_Interval
    <3>2. i \in Int /\ i >= from
      BY <1>2
    <3> HIDE DEF c
    <3> QED BY <3>1, <3>2
  <2>3. c <= i - from
    BY <2>1, <2>2, FS_Subset
  <2> HIDE DEF c
  <2> QED BY <1>2, <2>0, <2>3
<1> HIDE DEF c
<1>4. \A i \in from..(from + c - 1) : i \in Heights /\ chain[p][i] \in announced /\ chain[p][i] \in BlockHeader
  <2> SUFFICES ASSUME NEW i \in from..(from + c - 1)
               PROVE  i \in Heights /\ chain[p][i] \in announced /\ chain[p][i] \in BlockHeader
    OBVIOUS
  <2>1. i \in Heights
    BY <1>2, Bounds
  <2> QED BY <1>3, <2>1 DEF WritersInv, StoreInv, TypeInv
<1>5. a = SubSeq(chain[p], from, from + c - 1)
  BY DEF PeerAnswer, c
<1> DEFINE last == from + c - 1
<1>6. from \in Int /\ last \in Int /\ last - from + 1 = c /\ (IF from <= last THEN last - from + 1 ELSE 0) = c
  BY <1>2
<1>7. \A i \in from..last : chain[p][i] \in BlockHeader
  BY <1>4
<1>8. \A i \in 1..c : from + i - 1 \in from..last
  BY <1>2
<1> HIDE DEF a, last
<1>9. /\ SubSeq(chain[p], from, last) \in Seq(BlockHeader)
      /\ Len(SubSeq(chain[p], from, last)) = IF from <= last THEN last - from + 1 ELSE 0
      /\ \A i \in 1..(last - from + 1) : SubSeq(chain[p], from, last)[i] = chain[p][from + i - 1]
  BY <1>6, <1>7, SubSeqProperties
<1>10. a \in Seq(BlockHeader) /\ Len(a) = c /\ \A i \in 1..c : a[i] = chain[p][from + i - 1]
  BY <1>5, <1>6, <1>9, Zenon DEF last
<1>11. \A i \in 1..c : a[i] \in announced
  <2>1. \A i \in from..last : chain[p][i] \in announced
    BY <1>4 DEF last
  <2> QED BY <1>8, <1>10, <2>1, Zenon
<1> QED BY <1>10, <1>11 DEF a
-----------------------------------------------------------------------------
\* An idle goroutine holds nothing.
LEMMA IdleOK ==
    ASSUME NEW pub
    PROVE  SealOK(Idle) /\ GossipOK(Idle, pub) /\ SyncOK(Idle, pub)
BY DEF Idle, SealOK, GossipOK, SyncOK

\* What one goroutine of n does leaves what the others hold: it stays published.
LEMMA OneMoves ==
    ASSUME NEW f \in [Nodes -> Proc], NEW n \in Nodes, NEW x \in Proc, NEW pub, NEW more,
           pub \subseteq more
    PROVE  /\ [f EXCEPT ![n] = x] \in [Nodes -> Proc]
           /\ SealOK(x) /\ (\A m \in Nodes : SealOK(f[m]))
                => \A m \in Nodes : SealOK([f EXCEPT ![n] = x][m])
           /\ GossipOK(x, more) /\ (\A m \in Nodes : GossipOK(f[m], pub))
                => \A m \in Nodes : GossipOK([f EXCEPT ![n] = x][m], more)
           /\ SyncOK(x, more) /\ (\A m \in Nodes : SyncOK(f[m], pub))
                => \A m \in Nodes : SyncOK([f EXCEPT ![n] = x][m], more)
<1> DEFINE g == [f EXCEPT ![n] = x]
<1>1. g \in [Nodes -> Proc] /\ \A m \in Nodes : g[m] = IF m = n THEN x ELSE f[m]
  OBVIOUS
<1> HIDE DEF g
<1>2. \A m \in Nodes : GossipOK(f[m], pub) => GossipOK(f[m], more)
  BY DEF GossipOK
<1>3. \A m \in Nodes : SyncOK(f[m], pub) => SyncOK(f[m], more)
  BY DEF SyncOK
<1>4. /\ SealOK(x) /\ (\A m \in Nodes : SealOK(f[m])) => \A m \in Nodes : SealOK(g[m])
      /\ GossipOK(x, more) /\ (\A m \in Nodes : GossipOK(f[m], pub)) => \A m \in Nodes : GossipOK(g[m], more)
      /\ SyncOK(x, more) /\ (\A m \in Nodes : SyncOK(f[m], pub)) => \A m \in Nodes : SyncOK(g[m], more)
  BY <1>1, <1>2, <1>3
<1> QED BY <1>1, <1>4 DEF g

\* TrySeal, SealReads and SealFails.
LEMMA SealMoves ==
    ASSUME WritersInv, NEW n \in Nodes, NEW x \in Proc, SealOK(x), seal' = [seal EXCEPT ![n] = x],
           UNCHANGED <<store, announced, gossip, sync, prune, count, fell>>,
           won' \subseteq Nodes \X Heights
    PROVE  WritersInv'
<1>1. seal' \in [Nodes -> Proc] /\ \A m \in Nodes : SealOK(seal'[m])
  BY OneMoves DEF WritersInv, TypeInv, ProcInv
<1>2. TypeInv'
  BY <1>1 DEF WritersInv, TypeInv, store
<1>3. ProcInv'
  BY <1>1 DEF WritersInv, ProcInv
<1> QED BY <1>2, <1>3, StoreSame DEF WritersInv, store

\* trySeal finds the node leader of the next height.
LEMMA TrySealKeeps ==
    ASSUME WritersInv, NEW n \in Nodes, TrySeal(n)
    PROVE  WritersInv'
<1> DEFINE x == [seal[n] EXCEPT !.pc = "lead"]
<1>0. seal[n] \in Proc /\ x.pc = "lead"
  BY DEF WritersInv, TypeInv, Proc
<1>1. x \in Proc /\ SealOK(x)
  BY <1>0 DEF Proc, SealOK
<1>2. seal' = [seal EXCEPT ![n] = x]
  BY DEF TrySeal
<1> HIDE DEF x
<1>3. won' \subseteq Nodes \X Heights
  <2>1. tip[n] + 1 \in Heights
    BY Bounds DEF WritersInv, TypeInv, TrySeal
  <2> QED BY <2>1 DEF TrySeal, WritersInv, TypeInv
<1> QED BY <1>1, <1>2, <1>3, SealMoves DEF TrySeal

\* SealBlockWithTxs reads the tip and its header.
LEMMA SealReadsKeeps ==
    ASSUME WritersInv, NEW n \in Nodes, SealReads(n)
    PROVE  WritersInv'
<1> DEFINE x == [Idle EXCEPT !.pc = "seal", !.saw = tip[n], !.prev = TipHash(n)]
<1>1. TipHash(n) \in Hashes /\ tip[n] \in 0..MaxHeight /\ tip[n] < MaxHeight
  BY TipHashType DEF SealReads, WritersInv, TypeInv
<1>2. x \in Proc /\ SealOK(x)
  BY <1>1, IdleType DEF Proc, SealOK
<1>3. seal' = [seal EXCEPT ![n] = x]
  BY DEF SealReads
<1> HIDE DEF x
<1> QED BY <1>2, <1>3, SealMoves DEF SealReads, WritersInv, TypeInv

\* Sealing is given up.
LEMMA SealFailsKeeps ==
    ASSUME WritersInv, NEW n \in Nodes, SealFails(n)
    PROVE  WritersInv'
BY IdleType, IdleOK, SealMoves DEF SealFails, WritersInv, TypeInv

\* The sealed block is stored and published.
LEMMA SealSavesKeeps ==
    ASSUME WritersInv, NEW n \in Nodes, SealSaves(n)
    PROVE  WritersInv'
<1> DEFINE k == [height |-> seal[n].saw + 1, by |-> n, time |-> count.seals[n], prev |-> seal[n].prev]
<1>1. seal[n].saw \in 0..MaxHeight /\ seal[n].saw < MaxHeight /\ seal[n].prev \in Hashes
      /\ count.seals[n] \in Nat
  BY DEF WritersInv, TypeInv, ProcInv, SealOK, SealSaves, Proc, Counts
<1>2. k \in BlockHeader
  BY <1>1, Bounds DEF BlockHeader
<1>3. SaveBlock(n, k) /\ announced' = announced \cup {k} /\ seal' = [seal EXCEPT ![n] = Idle]
  BY DEF SealSaves
<1> HIDE DEF k
<1>4. /\ chain' \in [Nodes -> [Heights -> BlockHeader \cup {NoBlock}]]
      /\ tip' \in [Nodes -> 0..MaxHeight] /\ StoreInv' /\ LoadInv'
  BY <1>2, <1>3, SaveBlockKeeps DEF SealSaves
<1>5. seal' \in [Nodes -> Proc] /\ \A m \in Nodes : SealOK(seal'[m])
  BY <1>3, IdleType, IdleOK, OneMoves DEF WritersInv, TypeInv, ProcInv
<1>6. \A m \in Nodes : GossipOK(gossip'[m], announced') /\ SyncOK(sync'[m], announced')
  <2>1. UNCHANGED <<gossip, sync>> /\ announced \subseteq announced'
    BY <1>3 DEF SealSaves
  <2> QED BY <2>1 DEF WritersInv, ProcInv, GossipOK, SyncOK
<1>7. count' \in Counts
  <2> DEFINE made == [count.seals EXCEPT ![n] = @ + 1]
  <2>1. count \in Counts
    BY DEF WritersInv, TypeInv
  <2>2. made \in [Nodes -> Nat]
    BY <2>1 DEF Counts
  <2>3. count' = [count EXCEPT !.seals = made]
    BY <2>1 DEF SealSaves, Counts
  <2> HIDE DEF made
  <2> QED BY <2>1, <2>2, <2>3 DEF Counts
<1>8. TypeInv'
  <2>1. announced' \subseteq BlockHeader
    BY <1>2, <1>3 DEF WritersInv, TypeInv
  <2>2. UNCHANGED <<gossip, sync, prune, won>>
    BY DEF SealSaves
  <2> QED BY <1>4, <1>5, <1>7, <2>1, <2>2 DEF WritersInv, TypeInv
<1>9. ProcInv'
  BY <1>5, <1>6 DEF ProcInv
<1> QED BY <1>4, <1>8, <1>9 DEF WritersInv
-----------------------------------------------------------------------------
\* A published block passes the checks.
LEMMA GossipBeginsKeeps ==
    ASSUME WritersInv, NEW n \in Nodes, NEW k \in announced, GossipBegins(n, k)
    PROVE  WritersInv'
<1> DEFINE x == [Idle EXCEPT !.pc = "apply", !.saw = tip[n], !.block = k]
<1>1. k \in BlockHeader /\ tip[n] \in 0..MaxHeight /\ k.height = tip[n] + 1
  BY DEF GossipBegins, Accepts, WritersInv, TypeInv
<1>2. x \in Proc /\ GossipOK(x, announced)
  BY <1>1, IdleType DEF Proc, GossipOK
<1>3. gossip' = [gossip EXCEPT ![n] = x]
  BY DEF GossipBegins
<1> HIDE DEF x
<1>4. gossip' \in [Nodes -> Proc] /\ \A m \in Nodes : GossipOK(gossip'[m], announced)
  BY <1>2, <1>3, OneMoves DEF WritersInv, TypeInv, ProcInv
<1>5. TypeInv'
  BY <1>4 DEF WritersInv, TypeInv, GossipBegins, store
<1>6. ProcInv'
  BY <1>4 DEF WritersInv, ProcInv, GossipBegins
<1> QED BY <1>5, <1>6, StoreSame DEF WritersInv, GossipBegins, store

\* It is stored, whatever the tip is by then.
LEMMA GossipSavesKeeps ==
    ASSUME WritersInv, NEW n \in Nodes, GossipSaves(n)
    PROVE  WritersInv'
<1> DEFINE k == gossip[n].block
<1>1. k \in announced /\ k \in BlockHeader
  BY DEF GossipSaves, WritersInv, ProcInv, TypeInv, GossipOK
<1>2. SaveBlock(n, k) /\ gossip' = [gossip EXCEPT ![n] = Idle]
      /\ UNCHANGED <<announced, seal, sync, prune, count, won>>
  BY DEF GossipSaves
<1> HIDE DEF k
<1>3. /\ chain' \in [Nodes -> [Heights -> BlockHeader \cup {NoBlock}]]
      /\ tip' \in [Nodes -> 0..MaxHeight] /\ StoreInv' /\ LoadInv'
  BY <1>1, <1>2, SaveBlockKeeps
<1>4. gossip' \in [Nodes -> Proc] /\ \A m \in Nodes : GossipOK(gossip'[m], announced)
  BY <1>2, IdleType, IdleOK, OneMoves DEF WritersInv, TypeInv, ProcInv
<1>5. TypeInv'
  BY <1>2, <1>3, <1>4 DEF WritersInv, TypeInv
<1>6. ProcInv'
  BY <1>2, <1>4 DEF WritersInv, ProcInv
<1> QED BY <1>3, <1>5, <1>6 DEF WritersInv
-----------------------------------------------------------------------------
\* The steps of a sync that write nothing.
LEMMA SyncMoves ==
    ASSUME WritersInv, NEW n \in Nodes, NEW x \in Proc, SyncOK(x, announced),
           sync' = [sync EXCEPT ![n] = x],
           UNCHANGED <<store, announced, seal, gossip, prune, won, fell>>,
           count' \in Counts
    PROVE  WritersInv'
<1>1. sync' \in [Nodes -> Proc] /\ \A m \in Nodes : SyncOK(sync'[m], announced)
  BY OneMoves DEF WritersInv, TypeInv, ProcInv
<1>2. TypeInv'
  BY <1>1 DEF WritersInv, TypeInv, store
<1>3. ProcInv'
  BY <1>1 DEF WritersInv, ProcInv
<1> QED BY <1>2, <1>3, StoreSame DEF WritersInv, store

\* A sync starts above the tip.
LEMMA SyncBeginsKeeps ==
    ASSUME WritersInv, NEW n \in Nodes, NEW kind \in {"archive", "peers"}, NEW target \in Heights,
           SyncBegins(n, kind, target)
    PROVE  WritersInv'
<1> DEFINE x == [Idle EXCEPT !.pc = "fetch", !.kind = kind, !.saw = tip[n],
                             !.from = tip[n] + 1, !.target = target]
<1>1. tip[n] \in 0..MaxHeight /\ tip[n] + 1 \in Nat /\ tip[n] + 1 > 0 /\ target \in 0..MaxHeight
  BY Bounds DEF WritersInv, TypeInv
<1>2. x \in Proc
  BY <1>1, IdleType DEF Proc
<1>3. SyncOK(x, announced)
  BY <1>1, IdleType DEF SyncOK, Proc
<1>4. sync' = [sync EXCEPT ![n] = x]
  BY DEF SyncBegins
<1> HIDE DEF x
<1>5. count' \in Counts
  <2>1. count \in Counts /\ count' = [count EXCEPT !.syncs = @ + 1]
    BY DEF WritersInv, TypeInv, SyncBegins
  <2> QED BY <2>1 DEF Counts
<1> QED BY <1>2, <1>3, <1>4, <1>5, SyncMoves DEF SyncBegins

\* A sync takes what the archive or a peer answers.
LEMMA FetchedKeeps ==
    ASSUME WritersInv, NEW n \in Nodes, NEW answer \in Seq(BlockHeader),
           \A i \in 1..Len(answer) : answer[i] \in announced,
           NEW from \in Nat, from > 0, Fetched(n, answer, from),
           UNCHANGED <<store, announced, seal, gossip, prune, count, won, fell>>
    PROVE  WritersInv'
<1> DEFINE x == IF answer = <<>> /\ sync[n].kind = "peers" THEN Idle
                ELSE [sync[n] EXCEPT !.pc = "save", !.todo = answer, !.from = from]
<1>1. sync' = [sync EXCEPT ![n] = x]
  BY DEF Fetched
<1>2. sync[n] \in Proc
  BY DEF WritersInv, TypeInv
<1>3. x \in Proc /\ SyncOK(x, announced)
  <2>1. CASE answer = <<>> /\ sync[n].kind = "peers"
    BY <2>1, IdleType, IdleOK
  <2>2. CASE ~(answer = <<>> /\ sync[n].kind = "peers")
    <3>1. x = [sync[n] EXCEPT !.pc = "save", !.todo = answer, !.from = from]
      BY <2>2
    <3> HIDE DEF x
    <3> QED BY <1>2, <3>1 DEF Proc, SyncOK
  <2> QED BY <2>1, <2>2
<1> HIDE DEF x
<1> QED BY <1>1, <1>3, SyncMoves DEF WritersInv, TypeInv

\* The next range is fetched, from the archive or from a peer.
LEMMA SyncFetchesKeeps ==
    ASSUME WritersInv, NEW n \in Nodes, SyncFetches(n)
    PROVE  WritersInv'
<1> DEFINE s == sync[n]
           to == Lower(s.from + ChunkSize - 1, s.target)
<1>0. s \in Proc /\ s.pc = "fetch" /\ s.from > 0 /\ s.from \in Nat /\ s.target \in 0..MaxHeight
  BY DEF WritersInv, TypeInv, ProcInv, SyncOK, SyncFetches, Proc
<1>1. UNCHANGED <<store, announced, seal, gossip, prune, count, won, fell>>
  BY DEF SyncFetches
<1>2. CASE s.from > s.target /\ sync' = [sync EXCEPT ![n] = Idle]
  BY <1>1, <1>2, IdleType, IdleOK, SyncMoves DEF WritersInv, TypeInv
<1>3. CASE /\ s.from <= s.target /\ s.kind = "archive"
           /\ \E answer \in ArchiveAnswers(s.from, to) : Fetched(n, answer, s.from + ChunkSize)
  <2>1. PICK answer \in ArchiveAnswers(s.from, to) : Fetched(n, answer, s.from + ChunkSize)
    BY <1>3
  <2>2. answer \in SeqOf(announced, to - s.from + 1)
    BY DEF ArchiveAnswers
  <2>3. PICK m \in 0..(to - s.from + 1) : answer \in [1..m -> announced]
    BY <2>2, Zenon DEF SeqOf
  <2>4. m \in Nat /\ announced \subseteq BlockHeader
    BY DEF WritersInv, TypeInv
  <2>5. answer \in Seq(BlockHeader) /\ \A i \in 1..Len(answer) : answer[i] \in announced
    BY <2>3, <2>4
  <2>6. s.from + ChunkSize \in Nat /\ s.from + ChunkSize > 0
    BY <1>0, Bounds
  <2> QED BY <1>1, <2>1, <2>5, <2>6, FetchedKeeps
<1>4. CASE /\ s.from <= s.target /\ s.kind = "peers"
           /\ \E p \in Nodes \ {n} : Fetched(n, PeerAnswer(p, s.from, to), s.from)
  <2>1. PICK p \in Nodes \ {n} : Fetched(n, PeerAnswer(p, s.from, to), s.from)
    BY <1>4
  <2>2. to \in Nat /\ s.from <= to /\ to <= MaxHeight
    BY <1>0, <1>4, Bounds DEF Lower
  <2> HIDE DEF to, s
  <2>3. /\ PeerAnswer(p, s.from, to) \in Seq(BlockHeader)
        /\ \A i \in 1..Len(PeerAnswer(p, s.from, to)) : PeerAnswer(p, s.from, to)[i] \in announced
    BY <1>0, <2>2, PeerAnswerType
  <2> QED BY <1>0, <1>1, <2>1, <2>3, FetchedKeeps
<1> QED BY <1>2, <1>3, <1>4 DEF SyncFetches

\* The rest of what is to be saved was published too.
LEMMA TailOK ==
    ASSUME NEW todo \in Seq(BlockHeader), todo # <<>>, NEW pub,
           \A i \in 1..Len(todo) : todo[i] \in pub
    PROVE  /\ Head(todo) = todo[1] /\ Head(todo) \in pub /\ Head(todo) \in BlockHeader
           /\ Tail(todo) \in Seq(BlockHeader)
           /\ \A i \in 1..Len(Tail(todo)) : Tail(todo)[i] \in pub
<1>1. Len(todo) \in Nat /\ Len(todo) > 0
  OBVIOUS
<1>2. Head(todo) = todo[1] /\ Head(todo) \in BlockHeader /\ Tail(todo) \in Seq(BlockHeader)
  OBVIOUS
<1>3. Len(Tail(todo)) = Len(todo) - 1 /\ \A i \in 1..(Len(todo) - 1) : Tail(todo)[i] = todo[i + 1]
  OBVIOUS
<1>4. \A i \in 1..(Len(todo) - 1) : i + 1 \in 1..Len(todo)
  BY <1>1
<1>5. 1 \in 1..Len(todo)
  BY <1>1
<1> QED BY <1>2, <1>3, <1>4, <1>5

\* The tip is read before each header.
LEMMA SyncChecksKeeps ==
    ASSUME WritersInv, NEW n \in Nodes, SyncChecks(n)
    PROVE  WritersInv'
<1> DEFINE s == sync[n]
           k == Head(s.todo)
<1>0. s \in Proc /\ s.pc = "save" /\ SyncOK(s, announced)
  BY DEF WritersInv, TypeInv, ProcInv, SyncChecks
<1>1. UNCHANGED <<store, announced, seal, gossip, prune, count, won, fell>>
  BY DEF SyncChecks
<1>2. tip[n] \in 0..MaxHeight
  BY DEF WritersInv, TypeInv
<1>3. \E x \in Proc : SyncOK(x, announced) /\ sync' = [sync EXCEPT ![n] = x]
  <2>1. CASE s.todo = <<>> /\ sync' = [sync EXCEPT ![n].pc = "fetch"]
    <3> DEFINE x == [s EXCEPT !.pc = "fetch"]
    <3>1. sync' = [sync EXCEPT ![n] = x]
      BY <2>1
    <3>2. x \in Proc /\ SyncOK(x, announced)
      BY <1>0 DEF Proc, SyncOK
    <3> QED BY <3>1, <3>2
  <2>2. CASE s.todo # <<>> /\ Missing(n, k) /\ sync' = [sync EXCEPT ![n].pc = "write", ![n].saw = tip[n]]
    <3> DEFINE x == [s EXCEPT !.pc = "write", !.saw = tip[n]]
    <3>1. sync' = [sync EXCEPT ![n] = x]
      BY <2>2 DEF WritersInv, TypeInv
    <3>2. k = s.todo[1] /\ s.todo \in Seq(BlockHeader)
      BY <1>0, <2>2 DEF Proc
    <3>3. x \in Proc
      BY <1>0, <1>2 DEF Proc
    <3>4. SyncOK(x, announced)
      <4>1. s.todo[1].height > tip[n]
        BY <2>2, <3>2 DEF Missing
      <4> HIDE DEF s, k
      <4> QED BY <1>0, <2>2, <4>1 DEF SyncOK, Proc
    <3> QED BY <3>1, <3>3, <3>4
  <2>3. CASE s.todo # <<>> /\ ~Missing(n, k) /\ sync' = [sync EXCEPT ![n].todo = Tail(@)]
    <3> DEFINE x == [s EXCEPT !.todo = Tail(s.todo)]
    <3>1. sync' = [sync EXCEPT ![n] = x]
      BY <2>3
    <3>2. /\ Tail(s.todo) \in Seq(BlockHeader)
          /\ \A i \in 1..Len(Tail(s.todo)) : Tail(s.todo)[i] \in announced
      BY <1>0, <2>3, TailOK DEF Proc, SyncOK
    <3>3. x \in Proc /\ SyncOK(x, announced)
      BY <1>0, <3>2 DEF Proc, SyncOK
    <3> QED BY <3>1, <3>3
  <2> QED BY <2>1, <2>2, <2>3 DEF SyncChecks
<1> QED BY <1>1, <1>3, SyncMoves DEF WritersInv, TypeInv

\* The header is written, whatever the tip is by then.
LEMMA SyncSavesKeeps ==
    ASSUME WritersInv, NEW n \in Nodes, SyncSaves(n)
    PROVE  WritersInv'
<1> DEFINE s == sync[n]
           k == Head(s.todo)
           x == [s EXCEPT !.pc = "save", !.todo = Tail(s.todo), !.saw = k.height, !.from = FromNext(s, k)]
<1>0. s \in Proc /\ s.pc = "write" /\ SyncOK(s, announced)
  BY DEF WritersInv, TypeInv, ProcInv, SyncSaves
<1>1. /\ k \in announced /\ k \in BlockHeader /\ Tail(s.todo) \in Seq(BlockHeader)
      /\ \A i \in 1..Len(Tail(s.todo)) : Tail(s.todo)[i] \in announced
  BY <1>0, TailOK DEF SyncOK, Proc
<1>2. SaveBlock(n, k) /\ UNCHANGED <<announced, seal, gossip, prune, count, won>>
  BY DEF SyncSaves
<1>3. sync' = [sync EXCEPT ![n] = x]
  BY DEF SyncSaves, WritersInv, TypeInv
<1>4. x \in Proc /\ SyncOK(x, announced)
  <2>1. k.height \in 0..MaxHeight /\ k.height \in Nat
    BY <1>1, Bounds DEF BlockHeader
  <2>2. FromNext(s, k) \in Nat /\ FromNext(s, k) > 0
    BY <1>0, <2>1 DEF FromNext, SyncOK, Proc
  <2> HIDE DEF s, k
  <2> QED BY <1>0, <1>1, <2>1, <2>2 DEF SyncOK, Proc
<1> HIDE DEF x, k
<1>5. /\ chain' \in [Nodes -> [Heights -> BlockHeader \cup {NoBlock}]]
      /\ tip' \in [Nodes -> 0..MaxHeight] /\ StoreInv' /\ LoadInv'
  BY <1>1, <1>2, SaveBlockKeeps
<1>6. sync' \in [Nodes -> Proc] /\ \A m \in Nodes : SyncOK(sync'[m], announced)
  BY <1>3, <1>4, OneMoves DEF WritersInv, TypeInv, ProcInv
<1>7. TypeInv'
  BY <1>2, <1>5, <1>6 DEF WritersInv, TypeInv
<1>8. ProcInv'
  BY <1>2, <1>6 DEF WritersInv, ProcInv
<1> QED BY <1>5, <1>7, <1>8 DEF WritersInv

\* A sync is given up.
LEMMA SyncFailsKeeps ==
    ASSUME WritersInv, NEW n \in Nodes, SyncFails(n)
    PROVE  WritersInv'
BY IdleType, IdleOK, SyncMoves DEF SyncFails, WritersInv, TypeInv
-----------------------------------------------------------------------------
\* A node changes its view of a validator.
LEMMA StandingKeeps ==
    ASSUME WritersInv, NEW n \in Nodes, NEW v \in Nodes, NEW s, StandingChanges(n, v, s)
    PROVE  WritersInv'
<1>0. count' \in Counts
  <2>1. count \in Counts /\ count' = [count EXCEPT !.views = @ + 1]
    BY DEF WritersInv, TypeInv, StandingChanges
  <2> QED BY <2>1 DEF Counts
<1>1. TypeInv'
  BY <1>0 DEF WritersInv, TypeInv, StandingChanges, store
<1>2. ProcInv'
  BY DEF WritersInv, ProcInv, StandingChanges
<1> QED BY <1>1, <1>2, StoreSame DEF WritersInv, StandingChanges, store

\* The cutoff does not wrap around: the tip is above what is kept.
LEMMA CutoffBelowTip ==
    ASSUME NEW latest \in 0..MaxHeight, WorthPruning(latest)
    PROVE  (latest - Keep) % Word \in 1..latest
<1>1. latest - Keep \in Nat /\ latest - Keep > 0 /\ latest - Keep <= latest /\ latest - Keep < Word
  BY Bounds DEF WorthPruning
<1> QED BY <1>1, Bounds

\* PruneOldBlocks computes its cutoff.
LEMMA PruneReadsKeeps ==
    ASSUME WritersInv, NEW n \in Nodes, PruneReads(n)
    PROVE  WritersInv'
<1> DEFINE c == (tip[n] - Keep) % Word
<1>0. tip[n] \in 0..MaxHeight /\ c \in 1..tip[n]
  BY CutoffBelowTip DEF PruneReads, WritersInv, TypeInv
<1>1. prune' = [prune EXCEPT ![n] = c] /\ UNCHANGED <<chain, tip, announced, seal, gossip, sync, won, fell>>
  BY DEF PruneReads, store
<1>2. count' \in Counts
  <2>1. count \in Counts /\ count' = [count EXCEPT !.prunes = @ + 1]
    BY DEF WritersInv, TypeInv, PruneReads
  <2> QED BY <2>1 DEF Counts
<1> HIDE DEF c
<1>3. c \in 0..MaxHeight /\ c <= tip[n]
  BY <1>0, Bounds
<1>4. TypeInv'
  BY <1>1, <1>2, <1>3 DEF WritersInv, TypeInv
<1>5. ProcInv' /\ StoreInv'
  BY <1>1 DEF WritersInv, ProcInv, StoreInv
<1>6. LoadInv'
  BY <1>1, <1>3 DEF WritersInv, TypeInv, LoadInv, TipLoads
<1> QED BY <1>4, <1>5, <1>6 DEF WritersInv

\* PruneOldBlocks deletes below it.
LEMMA PruneDeletesKeeps ==
    ASSUME WritersInv, NEW n \in Nodes, PruneDeletes(n)
    PROVE  WritersInv'
<1>0. prune[n] \in 0..MaxHeight /\ prune[n] # 0 /\ tip \in [Nodes -> 0..MaxHeight]
  BY DEF PruneDeletes, WritersInv, TypeInv
<1>1. /\ chain' = [chain EXCEPT ![n] = [h \in Heights |-> IF h < prune[n] THEN NoBlock ELSE chain[n][h]]]
      /\ prune' = [prune EXCEPT ![n] = 0]
      /\ UNCHANGED <<tip, announced, seal, gossip, sync, count, won, fell>>
  BY DEF PruneDeletes
<1>2. \A m \in Nodes, h \in Heights :
        chain'[m][h] = IF m = n /\ h < prune[n] THEN NoBlock ELSE chain[m][h]
  BY <1>1 DEF WritersInv, TypeInv
<1>3. chain' \in [Nodes -> [Heights -> BlockHeader \cup {NoBlock}]]
  BY <1>1 DEF WritersInv, TypeInv
<1>4. TypeInv'
  <2>1. 0 \in 0..MaxHeight
    BY Bounds
  <2> QED BY <1>1, <1>3, <2>1 DEF WritersInv, TypeInv
<1>5. ProcInv'
  BY <1>1 DEF WritersInv, ProcInv
<1>6. StoreInv'
  BY <1>1, <1>2 DEF WritersInv, StoreInv
<1>7. LoadInv'
  <2> SUFFICES ASSUME NEW m \in Nodes, m \notin fell
               PROVE  TipLoads(m)' /\ (prune'[m] # 0 => prune'[m] <= tip[m])
    BY <1>1 DEF LoadInv
  <2>1. TipLoads(m) /\ (prune[m] # 0 => prune[m] <= tip[m])
    BY DEF WritersInv, LoadInv
  <2>2. tip[m] > 0 => tip[m] \in Heights
    BY <1>0, Bounds
  <2>3. tip[m] \in Nat /\ prune[n] \in Nat
    BY <1>0, Bounds
  <2>4. prune'[m] = IF m = n THEN 0 ELSE prune[m]
    BY <1>1 DEF WritersInv, TypeInv
  <2>5. TipLoads(m)'
    BY <1>0, <1>1, <1>2, <2>1, <2>2, <2>3 DEF TipLoads
  <2> QED BY <2>1, <2>4, <2>5
<1> QED BY <1>4, <1>5, <1>6, <1>7 DEF WritersInv
-----------------------------------------------------------------------------
\* WritersInv holds at the start,
LEMMA WritersInvInit == Init => WritersInv
<1> SUFFICES ASSUME Init PROVE WritersInv
  OBVIOUS
<1>0. 0 \in 0..MaxHeight /\ 0 \in Nat
  BY Bounds
<1>1. TypeInv
  BY <1>0, IdleType DEF Init, TypeInv, Counts
<1>2. StoreInv
  BY DEF Init, StoreInv
<1>3. ProcInv
  BY IdleOK DEF Init, ProcInv
<1>4. LoadInv
  BY DEF Init, LoadInv, TipLoads
<1> QED BY <1>1, <1>2, <1>3, <1>4 DEF WritersInv

\* and every step preserves it.
LEMMA WritersInvNext == WritersInv /\ [Next]_vars => WritersInv'
<1> SUFFICES ASSUME WritersInv, [Next]_vars PROVE WritersInv'
  OBVIOUS
<1>1. CASE UNCHANGED vars
  <2>1. TypeInv' /\ ProcInv'
    BY <1>1 DEF vars, WritersInv, TypeInv, ProcInv
  <2> QED BY <1>1, <2>1, StoreSame DEF vars, WritersInv
<1>2. CASE Next
  BY <1>2, StandingKeeps, TrySealKeeps, SealReadsKeeps, SealSavesKeeps, SealFailsKeeps,
     GossipBeginsKeeps, GossipSavesKeeps, SyncBeginsKeeps, SyncFetchesKeeps, SyncChecksKeeps,
     SyncSavesKeeps, SyncFailsKeeps, PruneReadsKeeps, PruneDeletesKeeps DEF Next, Syncing
<1> QED BY <1>1, <1>2

\* The steps that are about sealing or save a block, and the others.
LEMMA QuietOrNot ==
    ASSUME Next
    PROVE  \/ \E n \in Nodes : TrySeal(n) \/ SealReads(n) \/ SealSaves(n) \/ SealFails(n)
                                 \/ GossipSaves(n) \/ SyncSaves(n)
           \/ UNCHANGED <<tip, announced, seal, won, fell>>
<1> DEFINE Quiet == UNCHANGED <<tip, announced, seal, won, fell>>
<1>1. ASSUME NEW n \in Nodes, NEW v, NEW s, StandingChanges(n, v, s) PROVE Quiet
  BY <1>1 DEF StandingChanges, store
<1>2. ASSUME NEW n \in Nodes, NEW k, GossipBegins(n, k) PROVE Quiet
  BY <1>2 DEF GossipBegins, store
<1>3. ASSUME NEW n \in Nodes, NEW kind, NEW target, SyncBegins(n, kind, target) PROVE Quiet
  BY <1>3 DEF SyncBegins, store
<1>4. ASSUME NEW n \in Nodes, SyncFetches(n) PROVE Quiet
  BY <1>4 DEF SyncFetches, store
<1>5. ASSUME NEW n \in Nodes, SyncChecks(n) PROVE Quiet
  BY <1>5 DEF SyncChecks, store
<1>6. ASSUME NEW n \in Nodes, SyncFails(n) PROVE Quiet
  BY <1>6 DEF SyncFails, store
<1>7. ASSUME NEW n \in Nodes, PruneReads(n) PROVE Quiet
  BY <1>7 DEF PruneReads, store
<1>8. ASSUME NEW n \in Nodes, PruneDeletes(n) PROVE Quiet
  BY <1>8 DEF PruneDeletes
<1> HIDE DEF Quiet
<1>9. Quiet \/ \E n \in Nodes : TrySeal(n) \/ SealReads(n) \/ SealSaves(n) \/ SealFails(n)
                                  \/ GossipSaves(n) \/ SyncSaves(n)
  BY <1>1, <1>2, <1>3, <1>4, <1>5, <1>6, <1>7, <1>8 DEF Next, Syncing
<1> QED BY <1>9 DEF Quiet

(***************************************************************************)
(* Every goroutine writes only published headers above the tip it had      *)
(* read, and pruning stays below a tip that never moved back.              *)
(***************************************************************************)
THEOREM WritersInvHolds == Spec => []WritersInv
BY WritersInvInit, WritersInvNext, PTL DEF Spec

(***************************************************************************)
(* PruneOldBlocks never deletes the header of the tip, however it          *)
(* interleaves with the writers, unless the tip has moved back.            *)
(***************************************************************************)
THEOREM TipStaysLoadableHolds == Spec => []TipStaysLoadable
<1>1. WritersInv => TipStaysLoadable
  BY DEF WritersInv, LoadInv, TipStaysLoadable
<1> QED BY <1>1, WritersInvHolds, PTL

(***************************************************************************)
(* SaveBlock moves a tip back only when another writer of the same store   *)
(* has overtaken the one that saves.                                       *)
(***************************************************************************)
THEOREM FallsOnlyOvertakenHolds == Spec => FallsOnlyOvertaken
<1> DEFINE Overtaken == \A n \in Nodes : tip'[n] < tip[n] =>
             \E w \in {seal[n], gossip[n], sync[n]} :
                w.pc \in {"seal", "apply", "write"} /\ w.saw < tip'[n]
<1>1. WritersInv /\ [Next]_vars => [Overtaken]_vars
  <2> SUFFICES ASSUME WritersInv, Next, NEW m \in Nodes, tip'[m] < tip[m]
               PROVE  \E w \in {seal[m], gossip[m], sync[m]} :
                         w.pc \in {"seal", "apply", "write"} /\ w.saw < tip'[m]
    BY DEF Overtaken
  <2>0. tip \in [Nodes -> 0..MaxHeight] /\ tip[m] \in Int
    BY Bounds DEF WritersInv, TypeInv
  <2>1. ASSUME NEW n \in Nodes, NEW k, SaveBlock(n, k) PROVE m = n /\ tip'[m] = k.height
    BY <2>0, <2>1 DEF SaveBlock
  <2>2. ASSUME UNCHANGED tip PROVE FALSE
    BY <2>0, <2>2
  <2>3. ASSUME NEW n \in Nodes, SealSaves(n)
        PROVE  seal[m].pc = "seal" /\ seal[m].saw < tip'[m]
    <3>1. m = n /\ tip'[m] = seal[n].saw + 1
      BY <2>1, <2>3 DEF SealSaves
    <3>2. seal[n].saw \in Nat
      BY Bounds DEF WritersInv, TypeInv, Proc
    <3> QED BY <2>3, <3>1, <3>2 DEF SealSaves
  <2>4. ASSUME NEW n \in Nodes, GossipSaves(n)
        PROVE  gossip[m].pc = "apply" /\ gossip[m].saw < tip'[m]
    <3>1. m = n /\ tip'[m] = gossip[n].block.height /\ gossip[n].pc = "apply"
      BY <2>1, <2>4 DEF GossipSaves
    <3>2. gossip[n].block.height = gossip[n].saw + 1
      BY <3>1 DEF WritersInv, ProcInv, GossipOK
    <3>3. gossip[n].saw \in Nat
      BY Bounds DEF WritersInv, TypeInv, Proc
    <3> QED BY <3>1, <3>2, <3>3
  <2>5. ASSUME NEW n \in Nodes, SyncSaves(n)
        PROVE  sync[m].pc = "write" /\ sync[m].saw < tip'[m]
    <3>1. m = n /\ tip'[m] = Head(sync[n].todo).height /\ sync[n].pc = "write"
      BY <2>1, <2>5 DEF SyncSaves
    <3>2. sync[n].todo # <<>> /\ sync[n].todo[1].height > sync[n].saw
      BY <3>1 DEF WritersInv, ProcInv, SyncOK
    <3>3. sync[n].todo \in Seq(BlockHeader) /\ sync[n].saw \in Nat
      <4>1. sync[n] \in Proc
        BY DEF WritersInv, TypeInv
      <4> QED BY <4>1, Bounds DEF Proc
    <3>4. Head(sync[n].todo) = sync[n].todo[1] /\ sync[n].todo[1] \in BlockHeader
      BY <3>2, <3>3
    <3>5. sync[n].todo[1].height \in Nat
      BY <3>4, Bounds DEF BlockHeader
    <3> QED BY <3>1, <3>2, <3>3, <3>4, <3>5
  <2>6. \E n \in Nodes : SealSaves(n) \/ GossipSaves(n) \/ SyncSaves(n)
    BY <2>2, QuietOrNot DEF TrySeal, SealReads, SealFails, store
  <2> QED BY <2>3, <2>4, <2>5, <2>6
<1> QED BY <1>1, WritersInvHolds, PTL DEF Spec, FallsOnlyOvertaken
-----------------------------------------------------------------------------
\* What CalmInv says of published blocks, and of a node that seals.
BlocksCalm == \A k \in announced :
    /\ <<k.by, k.height>> \in won
    /\ k.height <= tip[k.by]
    /\ Rests(k.prev, k.height)
    /\ \A h \in 1..k.height : \E j \in announced : j.height = h
    /\ \A j \in announced : j.height = k.height => j = k

LeadCalm(n) ==
    /\ <<n, tip[n] + 1>> \in won
    /\ \A k \in announced : k.height <= tip[n]
    /\ seal[n].pc = "seal" => seal[n].saw = tip[n] /\ Rests(seal[n].prev, tip[n] + 1)

CalmInv == Calm => BlocksCalm /\ \A n \in Nodes : seal[n].pc # "idle" => LeadCalm(n)

\* CalmInv is about the published blocks, the tips and the seals under way.
LEMMA CalmSame ==
    ASSUME CalmInv, UNCHANGED <<tip, announced, seal, won, fell>>
    PROVE  CalmInv'
BY DEF CalmInv, Calm, Contested, BlocksCalm, LeadCalm, Rests

\* A calm state has had a calm past.
LEMMA CalmBefore ==
    ASSUME Calm', won \subseteq won', fell \subseteq fell'
    PROVE  Calm
BY DEF Calm, Contested

\* A published block is saved once more: on a node that leads it is not above the tip.
LEMMA CalmSaves ==
    ASSUME WritersInv, CalmInv, NEW n \in Nodes, NEW k \in announced, SaveBlock(n, k),
           UNCHANGED <<announced, seal, won>>
    PROVE  CalmInv'
<1> SUFFICES ASSUME Calm' PROVE BlocksCalm' /\ \A m \in Nodes : seal'[m].pc # "idle" => LeadCalm(m)'
  BY DEF CalmInv
<1>0. k \in BlockHeader /\ k.height \in Nat /\ announced \subseteq BlockHeader
      /\ tip \in [Nodes -> 0..MaxHeight] /\ \A m \in Nodes : tip[m] \in Nat
  BY Bounds DEF WritersInv, TypeInv, BlockHeader
<1>1. Calm /\ fell' = {} /\ k.height >= tip[n]
  BY <1>0, CalmBefore DEF SaveBlock, Calm
<1>2. BlocksCalm /\ \A m \in Nodes : seal[m].pc # "idle" => LeadCalm(m)
  BY <1>1 DEF CalmInv
<1>3. \A m \in Nodes : tip'[m] = IF m = n THEN k.height ELSE tip[m]
  BY <1>0 DEF SaveBlock
<1>4. \A j \in announced : j.by \in Nodes /\ j.height \in Nat
  BY <1>0, Bounds DEF BlockHeader
<1>5. BlocksCalm'
  <2>1. \A j \in announced : j.height <= tip'[j.by]
    <3> SUFFICES ASSUME NEW j \in announced PROVE j.height <= tip'[j.by]
      OBVIOUS
    <3>1. j.height <= tip[j.by]
      BY <1>2, Zenon DEF BlocksCalm
    <3>2. tip[j.by] <= tip'[j.by] /\ tip[j.by] \in Nat /\ tip'[j.by] \in Nat
      BY <1>0, <1>1, <1>3, <1>4
    <3> QED BY <1>4, <3>1, <3>2
  <2> QED BY <1>2, <2>1 DEF BlocksCalm, Rests
<1>6. ASSUME NEW m \in Nodes, seal'[m].pc # "idle" PROVE LeadCalm(m)'
  <2>1. LeadCalm(m)
    BY <1>2, <1>6
  <2>2. tip'[m] = tip[m]
    BY <1>0, <1>1, <1>3, <2>1 DEF LeadCalm
  <2> QED BY <2>1, <2>2 DEF LeadCalm, Rests
<1> QED BY <1>5, <1>6

\* A node that finds itself leader has no published block above its tip.
LEMMA CalmTrySeal ==
    ASSUME WritersInv, CalmInv, NEW n \in Nodes, TrySeal(n)
    PROVE  CalmInv'
<1> SUFFICES ASSUME Calm' PROVE BlocksCalm' /\ \A m \in Nodes : seal'[m].pc # "idle" => LeadCalm(m)'
  BY DEF CalmInv
<1>0. /\ tip \in [Nodes -> 0..MaxHeight] /\ \A m \in Nodes : tip[m] \in Nat
      /\ \A j \in announced : j.by \in Nodes /\ j.height \in Nat
  BY Bounds DEF WritersInv, TypeInv, BlockHeader
<1>1. won' = won \cup {<<n, tip[n] + 1>>} /\ UNCHANGED <<tip, announced, fell>>
  BY DEF TrySeal, store
<1>2. Calm /\ BlocksCalm /\ \A m \in Nodes : seal[m].pc # "idle" => LeadCalm(m)
  BY <1>1, CalmBefore DEF CalmInv
<1>3. \A m \in Nodes : m # n => seal'[m] = seal[m]
  BY DEF TrySeal, WritersInv, TypeInv
<1>4. seal'[n].pc = "lead"
  <2>1. seal[n] \in Proc
    BY DEF WritersInv, TypeInv
  <2> QED BY <2>1 DEF TrySeal, WritersInv, TypeInv, Proc
<1>5. \A j \in announced : j.height <= tip[n]
  <2> SUFFICES ASSUME NEW k \in announced, ~(k.height <= tip[n]) PROVE FALSE
    OBVIOUS
  <2>1. tip[n] + 1 \in 1..k.height
    BY <1>0
  <2>2. PICK j \in announced : j.height = tip[n] + 1
    BY <1>2, <2>1 DEF BlocksCalm
  <2>3. <<j.by, tip[n] + 1>> \in won' /\ <<n, tip[n] + 1>> \in won'
    BY <1>1, <1>2, <2>2 DEF BlocksCalm
  <2>4. j.by = n
    <3> DEFINE a == <<j.by, tip[n] + 1>>
               b == <<n, tip[n] + 1>>
    <3>1. a[1] = j.by /\ b[1] = n /\ a[2] = b[2]
      OBVIOUS
    <3>2. ~Contested'
      BY DEF Calm
    <3> HIDE DEF a, b
    <3>3. a[1] = b[1]
      BY <2>3, <3>1, <3>2 DEF Contested, a, b
    <3> QED BY <3>1, <3>3
  <2>5. j.height <= tip[n]
    BY <1>2, <2>4 DEF BlocksCalm
  <2> QED BY <1>0, <2>2, <2>5
<1>6. BlocksCalm'
  BY <1>1, <1>2 DEF BlocksCalm, Rests
<1>7. ASSUME NEW m \in Nodes, seal'[m].pc # "idle" PROVE LeadCalm(m)'
  <2>1. CASE m = n
    BY <1>1, <1>4, <1>5, <2>1 DEF LeadCalm
  <2>2. CASE m # n
    BY <1>1, <1>2, <1>3, <1>7, <2>2 DEF LeadCalm, Rests
  <2> QED BY <2>1, <2>2
<1> QED BY <1>6, <1>7

\* A leader builds on the last block published.
LEMMA CalmSealReads ==
    ASSUME WritersInv, CalmInv, NEW n \in Nodes, SealReads(n)
    PROVE  CalmInv'
<1>1. UNCHANGED <<tip, announced, won, fell>> /\ seal[n].pc = "lead"
  BY DEF SealReads, store
<1> SUFFICES ASSUME Calm' PROVE BlocksCalm' /\ \A m \in Nodes : seal'[m].pc # "idle" => LeadCalm(m)'
  BY DEF CalmInv
<1>2. BlocksCalm /\ \A m \in Nodes : seal[m].pc # "idle" => LeadCalm(m)
  BY <1>1, CalmBefore DEF CalmInv
<1>3. \A m \in Nodes : m # n => seal'[m] = seal[m]
  BY DEF SealReads, WritersInv, TypeInv
<1>4. seal'[n].saw = tip[n] /\ seal'[n].prev = TipHash(n)
  BY IdleType DEF SealReads, WritersInv, TypeInv, Proc
<1>5. Rests(TipHash(n), tip[n] + 1)
  BY TipHashType DEF SealReads
<1>6. BlocksCalm'
  BY <1>1, <1>2 DEF BlocksCalm, Rests
<1>7. ASSUME NEW m \in Nodes, seal'[m].pc # "idle" PROVE LeadCalm(m)'
  <2>1. CASE m = n
    <3>1. LeadCalm(n)
      BY <1>1, <1>2
    <3>2. Rests(seal[n].prev, tip[n] + 1)'
      BY <1>1, <1>4, <1>5 DEF Rests
    <3> QED BY <1>1, <1>4, <2>1, <3>1, <3>2 DEF LeadCalm
  <2>2. CASE m # n
    BY <1>1, <1>2, <1>3, <1>7, <2>2 DEF LeadCalm, Rests
  <2> QED BY <2>1, <2>2
<1> QED BY <1>6, <1>7

\* A leader that gives up leaves the others leading.
LEMMA CalmSealFails ==
    ASSUME WritersInv, CalmInv, NEW n \in Nodes, SealFails(n)
    PROVE  CalmInv'
<1>1. UNCHANGED <<tip, announced, won, fell>>
  BY DEF SealFails, store
<1>2. \A m \in Nodes : m # n => seal'[m] = seal[m]
  BY DEF SealFails, WritersInv, TypeInv
<1>3. seal'[n].pc = "idle"
  BY IdleType DEF SealFails, WritersInv, TypeInv
<1> QED BY <1>1, <1>2, <1>3 DEF CalmInv, Calm, Contested, BlocksCalm, LeadCalm, Rests

\* The block that a leader seals is the first at its height, on the last one published.
LEMMA CalmSealSaves ==
    ASSUME WritersInv, CalmInv, NEW n \in Nodes, SealSaves(n)
    PROVE  CalmInv'
<1> DEFINE k == [height |-> seal[n].saw + 1, by |-> n, time |-> count.seals[n], prev |-> seal[n].prev]
<1> SUFFICES ASSUME Calm' PROVE BlocksCalm' /\ \A m \in Nodes : seal'[m].pc # "idle" => LeadCalm(m)'
  BY DEF CalmInv
<1>0. /\ tip \in [Nodes -> 0..MaxHeight] /\ \A m \in Nodes : tip[m] \in Nat
      /\ \A j \in announced : j.by \in Nodes /\ j.height \in Nat
  BY Bounds DEF WritersInv, TypeInv, BlockHeader
<1>1. SaveBlock(n, k) /\ announced' = announced \cup {k} /\ won' = won /\ seal[n].pc = "seal"
  BY DEF SealSaves
<1>2. Calm /\ fell' = {} /\ fell = {}
  BY <1>1, CalmBefore DEF SaveBlock, Calm
<1>3. BlocksCalm /\ (\A m \in Nodes : seal[m].pc # "idle" => LeadCalm(m)) /\ LeadCalm(n)
  BY <1>1, <1>2 DEF CalmInv
<1>4. k.height = tip[n] + 1 /\ k.by = n /\ k.prev = seal[n].prev /\ seal[n].saw = tip[n]
  BY <1>1, <1>3 DEF LeadCalm
<1>5. \A m \in Nodes : m # n => seal'[m] = seal[m]
  BY DEF SealSaves, WritersInv, TypeInv
<1>6. seal'[n].pc = "idle"
  BY IdleType DEF SealSaves, WritersInv, TypeInv
<1> HIDE DEF k
<1>7. \A m \in Nodes : tip'[m] = IF m = n THEN tip[n] + 1 ELSE tip[m]
  BY <1>0, <1>1, <1>4 DEF SaveBlock
<1>8. \A j \in announced : j.height <= tip[n]
  BY <1>3 DEF LeadCalm
<1>9. ASSUME NEW prev, NEW h, Rests(prev, h) PROVE Rests(prev, h)'
  BY <1>1, <1>9 DEF Rests
<1>10. Rests(k.prev, k.height)
  BY <1>1, <1>3, <1>4 DEF LeadCalm
<1>11. BlocksCalm'
  <2> SUFFICES ASSUME NEW b \in announced'
               PROVE  /\ <<b.by, b.height>> \in won
                      /\ b.height <= tip'[b.by]
                      /\ Rests(b.prev, b.height)'
                      /\ \A h \in 1..b.height : \E j \in announced' : j.height = h
                      /\ \A j \in announced' : j.height = b.height => j = b
    BY <1>1 DEF BlocksCalm
  <2>1. CASE b = k
    <3>1. <<b.by, b.height>> \in won /\ b.height <= tip'[b.by]
      BY <1>0, <1>3, <1>4, <1>7, <2>1 DEF LeadCalm
    <3>2. Rests(b.prev, b.height)'
      BY <1>9, <1>10, <2>1
    <3>3. \A h \in 1..b.height : \E j \in announced' : j.height = h
      <4> SUFFICES ASSUME NEW h \in 1..b.height PROVE \E j \in announced' : j.height = h
        OBVIOUS
      <4>1. CASE h = b.height
        BY <4>1
      <4>2. CASE h # b.height
        <5>1. h \in 1..tip[n] /\ tip[n] > 0 /\ k.height # 1 /\ k.height - 1 = tip[n]
          BY <1>0, <1>4, <2>1, <4>2
        <5>2. PICK j \in announced : j.height = tip[n]
          BY <1>10, <5>1 DEF Rests
        <5>3. \E i \in announced : i.height = h
          BY <1>3, <5>1, <5>2 DEF BlocksCalm
        <5> QED BY <1>1, <5>3
      <4> QED BY <4>1, <4>2
    <3>4. \A j \in announced' : j.height = b.height => j = b
      BY <1>0, <1>1, <1>4, <1>8, <2>1
    <3> QED BY <3>1, <3>2, <3>3, <3>4
  <2>2. CASE b # k
    <3>0. b \in announced
      BY <1>1, <2>2
    <3>1. <<b.by, b.height>> \in won /\ b.height <= tip'[b.by]
      BY <1>0, <1>3, <1>7, <3>0 DEF BlocksCalm
    <3>2. Rests(b.prev, b.height)'
      BY <1>3, <1>9, <3>0 DEF BlocksCalm
    <3>3. \A h \in 1..b.height : \E j \in announced' : j.height = h
      BY <1>1, <1>3, <3>0 DEF BlocksCalm
    <3>4. \A j \in announced' : j.height = b.height => j = b
      <4>1. \A j \in announced : j.height = b.height => j = b
        BY <1>3, <3>0, Zenon DEF BlocksCalm
      <4>2. b.height # k.height
        BY <1>0, <1>4, <1>8, <3>0
      <4> QED BY <1>1, <4>1, <4>2
    <3> QED BY <3>1, <3>2, <3>3, <3>4
  <2> QED BY <2>1, <2>2
<1>12. ASSUME NEW m \in Nodes, seal'[m].pc # "idle" PROVE LeadCalm(m)'
  <2>0. m # n /\ seal'[m] = seal[m] /\ tip'[m] = tip[m] /\ LeadCalm(m)
    BY <1>3, <1>5, <1>6, <1>7, <1>12
  <2>1. k.height <= tip[m]
    <3> SUFFICES ASSUME ~(tip[n] + 1 <= tip[m]) PROVE FALSE
      BY <1>4
    <3>1. tip[n] >= tip[m]
      BY <1>0
    <3>2. tip[n] # tip[m]
      <4> SUFFICES ASSUME tip[n] = tip[m] PROVE FALSE
        OBVIOUS
      <4> DEFINE a == <<n, tip[n] + 1>>
                 c == <<m, tip[n] + 1>>
      <4>1. a[1] = n /\ c[1] = m /\ a[2] = c[2]
        OBVIOUS
      <4>2. a \in won /\ c \in won
        BY <1>3, <2>0 DEF LeadCalm
      <4> HIDE DEF a, c
      <4> QED BY <1>2, <2>0, <4>1, <4>2 DEF Calm, Contested
    <3>3. tip[n] > 0 /\ tip[n] \in Heights
      BY <1>0, <3>1, <3>2, Bounds
    <3>4. chain[n][tip[n]] \in announced /\ chain[n][tip[n]].height = tip[n]
      BY <1>2, <3>3 DEF WritersInv, LoadInv, TipLoads, StoreInv
    <3>5. tip[n] <= tip[m]
      BY <2>0, <3>4 DEF LeadCalm
    <3> QED BY <1>0, <3>1, <3>2, <3>5
  <2>2. \A j \in announced' : j.height <= tip'[m]
    BY <1>1, <2>0, <2>1 DEF LeadCalm
  <2>3. <<m, tip'[m] + 1>> \in won'
    BY <1>1, <2>0 DEF LeadCalm
  <2>4. seal'[m].pc = "seal" => seal'[m].saw = tip'[m] /\ Rests(seal[m].prev, tip[m] + 1)'
    <3> SUFFICES ASSUME seal[m].pc = "seal" PROVE seal[m].saw = tip[m] /\ Rests(seal[m].prev, tip[m] + 1)'
      BY <2>0
    <3>1. seal[m].saw = tip[m] /\ Rests(seal[m].prev, tip[m] + 1)
      BY <2>0 DEF LeadCalm
    <3> QED BY <1>1, <2>0, <3>1 DEF Rests
  <2> QED BY <2>2, <2>3, <2>4 DEF LeadCalm
<1> QED BY <1>11, <1>12

\* Every step preserves CalmInv.
LEMMA CalmInvNext == WritersInv /\ CalmInv /\ [Next]_vars => CalmInv'
<1> SUFFICES ASSUME WritersInv, CalmInv, [Next]_vars PROVE CalmInv'
  OBVIOUS
<1>1. ASSUME NEW n \in Nodes, GossipSaves(n) PROVE CalmInv'
  <2>1. gossip[n].block \in announced
    BY <1>1 DEF GossipSaves, WritersInv, ProcInv, GossipOK
  <2> QED BY <1>1, <2>1, CalmSaves DEF GossipSaves
<1>2. ASSUME NEW n \in Nodes, SyncSaves(n) PROVE CalmInv'
  <2>1. sync[n] \in Proc /\ sync[n].todo \in Seq(BlockHeader)
    BY DEF WritersInv, TypeInv, Proc
  <2>2. Head(sync[n].todo) \in announced
    BY <1>2, <2>1, TailOK DEF SyncSaves, WritersInv, ProcInv, SyncOK
  <2> QED BY <1>2, <2>2, CalmSaves DEF SyncSaves
<1>3. ASSUME UNCHANGED <<tip, announced, seal, won, fell>> PROVE CalmInv'
  BY <1>3, CalmSame
<1>4. CASE UNCHANGED vars
  BY <1>3, <1>4 DEF vars
<1>5. CASE Next
  BY <1>1, <1>2, <1>3, <1>5, QuietOrNot, CalmTrySeal, CalmSealReads, CalmSealFails, CalmSealSaves
<1> QED BY <1>4, <1>5

(***************************************************************************)
(* The leaders' turns are enough for one chain: where each height has one  *)
(* self-declared leader and no tip moves back, nothing that trySeal,       *)
(* gossip, sync and pruning do between reading the tip and writing forks   *)
(* the chain, for any number of nodes, heights and schedules.              *)
(***************************************************************************)
THEOREM OneChainHolds == Spec => []OneChain
<1>1. Init => CalmInv
  BY IdleType DEF Init, CalmInv, BlocksCalm
<1>2. WritersInv /\ CalmInv => OneChain
  <2> SUFFICES ASSUME WritersInv, CalmInv, Calm, NEW n \in Nodes, NEW h \in Heights, chain[n][h] # NoBlock
               PROVE  /\ <<chain[n][h].by, h>> \in won
                      /\ \A m \in Nodes : chain[m][h] \in {NoBlock, chain[n][h]}
                      /\ h > 1 /\ chain[n][h - 1] # NoBlock
                           => chain[n][h].prev = BlockHash(chain[n][h - 1])
    BY DEF OneChain, Calm
  <2>0. BlocksCalm /\ StoreInv
    BY DEF CalmInv, WritersInv
  <2>1. \A j, k \in announced : j.height = k.height => j = k
    BY <2>0, Zenon DEF BlocksCalm
  <2>2. chain[n][h] \in announced /\ chain[n][h].height = h /\ h \in Nat
    BY <2>0, Bounds DEF StoreInv
  <2>3. <<chain[n][h].by, h>> \in won
    BY <2>0, <2>2 DEF BlocksCalm
  <2>4. \A m \in Nodes : chain[m][h] \in {NoBlock, chain[n][h]}
    <3> SUFFICES ASSUME NEW m \in Nodes, chain[m][h] # NoBlock PROVE chain[m][h] = chain[n][h]
      OBVIOUS
    <3>1. chain[m][h] \in announced /\ chain[m][h].height = h
      BY <2>0 DEF StoreInv
    <3> QED BY <2>2, <2>1, <3>1, Zenon
  <2>5. ASSUME h > 1, chain[n][h - 1] # NoBlock PROVE chain[n][h].prev = BlockHash(chain[n][h - 1])
    <3>1. h - 1 \in Heights
      BY <2>2, <2>5, Bounds
    <3>2. chain[n][h - 1] \in announced /\ chain[n][h - 1].height = h - 1
      BY <2>0, <2>5, <3>1 DEF StoreInv
    <3>3. PICK j \in announced : j.height = h - 1 /\ chain[n][h].prev = BlockHash(j)
      <4>1. Rests(chain[n][h].prev, h)
        BY <2>0, <2>2, Zenon DEF BlocksCalm
      <4>2. h # 1
        BY <2>2, <2>5
      <4> QED BY <4>1, <4>2, Zenon DEF Rests
    <3>4. j = chain[n][h - 1]
      BY <2>1, <3>2, <3>3, Zenon
    <3> QED BY <3>3, <3>4
  <2> QED BY <2>3, <2>4, <2>5
<1> QED BY <1>1, <1>2, CalmInvNext, WritersInvHolds, PTL DEF Spec
=============================================================================
