--------------------------- MODULE StateSyncProofs ---------------------------
(***************************************************************************)
(* With the legacy producer, under which only the seed seals, the joiner's *)
(* headers are the seed's and the header of its tip is stored, for any     *)
(* transactions, any number of heights, failures and imports, and any      *)
(* window of recent headers in a snapshot.                                 *)
(*                                                                         *)
(* HeadersAgree says nothing of what is still on its way: an announced     *)
(* block, a snapshot and what is left of an import were read from a chain  *)
(* of the seed that has grown since.  WayInv says that they are still part *)
(* of it, because the seed's chain is only ever extended (SeedInv), and    *)
(* that the header at the height an import will make the tip is among      *)
(* those it has yet to save, or is stored.                                 *)
(*                                                                         *)
(* The second part is about the accounts: FollowInv, stated there.         *)
(***************************************************************************)
EXTENDS StateSync, SequenceTheorems, TLAPS

\* A SealBlockWithTxs and the replay of an announced block in progress.
Sealing == [pc : {"idle", "apply"}, height : 0..MaxHeight, prev : Hashes, todo : Seq(Txs),
            applied : Seq(Txs)]
Gossiping == [pc : {"idle", "apply"}, block : Block \cup {NoBlock}, todo : Seq(Txs)]
Headers == [Heights -> Block \cup {NoBlock}]

TypeInv ==
    /\ chain \in [Nodes -> Headers]
    /\ tip \in [Nodes -> 0..MaxHeight]
    /\ seal \in [Nodes -> Sealing]
    /\ gossip \in [Nodes -> Gossiping]
    /\ snap = [pc |-> snap.pc, tip |-> snap.tip, acc |-> snap.acc, accounts |-> snap.accounts,
               minted |-> snap.minted, headers |-> snap.headers, quiet |-> snap.quiet]
    /\ snap.headers \in Seq(Block) /\ snap.tip \in 0..MaxHeight
    /\ import = [pc |-> import.pc, force |-> import.force, accounts |-> import.accounts,
                 headers |-> import.headers, tip |-> import.tip]
    /\ import.headers \in Seq(Block) /\ import.tip \in 0..MaxHeight

\* The seed's chain is filled up to its tip, and only it seals, at its tip.
SeedInv ==
    /\ \A h \in Heights : h > tip[Seed] => chain[Seed][h] = NoBlock
    /\ \A h \in Heights : h <= tip[Seed] => chain[Seed][h] \in Block /\ chain[Seed][h].height = h
    /\ seal[Seed].pc = "apply" => seal[Seed].height = tip[Seed] + 1
    /\ seal[Joiner].pc = "idle" /\ gossip[Seed].pc = "idle"

OfSeed(k) == k.height <= tip[Seed] /\ chain[Seed][k.height] = k

\* Headers of the seed, of which the last is that of height h, unless h is 0.
Ends(hs, h) == hs # <<>> /\ hs[Len(hs)].height = h

\* Whatever is on its way to the joiner is a part of the seed's chain, and an
\* import that will set the tip has that header, or has stored it.
WayInv ==
    /\ \A k \in announced : k \in Block /\ OfSeed(k)
    /\ gossip[Joiner].pc = "apply" => gossip[Joiner].block \in announced
    /\ snap.tip <= tip[Seed] /\ import.tip <= tip[Seed]
    /\ \A i \in DOMAIN snap.headers : OfSeed(snap.headers[i])
    /\ \A i \in DOMAIN import.headers : OfSeed(import.headers[i])
    /\ snap.pc = "ready" /\ snap.tip > 0 => Ends(snap.headers, snap.tip)
    /\ import.tip > 0 =>
         Ends(import.headers, import.tip) \/ chain[Joiner][import.tip] # NoBlock

SyncInv == TypeInv /\ SeedInv /\ WayInv /\ HeadersAgree

-----------------------------------------------------------------------------
(* Operators *)

\* The transactions of a sealed block are a sequence of transactions.
LEMMA BlockTxsTyped == \A b \in BlockTxs : b \in Seq(Txs)
BY SyncBounds DEF BlockTxs, BoundedSeq, SeqOf

\* A header is not the absence of one.
LEMMA BlockIsSome == \A k \in Block : k # NoBlock
BY NoBlockIsNone

\* The fields of a block.
LEMMA BlockFields == \A k \in Block :
    k.height \in Heights /\ k.prev \in Hashes /\ k.proposer \in Nodes /\ k.txs \in Seq(Txs)
BY DEF Block

\* The headers after SaveBlock: one more, or another, in the store of one node.
Stored(c, n, k) == [c EXCEPT ![n][k.height] = k]

\* They are headers again, and only that one has changed.
LEMMA HeaderSaved ==
    ASSUME NEW c \in [Nodes -> Headers], NEW n \in Nodes, NEW k \in Block
    PROVE  /\ Stored(c, n, k) \in [Nodes -> Headers]
           /\ Stored(c, n, k)[n][k.height] = k
           /\ \A h \in Heights : h # k.height => Stored(c, n, k)[n][h] = c[n][h]
           /\ \A m \in Nodes : m # n => Stored(c, n, k)[m] = c[m]
<1> DEFINE d == [c EXCEPT ![n][k.height] = k]
<1>1. k.height \in Heights BY BlockFields
<1>2. c[n] \in Headers OBVIOUS
<1>3. d[n] = [c[n] EXCEPT ![k.height] = k] OBVIOUS
<1>4. d[n] \in Headers BY <1>1, <1>2, <1>3 DEF Headers
<1>5. d[n][k.height] = k BY <1>1, <1>2, <1>3 DEF Headers
<1>6. \A h \in Heights : h # k.height => d[n][h] = c[n][h] BY <1>2, <1>3 DEF Headers
<1>7. \A m \in Nodes : m # n => d[m] = c[m] OBVIOUS
<1>8. d \in [Nodes -> Headers] BY <1>4, <1>7
<1> QED BY <1>5, <1>6, <1>7, <1>8 DEF Stored

\* The recent headers of the seed end with the one of the height asked for.
LEMMA RecentHeaders ==
    ASSUME SyncInv, NEW h \in 0..MaxHeight, h <= tip[Seed]
    PROVE  /\ Recent(Seed, h) \in Seq(Block)
           /\ \A i \in DOMAIN Recent(Seed, h) : OfSeed(Recent(Seed, h)[i])
           /\ h > 0 => Ends(Recent(Seed, h), h)
<1> DEFINE c == chain[Seed]
           lo == IF h > RecentBlocks THEN h - RecentBlocks + 1 ELSE 1
           r == Recent(Seed, h)
<1>1. h \in Nat /\ MaxHeight \in Nat /\ RecentBlocks \in Nat /\ RecentBlocks > 0 BY SyncBounds
<1>2. lo \in Nat /\ lo >= 1 /\ lo <= h + 1 /\ (h > 0 => lo <= h) BY <1>1
<1>3. r = SubSeq(c, lo, h) BY DEF Recent
<1> HIDE DEF lo, r
<1>4. r = [i \in 1..((h - lo) + 1) |-> c[(i + lo) - 1]]
  <2>1. c \in Headers BY DEF SyncInv, TypeInv, Nodes
  <2>2. c \in Seq(Block \cup {NoBlock}) /\ Len(c) = MaxHeight
    BY <1>1, <2>1 DEF Headers, Heights
  <2> HIDE DEF c
  <2>3. lo \in 1..(Len(c) + 1) /\ h \in (lo - 1)..Len(c) BY <1>1, <1>2, <2>2
  <2> QED BY <1>1, <1>2, <1>3, <2>2, <2>3, SubSeqProperties
<1>5. ASSUME NEW i \in 1..((h - lo) + 1)
      PROVE  r[i] \in Block /\ OfSeed(r[i]) /\ r[i].height = (i + lo) - 1
  <2> DEFINE j == (i + lo) - 1
  <2>0. j \in 1..h BY <1>1, <1>2
  <2> HIDE DEF j
  <2>1. j \in Heights /\ j <= tip[Seed]
    <3>1. tip[Seed] \in 0..MaxHeight BY DEF SyncInv, TypeInv, Nodes
    <3> QED BY <1>1, <2>0, <3>1 DEF Heights
  <2>2. r[i] = c[j] BY <1>4 DEF j
  <2>3. c[j] \in Block /\ c[j].height = j BY <2>1 DEF SyncInv, SeedInv
  <2>4. OfSeed(c[j]) BY <2>1, <2>3 DEF OfSeed
  <2> QED BY <2>2, <2>3, <2>4 DEF j
<1>6. (h - lo) + 1 \in Nat BY <1>1, <1>2
<1>7. DOMAIN r = 1..((h - lo) + 1) BY <1>4
<1>8. r \in [1..((h - lo) + 1) -> Block] BY <1>4, <1>5
<1>9. r \in Seq(Block) /\ Len(r) = (h - lo) + 1 BY <1>6, <1>8
<1>10. h > 0 => Ends(r, h)
  <2> SUFFICES ASSUME h > 0 PROVE Ends(r, h) OBVIOUS
  <2>1. (h - lo) + 1 \in 1..((h - lo) + 1) BY <1>1, <1>2
  <2>2. r[Len(r)].height = (((h - lo) + 1) + lo) - 1 BY <1>5, <1>9, <2>1
  <2>3. (((h - lo) + 1) + lo) - 1 = h BY <1>1, <1>2
  <2>4. r # <<>> BY <1>9, <2>1
  <2> QED BY <2>2, <2>3, <2>4 DEF Ends
<1> QED BY <1>5, <1>7, <1>9, <1>10 DEF r

-----------------------------------------------------------------------------
(* Steps *)

\* Two empty stores, and nothing on its way.
LEMMA SyncInvInit == Init => SyncInv
<1> SUFFICES ASSUME Init PROVE SyncInv OBVIOUS
<1>1. Seed \in Nodes /\ Joiner \in Nodes BY DEF Nodes
<1>2. MaxHeight \in Nat BY SyncBounds
<1>3. <<>> \in Seq(Txs) /\ <<>> \in Seq(Block) OBVIOUS
<1>4. Genesis \in Hashes BY <1>1, <1>2 DEF Genesis, Hashes
<1>5. NoSeal \in Sealing BY <1>2, <1>3, <1>4 DEF NoSeal, Sealing
<1>6. NoGossip \in Gossiping BY <1>3 DEF NoGossip, Gossiping
<1>7. [h \in Heights |-> NoBlock] \in Headers BY DEF Headers
<1>8. TypeInv
  <2>1. /\ chain \in [Nodes -> Headers] /\ tip \in [Nodes -> 0..MaxHeight]
        /\ seal \in [Nodes -> Sealing] /\ gossip \in [Nodes -> Gossiping]
    BY <1>2, <1>5, <1>6, <1>7 DEF Init
  <2>2. snap = [pc |-> snap.pc, tip |-> snap.tip, acc |-> snap.acc, accounts |-> snap.accounts,
                minted |-> snap.minted, headers |-> snap.headers, quiet |-> snap.quiet]
    BY DEF Init, NoSnap
  <2>3. import = [pc |-> import.pc, force |-> import.force, accounts |-> import.accounts,
                  headers |-> import.headers, tip |-> import.tip]
    BY DEF Init, NoImport
  <2>4. /\ snap.headers \in Seq(Block) /\ snap.tip \in 0..MaxHeight
        /\ import.headers \in Seq(Block) /\ import.tip \in 0..MaxHeight
    BY <1>2, <1>3 DEF Init, NoImport, NoSnap
  <2> QED BY <2>1, <2>2, <2>3, <2>4 DEF TypeInv
<1>9. SeedInv
  <2>1. \A h \in Heights : h > 0 BY <1>2 DEF Heights
  <2> QED BY <1>1, <2>1 DEF Init, SeedInv, NoSeal, NoGossip, Heights
<1>10. WayInv BY <1>1 DEF Init, WayInv, NoGossip, NoSnap, NoImport
<1>11. HeadersAgree BY <1>1 DEF Init, HeadersAgree
<1> QED BY <1>8, <1>9, <1>10, <1>11 DEF SyncInv

\* A header of the seed's chain that the joiner saves, from gossip or a snapshot.
LEMMA JoinerSaves ==
    ASSUME SyncInv, NEW k \in Block, OfSeed(k), SaveBlock(Joiner, k)
    PROVE  /\ chain' \in [Nodes -> Headers] /\ tip' \in [Nodes -> 0..MaxHeight]
           /\ chain'[Seed] = chain[Seed] /\ tip'[Seed] = tip[Seed]
           /\ chain'[Joiner][k.height] # NoBlock
           /\ \A h \in Heights : chain[Joiner][h] # NoBlock => chain'[Joiner][h] # NoBlock
           /\ HeadersAgree'
<1>1. Seed \in Nodes /\ Joiner \in Nodes /\ Seed # Joiner BY TwoNodes DEF Nodes
<1>2. k.height \in Heights BY BlockFields
<1>3. chain \in [Nodes -> Headers] /\ tip \in [Nodes -> 0..MaxHeight] BY DEF SyncInv, TypeInv
<1>4. chain' = [chain EXCEPT ![Joiner][k.height] = k] /\ tip' = [tip EXCEPT ![Joiner] = k.height]
  BY DEF SaveBlock
<1>5. /\ chain' \in [Nodes -> Headers]
      /\ chain'[Joiner][k.height] = k
      /\ \A h \in Heights : h # k.height => chain'[Joiner][h] = chain[Joiner][h]
      /\ chain'[Seed] = chain[Seed]
  <2> DEFINE d == Stored(chain, Joiner, k)
  <2>1. /\ d \in [Nodes -> Headers]
        /\ d[Joiner][k.height] = k
        /\ \A h \in Heights : h # k.height => d[Joiner][h] = chain[Joiner][h]
        /\ \A m \in Nodes : m # Joiner => d[m] = chain[m]
    BY <1>1, <1>3, HeaderSaved
  <2> HIDE DEF d
  <2>2. chain' = d BY <1>4 DEF d, Stored
  <2> QED BY <1>1, <2>1, <2>2
<1>6. /\ tip' \in [Nodes -> 0..MaxHeight] /\ tip'[Seed] = tip[Seed] /\ tip'[Joiner] = k.height
  BY <1>1, <1>2, <1>3, <1>4, SyncBounds DEF Heights
<1>7. k # NoBlock /\ chain[Seed][k.height] = k BY BlockIsSome DEF OfSeed
<1>8. HeadersAgree'
  <2>1. ASSUME NEW h \in Heights PROVE chain'[Joiner][h] \in {NoBlock, chain'[Seed][h]}
    <3>1. CASE h = k.height BY <1>5, <1>7, <3>1
    <3>2. CASE h # k.height BY <1>5, <3>2 DEF SyncInv, HeadersAgree
    <3> QED BY <3>1, <3>2
  <2>2. chain'[Joiner][tip'[Joiner]] # NoBlock BY <1>5, <1>6, <1>7
  <2> QED BY <2>1, <2>2 DEF HeadersAgree
<1> QED BY <1>5, <1>6, <1>7, <1>8

\* The seed's next block: everything of its chain stays, and what the joiner
\* may hold at the new height is nothing.
LEMMA SeedSaves ==
    ASSUME SyncInv, SealSaves(Seed)
    PROVE  SyncInv'
<1> DEFINE k == [height |-> seal[Seed].height, prev |-> seal[Seed].prev, proposer |-> Seed,
                 txs |-> seal[Seed].applied]
<1>1. Seed \in Nodes /\ Joiner \in Nodes /\ Seed # Joiner BY TwoNodes DEF Nodes
<1>2. /\ seal[Seed].pc = "apply"
      /\ chain' = [chain EXCEPT ![Seed][k.height] = k] /\ tip' = [tip EXCEPT ![Seed] = k.height]
      /\ announced' = announced \cup {k}
      /\ seal' = [seal EXCEPT ![Seed] = NoSeal]
      /\ gossip' = gossip /\ snap' = snap /\ import' = import
  BY DEF SealSaves, SaveBlock, Publish
<1>3. /\ chain \in [Nodes -> Headers] /\ tip \in [Nodes -> 0..MaxHeight]
      /\ seal \in [Nodes -> Sealing] /\ gossip \in [Nodes -> Gossiping]
  BY DEF SyncInv, TypeInv
<1>4. tip[Seed] \in 0..MaxHeight /\ tip[Joiner] \in 0..MaxHeight /\ seal[Seed] \in Sealing
  BY <1>1, <1>3
<1>5. k \in Block /\ k.height = tip[Seed] + 1
  <2>1. seal[Seed].height = tip[Seed] + 1 BY <1>2 DEF SyncInv, SeedInv
  <2>2. seal[Seed].height \in Heights BY <1>4, <2>1, SyncBounds DEF Sealing, Heights
  <2>3. seal[Seed].prev \in Hashes /\ seal[Seed].applied \in Seq(Txs) BY <1>4 DEF Sealing
  <2> QED BY <1>1, <2>1, <2>2, <2>3 DEF Block
<1> HIDE DEF k
<1>6. k.height \in Heights /\ k # NoBlock BY <1>5, BlockFields, BlockIsSome
<1>7. /\ chain' \in [Nodes -> Headers]
      /\ chain'[Seed][k.height] = k
      /\ \A h \in Heights : h # k.height => chain'[Seed][h] = chain[Seed][h]
      /\ chain'[Joiner] = chain[Joiner]
  <2> DEFINE d == Stored(chain, Seed, k)
  <2>1. /\ d \in [Nodes -> Headers]
        /\ d[Seed][k.height] = k
        /\ \A h \in Heights : h # k.height => d[Seed][h] = chain[Seed][h]
        /\ \A m \in Nodes : m # Seed => d[m] = chain[m]
    BY <1>1, <1>3, <1>5, HeaderSaved
  <2> HIDE DEF d
  <2>2. chain' = d BY <1>2 DEF d, Stored
  <2> QED BY <1>1, <2>1, <2>2
<1>8. /\ tip' \in [Nodes -> 0..MaxHeight] /\ tip'[Seed] = tip[Seed] + 1 /\ tip'[Joiner] = tip[Joiner]
  BY <1>1, <1>2, <1>3, <1>5, <1>6, SyncBounds DEF Heights
<1>9. seal' \in [Nodes -> Sealing] /\ seal'[Seed].pc = "idle" /\ seal'[Joiner] = seal[Joiner]
  <2>1. NoSeal \in Sealing
    BY <1>1, SyncBounds DEF NoSeal, Sealing, Genesis, Hashes
  <2> QED BY <1>1, <1>2, <1>3, <2>1 DEF NoSeal
<1>10. ASSUME NEW x \in Block, OfSeed(x) PROVE OfSeed(x)'
  <2>1. x.height \in Heights /\ x.height <= tip[Seed] /\ chain[Seed][x.height] = x
    BY <1>10, BlockFields DEF OfSeed
  <2>2. x.height # k.height /\ x.height <= tip'[Seed] BY <1>4, <1>5, <1>8, <2>1 DEF Heights
  <2> QED BY <1>7, <2>1, <2>2 DEF OfSeed
<1>11. TypeInv' BY <1>2, <1>3, <1>7, <1>8, <1>9 DEF SyncInv, TypeInv
<1>12. SeedInv'
  <2>1. ASSUME NEW h \in Heights, h > tip'[Seed] PROVE chain'[Seed][h] = NoBlock
    <3>1. h > tip[Seed] /\ h # k.height BY <1>4, <1>5, <1>8, <2>1 DEF Heights
    <3> QED BY <1>7, <3>1 DEF SyncInv, SeedInv
  <2>2. ASSUME NEW h \in Heights, h <= tip'[Seed]
        PROVE  chain'[Seed][h] \in Block /\ chain'[Seed][h].height = h
    <3>1. CASE h = k.height BY <1>5, <1>7, <3>1
    <3>2. CASE h # k.height
      <4>1. h <= tip[Seed] BY <1>4, <1>5, <1>8, <2>2, <3>2 DEF Heights
      <4> QED BY <1>7, <3>2, <4>1 DEF SyncInv, SeedInv
    <3> QED BY <3>1, <3>2
  <2> QED BY <1>2, <1>9, <2>1, <2>2 DEF SyncInv, SeedInv
<1>13. WayInv'
  <2>1. k.height <= tip'[Seed] /\ chain'[Seed][k.height] = k BY <1>4, <1>5, <1>7, <1>8
  <2>2. \A x \in announced' : x \in Block /\ OfSeed(x)'
    <3> TAKE x \in announced'
    <3>1. CASE x = k BY <1>5, <2>1, <3>1 DEF OfSeed
    <3>2. CASE x # k
      <4>1. x \in Block /\ OfSeed(x) BY <1>2, <3>2 DEF SyncInv, WayInv
      <4> QED BY <1>10, <4>1
    <3> QED BY <3>1, <3>2
  <2>3. \A i \in DOMAIN snap.headers : OfSeed(snap.headers[i])'
    <3> TAKE i \in DOMAIN snap.headers
    <3>1. snap.headers[i] \in Block BY DEF SyncInv, TypeInv
    <3>2. OfSeed(snap.headers[i]) BY DEF SyncInv, WayInv
    <3>3. OfSeed(snap.headers[i]) => (snap.headers[i].height <= tip'[Seed]
                                       /\ chain'[Seed][snap.headers[i].height] = snap.headers[i])
      BY <1>10, <3>1 DEF OfSeed
    <3> QED BY <1>2, <3>2, <3>3 DEF OfSeed
  <2>4. \A i \in DOMAIN import.headers : OfSeed(import.headers[i])'
    <3> TAKE i \in DOMAIN import.headers
    <3>1. import.headers[i] \in Block BY DEF SyncInv, TypeInv
    <3>2. OfSeed(import.headers[i]) BY DEF SyncInv, WayInv
    <3>3. OfSeed(import.headers[i]) => (import.headers[i].height <= tip'[Seed]
                                       /\ chain'[Seed][import.headers[i].height] = import.headers[i])
      BY <1>10, <3>1 DEF OfSeed
    <3> QED BY <1>2, <3>2, <3>3 DEF OfSeed
  <2>5. snap.tip <= tip'[Seed] /\ import.tip <= tip'[Seed]
    BY <1>4, <1>8 DEF SyncInv, WayInv, TypeInv
  <2>6. gossip[Joiner].pc = "apply" => gossip[Joiner].block \in announced'
    BY <1>2 DEF SyncInv, WayInv
  <2> QED BY <1>2, <1>7, <2>2, <2>3, <2>4, <2>5, <2>6 DEF SyncInv, WayInv, OfSeed, Ends
<1>14. HeadersAgree'
  <2>1. ASSUME NEW h \in Heights PROVE chain'[Joiner][h] \in {NoBlock, chain'[Seed][h]}
    <3>1. chain[Joiner][h] \in {NoBlock, chain[Seed][h]} BY DEF SyncInv, HeadersAgree
    <3>2. CASE h = k.height
      <4>1. h > tip[Seed] BY <1>4, <1>5, <3>2
      <4>2. chain[Seed][h] = NoBlock BY <4>1 DEF SyncInv, SeedInv
      <4> QED BY <1>7, <3>1, <4>2
    <3>3. CASE h # k.height BY <1>7, <3>1, <3>3
    <3> QED BY <3>2, <3>3
  <2> QED BY <1>7, <1>8, <2>1 DEF SyncInv, HeadersAgree
<1> QED BY <1>11, <1>12, <1>13, <1>14 DEF SyncInv

\* What holds as long as nothing is saved.
LEMMA NothingSaved ==
    ASSUME SyncInv, UNCHANGED <<chain, tip, announced>>, TypeInv',
           seal'[Seed].pc = "apply" => seal'[Seed].height = tip[Seed] + 1,
           seal'[Joiner].pc = "idle", gossip'[Seed].pc = "idle",
           gossip'[Joiner].pc = "apply" => gossip'[Joiner].block \in announced,
           \/ snap'.tip = snap.tip /\ snap'.headers = snap.headers /\ snap'.pc = snap.pc
           \/ /\ snap'.tip <= tip[Seed]
              /\ \A i \in DOMAIN snap'.headers : OfSeed(snap'.headers[i])
              /\ snap'.pc = "ready" /\ snap'.tip > 0 => Ends(snap'.headers, snap'.tip),
           \/ import'.tip = import.tip /\ import'.headers = import.headers
           \/ import'.tip = 0 /\ import'.headers = <<>>
           \/ snap.pc = "ready" /\ import'.tip = snap.tip /\ import'.headers = snap.headers
    PROVE  SyncInv'
<1>1. HeadersAgree' BY DEF SyncInv, HeadersAgree
<1>2. SeedInv' BY DEF SyncInv, SeedInv
<1>3. \A x : OfSeed(x) => x.height <= tip'[Seed] /\ chain'[Seed][x.height] = x BY DEF OfSeed
<1>4. /\ snap'.tip <= tip[Seed]
      /\ \A i \in DOMAIN snap'.headers : OfSeed(snap'.headers[i])
      /\ snap'.pc = "ready" /\ snap'.tip > 0 => Ends(snap'.headers, snap'.tip)
  BY DEF SyncInv, WayInv
<1>5. /\ import'.tip <= tip[Seed]
      /\ \A i \in DOMAIN import'.headers : OfSeed(import'.headers[i])
      /\ import'.tip > 0 =>
           Ends(import'.headers, import'.tip) \/ chain[Joiner][import'.tip] # NoBlock
  <2>1. 0 <= tip[Seed] BY SyncBounds DEF SyncInv, TypeInv, Nodes
  <2> QED BY <2>1 DEF SyncInv, WayInv
<1>6. WayInv'
  <2>1. (\A k \in announced : k \in Block /\ OfSeed(k))' BY <1>3 DEF SyncInv, WayInv, OfSeed
  <2>2. (\A i \in DOMAIN snap.headers : OfSeed(snap.headers[i]))' BY <1>3, <1>4 DEF OfSeed
  <2>3. (\A i \in DOMAIN import.headers : OfSeed(import.headers[i]))' BY <1>3, <1>5 DEF OfSeed
  <2>4. (snap.pc = "ready" /\ snap.tip > 0 => Ends(snap.headers, snap.tip))' BY <1>4 DEF Ends
  <2>5. (import.tip > 0 =>
           Ends(import.headers, import.tip) \/ chain[Joiner][import.tip] # NoBlock)'
    BY <1>5 DEF Ends
  <2> QED BY <1>4, <1>5, <2>1, <2>2, <2>3, <2>4, <2>5 DEF WayInv
<1> QED BY <1>1, <1>2, <1>6 DEF SyncInv

\* A block from gossip, or a header of a snapshot, is saved by the joiner, and
\* import' goes on as the last hypotheses say.
LEMMA SavedByJoiner ==
    ASSUME SyncInv, NEW k \in Block, OfSeed(k), SaveBlock(Joiner, k),
           UNCHANGED <<seal, announced, snap>>, TypeInv',
           gossip'[Seed].pc = "idle",
           gossip'[Joiner].pc = "apply" => gossip'[Joiner].block \in announced,
           import'.tip = import.tip,
           \A i \in DOMAIN import'.headers : OfSeed(import'.headers[i]),
           import.tip > 0 => \/ Ends(import'.headers, import.tip)
                             \/ chain[Joiner][import.tip] # NoBlock
                             \/ k.height = import.tip
    PROVE  SyncInv'
<1>1. /\ chain'[Seed] = chain[Seed] /\ tip'[Seed] = tip[Seed]
      /\ chain'[Joiner][k.height] # NoBlock
      /\ \A h \in Heights : chain[Joiner][h] # NoBlock => chain'[Joiner][h] # NoBlock
      /\ HeadersAgree'
  BY JoinerSaves
<1>2. SeedInv' BY <1>1 DEF SyncInv, SeedInv
<1>3. \A x : OfSeed(x) => x.height <= tip'[Seed] /\ chain'[Seed][x.height] = x BY <1>1 DEF OfSeed
<1>4. WayInv'
  <2>1. (\A x \in announced : x \in Block /\ OfSeed(x))' BY <1>3 DEF SyncInv, WayInv, OfSeed
  <2>2. (\A i \in DOMAIN snap.headers : OfSeed(snap.headers[i]))'
    BY <1>3 DEF SyncInv, WayInv, OfSeed
  <2>3. (\A i \in DOMAIN import.headers : OfSeed(import.headers[i]))' BY <1>3 DEF OfSeed
  <2>4. (snap.pc = "ready" /\ snap.tip > 0 => Ends(snap.headers, snap.tip))'
    BY DEF SyncInv, WayInv, Ends
  <2>5. (import.tip > 0 =>
           Ends(import.headers, import.tip) \/ chain[Joiner][import.tip] # NoBlock)'
    <3> SUFFICES ASSUME import.tip > 0
                 PROVE  Ends(import'.headers, import.tip) \/ chain'[Joiner][import.tip] # NoBlock
      BY DEF Ends
    <3>1. import.tip \in Heights BY SyncBounds DEF SyncInv, TypeInv, Heights
    <3> QED BY <1>1, <3>1
  <2>6. (snap.tip <= tip[Seed] /\ import.tip <= tip[Seed])' BY <1>1 DEF SyncInv, WayInv
  <2> QED BY <2>1, <2>2, <2>3, <2>4, <2>5, <2>6 DEF WayInv
<1> QED BY <1>1, <1>2, <1>4 DEF SyncInv

\* Steps of the seed's sealer.
LEMMA SealStep ==
    ASSUME SyncInv, ~BFTEnabled, NEW n \in Nodes,
           (\E b \in BlockTxs : BeginSeal(n, b)) \/ SealApplies(n) \/ SealSaves(n) \/ SealFails(n)
    PROVE  SyncInv'
<1>1. Seed \in Nodes /\ Joiner \in Nodes /\ Seed # Joiner BY TwoNodes DEF Nodes
<1>2. TypeInv /\ seal[n] \in Sealing /\ tip[n] \in 0..MaxHeight BY DEF SyncInv, TypeInv
<1>3. n = Seed
  <2>1. seal[Joiner].pc # "apply" BY DEF SyncInv, SeedInv
  <2> QED BY <2>1 DEF BeginSeal, MaySeal, SealApplies, SealSaves, SealFails, Nodes
<1>4. NoSeal \in Sealing /\ NoSeal.pc = "idle"
  BY <1>1, SyncBounds DEF NoSeal, Sealing, Genesis, Hashes
<1>5. ASSUME NEW s \in Sealing, seal' = [seal EXCEPT ![Seed] = s],
             UNCHANGED <<chain, tip, announced, gossip, import>>,
             snap' = snap \/ \E q : snap' = [snap EXCEPT !.quiet = q],
             s.pc = "apply" => s.height = tip[Seed] + 1
      PROVE  SyncInv'
  <2>1. seal' \in [Nodes -> Sealing] /\ seal'[Seed] = s /\ seal'[Joiner] = seal[Joiner]
    BY <1>1, <1>2, <1>5 DEF TypeInv
  <2>2. /\ snap' = [pc |-> snap'.pc, tip |-> snap'.tip, acc |-> snap'.acc,
                    accounts |-> snap'.accounts, minted |-> snap'.minted,
                    headers |-> snap'.headers, quiet |-> snap'.quiet]
        /\ snap'.tip = snap.tip /\ snap'.headers = snap.headers /\ snap'.pc = snap.pc
    <3>1. snap = [pc |-> snap.pc, tip |-> snap.tip, acc |-> snap.acc,
                  accounts |-> snap.accounts, minted |-> snap.minted,
                  headers |-> snap.headers, quiet |-> snap.quiet] BY <1>2 DEF TypeInv
    <3>2. CASE snap' = snap BY <3>1, <3>2
    <3>3. CASE \E q : snap' = [snap EXCEPT !.quiet = q]
      <4>1. PICK q : snap' = [snap EXCEPT !.quiet = q] BY <3>3
      <4>2. snap' = [pc |-> snap.pc, tip |-> snap.tip, acc |-> snap.acc,
                     accounts |-> snap.accounts, minted |-> snap.minted,
                     headers |-> snap.headers, quiet |-> q] BY <3>1, <4>1
      <4> QED BY <4>2
    <3> QED BY <1>5, <3>2, <3>3
  <2>3. TypeInv' BY <1>2, <1>5, <2>1, <2>2 DEF TypeInv
  <2>4. seal'[Joiner].pc = "idle" /\ gossip'[Seed].pc = "idle"
    BY <1>5, <2>1 DEF SyncInv, SeedInv
  <2>5. gossip'[Joiner].pc = "apply" => gossip'[Joiner].block \in announced
    BY <1>5 DEF SyncInv, WayInv
  <2>6. seal'[Seed].pc = "apply" => seal'[Seed].height = tip[Seed] + 1 BY <1>5, <2>1
  <2>7. UNCHANGED <<chain, tip, announced>> /\ import' = import BY <1>5
  <2> QED BY <2>2, <2>3, <2>4, <2>5, <2>6, <2>7, NothingSaved
<1>6. ASSUME NEW b \in BlockTxs, BeginSeal(n, b) PROVE SyncInv'
  <2>1. PICK prev \in {Genesis} \cup {<<tip[Seed], p>> : p \in Nodes} :
          seal' = [seal EXCEPT ![Seed] = [pc |-> "apply", height |-> tip[Seed] + 1,
                                          prev |-> prev, todo |-> b, applied |-> <<>>]]
    BY <1>3, <1>6 DEF BeginSeal
  <2>2. prev \in Hashes BY <1>1, <1>2, <1>3, SyncBounds DEF Hashes, Genesis
  <2>3. tip[Seed] + 1 \in 0..MaxHeight BY <1>2, <1>3, <1>6, SyncBounds DEF BeginSeal
  <2>4. b \in Seq(Txs) BY BlockTxsTyped
  <2>5. [pc |-> "apply", height |-> tip[Seed] + 1, prev |-> prev, todo |-> b, applied |-> <<>>]
          \in Sealing
    BY <2>2, <2>3, <2>4 DEF Sealing
  <2>6. UNCHANGED <<chain, tip, announced, gossip, import, snap>> BY <1>6 DEF BeginSeal, store
  <2> QED BY <1>5, <2>1, <2>5, <2>6
<1>7. CASE SealApplies(n)
  <2>1. PICK s \in Sealing :
          /\ seal' = [seal EXCEPT ![Seed] = s]
          /\ s.pc = "apply" => s.height = seal[Seed].height /\ seal[Seed].pc = "apply"
    <3> DEFINE t == Head(seal[Seed].todo)
    <3>1. /\ seal[Seed].todo \in Seq(Txs) /\ seal[Seed].todo # <<>>
          /\ seal[Seed].applied \in Seq(Txs) /\ seal[Seed].pc = "apply"
      BY <1>2, <1>3, <1>7 DEF Sealing, SealApplies
    <3>2. Tail(seal[Seed].todo) \in Seq(Txs) /\ t \in Txs BY <3>1
    <3>3. Append(seal[Seed].applied, t) \in Seq(Txs) BY <3>1, <3>2
    <3>4. [seal[Seed] EXCEPT !.todo = Tail(@), !.applied = Append(@, t)] \in Sealing
      BY <1>2, <1>3, <3>2, <3>3 DEF Sealing
    <3>5. [seal[Seed] EXCEPT !.todo = Tail(@)] \in Sealing
      BY <1>2, <1>3, <3>2 DEF Sealing
    <3>6. \/ seal' = [seal EXCEPT ![Seed].todo = Tail(@), ![Seed].applied = Append(@, t)]
          \/ seal' = [seal EXCEPT ![Seed].todo = Tail(@)]
      BY <1>3, <1>7 DEF SealApplies
    <3>7. \/ seal' = [seal EXCEPT ![Seed] = [seal[Seed] EXCEPT !.todo = Tail(@), !.applied = Append(@, t)]]
          \/ seal' = [seal EXCEPT ![Seed] = [seal[Seed] EXCEPT !.todo = Tail(@)]]
      BY <1>1, <1>2, <3>6 DEF TypeInv, Sealing
    <3>8. /\ [seal[Seed] EXCEPT !.todo = Tail(@), !.applied = Append(@, t)].height = seal[Seed].height
          /\ [seal[Seed] EXCEPT !.todo = Tail(@)].height = seal[Seed].height
      BY <1>2, <1>3 DEF Sealing
    <3> HIDE DEF t
    <3> QED BY <3>1, <3>4, <3>5, <3>7, <3>8
  <2>2. UNCHANGED <<chain, tip, announced, gossip, import, snap>> BY <1>7 DEF SealApplies
  <2>3. s.pc = "apply" => s.height = tip[Seed] + 1 BY <2>1 DEF SyncInv, SeedInv
  <2> QED BY <1>5, <2>1, <2>2, <2>3
<1>8. CASE SealSaves(n) BY <1>3, <1>8, SeedSaves
<1>9. CASE SealFails(n)
  <2>1. /\ seal' = [seal EXCEPT ![Seed] = NoSeal]
        /\ UNCHANGED <<chain, tip, announced, gossip, import>>
        /\ \E q : snap' = [snap EXCEPT !.quiet = q]
    BY <1>3, <1>9 DEF SealFails, store
  <2>2. NoSeal.pc # "apply" BY <1>4
  <2> QED BY <1>4, <1>5, <2>1, <2>2
<1> QED BY <1>6, <1>7, <1>8, <1>9

\* Announced blocks.
LEMMA GossipStep ==
    ASSUME SyncInv, NEW n \in Nodes,
           (\E k \in announced : GossipBegins(n, k)) \/ GossipApplies(n) \/ GossipSaves(n)
    PROVE  SyncInv'
<1>1. Seed \in Nodes /\ Joiner \in Nodes /\ Seed # Joiner BY TwoNodes DEF Nodes
<1>2. TypeInv /\ gossip[Joiner] \in Gossiping BY <1>1 DEF SyncInv, TypeInv
<1>3. n = Joiner
  <2>1. gossip[Seed].pc # "apply" BY DEF SyncInv, SeedInv
  <2> QED BY <2>1 DEF GossipBegins, GossipApplies, GossipSaves, Nodes
<1>4. NoGossip \in Gossiping /\ NoGossip.pc = "idle" BY DEF NoGossip, Gossiping
<1>5. ASSUME NEW g \in Gossiping, gossip' = [gossip EXCEPT ![Joiner] = g]
      PROVE  /\ gossip' \in [Nodes -> Gossiping]
             /\ gossip'[Joiner] = g /\ gossip'[Seed].pc = "idle"
  BY <1>1, <1>2, <1>5 DEF SyncInv, SeedInv, TypeInv
<1>6. ASSUME NEW g \in Gossiping, gossip' = [gossip EXCEPT ![Joiner] = g],
             UNCHANGED <<chain, tip, announced, seal, snap, import>>,
             g.pc = "apply" => g.block \in announced
      PROVE  SyncInv'
  <2>1. gossip' \in [Nodes -> Gossiping] /\ gossip'[Joiner] = g /\ gossip'[Seed].pc = "idle"
    BY <1>5, <1>6
  <2>2. TypeInv' BY <1>2, <1>6, <2>1 DEF TypeInv
  <2>3. /\ seal'[Seed].pc = "apply" => seal'[Seed].height = tip[Seed] + 1
        /\ seal'[Joiner].pc = "idle"
    BY <1>6 DEF SyncInv, SeedInv
  <2>4. gossip'[Joiner].pc = "apply" => gossip'[Joiner].block \in announced BY <1>6, <2>1
  <2>5. UNCHANGED <<chain, tip, announced>> /\ snap' = snap /\ import' = import BY <1>6
  <2> QED BY <2>1, <2>2, <2>3, <2>4, <2>5, NothingSaved
<1>7. ASSUME NEW k \in announced, GossipBegins(n, k) PROVE SyncInv'
  <2>1. k \in Block BY DEF SyncInv, WayInv
  <2>2. k.txs \in Seq(Txs) BY <2>1, BlockFields
  <2>3. [pc |-> "apply", block |-> k, todo |-> k.txs] \in Gossiping BY <2>1, <2>2 DEF Gossiping
  <2>4. /\ gossip' = [gossip EXCEPT ![Joiner] = [pc |-> "apply", block |-> k, todo |-> k.txs]]
        /\ UNCHANGED <<chain, tip, announced, seal, snap, import>>
    BY <1>3, <1>7 DEF GossipBegins, store
  <2> QED BY <1>6, <2>3, <2>4
<1>8. CASE GossipApplies(n)
  <2>1. gossip[Joiner].pc = "apply" /\ gossip[Joiner].todo # <<>> /\ gossip[Joiner].todo \in Seq(Txs)
    BY <1>2, <1>3, <1>8 DEF GossipApplies, Gossiping
  <2>2. UNCHANGED <<chain, tip, announced, seal, snap, import>> BY <1>8 DEF GossipApplies
  <2>3. \/ gossip' = [gossip EXCEPT ![Joiner].todo = Tail(@)]
        \/ gossip' = [gossip EXCEPT ![Joiner] = NoGossip]
    BY <1>3, <1>8 DEF GossipApplies
  <2>4. CASE gossip' = [gossip EXCEPT ![Joiner].todo = Tail(@)]
    <3> DEFINE g == [gossip[Joiner] EXCEPT !.todo = Tail(@)]
    <3>1. Tail(gossip[Joiner].todo) \in Seq(Txs) BY <2>1
    <3>2. g \in Gossiping /\ g.block = gossip[Joiner].block BY <1>2, <3>1 DEF Gossiping
    <3>3. gossip' = [gossip EXCEPT ![Joiner] = g] BY <1>1, <1>2, <2>4 DEF TypeInv, Gossiping
    <3>4. g.block \in announced BY <2>1, <3>2 DEF SyncInv, WayInv
    <3> HIDE DEF g
    <3> QED BY <1>6, <2>2, <3>2, <3>3, <3>4
  <2>5. CASE gossip' = [gossip EXCEPT ![Joiner] = NoGossip]
    <3>1. NoGossip.pc # "apply" BY <1>4
    <3> QED BY <1>4, <1>6, <2>2, <2>5, <3>1
  <2> QED BY <2>3, <2>4, <2>5
<1>9. CASE GossipSaves(n)
  <2> DEFINE k == gossip[Joiner].block
  <2>1. /\ gossip[Joiner].pc = "apply" /\ SaveBlock(Joiner, k)
        /\ gossip' = [gossip EXCEPT ![Joiner] = NoGossip]
        /\ UNCHANGED <<seal, announced, snap>> /\ import' = import
    BY <1>3, <1>9 DEF GossipSaves
  <2>2. k \in Block /\ OfSeed(k) BY <2>1 DEF SyncInv, WayInv
  <2>3. gossip' \in [Nodes -> Gossiping] /\ gossip'[Joiner].pc = "idle" /\ gossip'[Seed].pc = "idle"
    BY <1>4, <1>5, <2>1
  <2> HIDE DEF k
  <2>4. PICK x \in Block : x = k BY <2>2
  <2>5. OfSeed(x) /\ SaveBlock(Joiner, x) BY <2>1, <2>2, <2>4
  <2>6. chain' \in [Nodes -> Headers] /\ tip' \in [Nodes -> 0..MaxHeight] BY <2>5, JoinerSaves
  <2>7. TypeInv' BY <1>2, <2>1, <2>3, <2>6 DEF TypeInv
  <2>8. /\ import'.tip = import.tip
        /\ \A i \in DOMAIN import'.headers : OfSeed(import'.headers[i])
        /\ import.tip > 0 => Ends(import'.headers, import.tip) \/ chain[Joiner][import.tip] # NoBlock
    BY <2>1 DEF SyncInv, WayInv
  <2> QED BY <2>1, <2>3, <2>5, <2>7, <2>8, SavedByJoiner
<1> QED BY <1>7, <1>8, <1>9

\* Exports of the seed and imports of the joiner.
LEMMA SnapshotStep ==
    ASSUME SyncInv,
           \/ ExportTip \/ ExportAccounts
           \/ \E force \in BOOLEAN : ImportFullSnapshot(force) \/ RestoreAccounts(force)
           \/ \E a \in Accounts : ImportAccount(a)
           \/ ImportHeader \/ ImportTip
    PROVE  SyncInv'
<1>1. Seed \in Nodes /\ Joiner \in Nodes /\ Seed # Joiner BY TwoNodes DEF Nodes
<1>2. TypeInv /\ tip[Seed] \in 0..MaxHeight /\ tip[Joiner] \in 0..MaxHeight
  BY <1>1 DEF SyncInv, TypeInv
<1>3. <<>> \in Seq(Block) /\ 0 \in 0..MaxHeight BY SyncBounds
<1>4. /\ seal[Seed].pc = "apply" => seal[Seed].height = tip[Seed] + 1
      /\ seal[Joiner].pc = "idle" /\ gossip[Seed].pc = "idle"
      /\ gossip[Joiner].pc = "apply" => gossip[Joiner].block \in announced
  BY DEF SyncInv, SeedInv, WayInv
<1>5. ASSUME NEW pc, NEW h \in 0..MaxHeight, NEW acc, NEW accounts, NEW minted,
             NEW hs \in Seq(Block), NEW quiet,
             snap' = [pc |-> pc, tip |-> h, acc |-> acc, accounts |-> accounts,
                      minted |-> minted, headers |-> hs, quiet |-> quiet],
             UNCHANGED <<chain, tip, announced, seal, gossip, import>>,
             h <= tip[Seed], \A i \in DOMAIN hs : OfSeed(hs[i]),
             pc = "ready" /\ h > 0 => Ends(hs, h)
      PROVE  SyncInv'
  <2>1. /\ snap' = [pc |-> snap'.pc, tip |-> snap'.tip, acc |-> snap'.acc,
                    accounts |-> snap'.accounts, minted |-> snap'.minted,
                    headers |-> snap'.headers, quiet |-> snap'.quiet]
        /\ snap'.tip = h /\ snap'.headers = hs /\ snap'.pc = pc
    BY <1>5
  <2>2. TypeInv' BY <1>2, <1>5, <2>1 DEF TypeInv
  <2>3. UNCHANGED <<chain, tip, announced>> /\ import' = import /\ seal' = seal /\ gossip' = gossip
    BY <1>5
  <2>4. /\ snap'.tip <= tip[Seed]
        /\ \A i \in DOMAIN snap'.headers : OfSeed(snap'.headers[i])
        /\ snap'.pc = "ready" /\ snap'.tip > 0 => Ends(snap'.headers, snap'.tip)
    BY <1>5, <2>1
  <2> QED BY <1>4, <2>2, <2>3, <2>4, NothingSaved
<1>6. ASSUME NEW pc, NEW force, NEW accounts, NEW hs \in Seq(Block), NEW h \in 0..MaxHeight,
             import' = [pc |-> pc, force |-> force, accounts |-> accounts, headers |-> hs, tip |-> h],
             UNCHANGED <<chain, tip, announced, seal, gossip, snap>>,
             \/ h = import.tip /\ hs = import.headers
             \/ h = 0 /\ hs = <<>>
             \/ snap.pc = "ready" /\ h = snap.tip /\ hs = snap.headers
      PROVE  SyncInv'
  <2>1. /\ import' = [pc |-> import'.pc, force |-> import'.force, accounts |-> import'.accounts,
                      headers |-> import'.headers, tip |-> import'.tip]
        /\ import'.tip = h /\ import'.headers = hs
    BY <1>6
  <2>2. TypeInv' BY <1>2, <1>6, <2>1 DEF TypeInv
  <2>3. UNCHANGED <<chain, tip, announced>> /\ snap' = snap /\ seal' = seal /\ gossip' = gossip
    BY <1>6
  <2>4. \/ import'.tip = import.tip /\ import'.headers = import.headers
        \/ import'.tip = 0 /\ import'.headers = <<>>
        \/ snap.pc = "ready" /\ import'.tip = snap.tip /\ import'.headers = snap.headers
    BY <1>6, <2>1
  <2> QED BY <1>4, <2>2, <2>3, <2>4, NothingSaved
<1>7. CASE ExportTip
  <2>1. PICK quiet : /\ snap' = [NoSnap EXCEPT !.pc = "tip", !.tip = tip[Seed], !.quiet = quiet]
                     /\ UNCHANGED <<chain, tip, announced, seal, gossip, import>>
    BY <1>7 DEF ExportTip, store
  <2>2. snap' = [pc |-> "tip", tip |-> tip[Seed], acc |-> StartAccounts, accounts |-> {},
                 minted |-> 0, headers |-> <<>>, quiet |-> quiet]
    BY <2>1 DEF NoSnap
  <2>3. PICK h \in 0..MaxHeight : h = tip[Seed] BY <1>2
  <2>4. h <= tip[Seed] BY <2>3, SyncBounds
  <2>5. PICK hs \in Seq(Block) : hs = <<>> BY <1>3
  <2>6. \A i \in DOMAIN hs : OfSeed(hs[i]) BY <2>5
  <2>7. PICK pc, acc, accounts, minted :
          /\ pc # "ready"
          /\ snap' = [pc |-> pc, tip |-> h, acc |-> acc, accounts |-> accounts,
                      minted |-> minted, headers |-> hs, quiet |-> quiet]
    <3>1. "tip" # "ready" OBVIOUS
    <3> QED BY <2>2, <2>3, <2>5, <3>1
  <2>8. ~(pc = "ready" /\ h > 0) BY <2>7
  <2> QED BY <1>5, <2>1, <2>4, <2>6, <2>7, <2>8
<1>8. CASE ExportAccounts
  <2> DEFINE hs == Recent(Seed, snap.tip)
  <2>1. snap.tip \in 0..MaxHeight /\ snap.tip <= tip[Seed] BY DEF SyncInv, TypeInv, WayInv
  <2>2. /\ hs \in Seq(Block) /\ \A i \in DOMAIN hs : OfSeed(hs[i])
        /\ snap.tip > 0 => Ends(hs, snap.tip)
    BY <2>1, RecentHeaders
  <2>3. PICK quiet :
          /\ snap' = [pc |-> "ready", tip |-> snap.tip, acc |-> books[Seed].acc,
                      accounts |-> Written(books[Seed].acc), minted |-> books[Seed].minted,
                      headers |-> hs, quiet |-> quiet]
          /\ UNCHANGED <<chain, tip, announced, seal, gossip, import>>
    BY <1>8 DEF ExportAccounts, store
  <2> HIDE DEF hs
  <2> QED BY <1>5, <2>1, <2>2, <2>3
<1>9. ASSUME NEW force \in BOOLEAN, ImportFullSnapshot(force) PROVE SyncInv'
  <2>1. snap.headers \in Seq(Block) /\ snap.tip \in 0..MaxHeight BY <1>2 DEF TypeInv
  <2>2. /\ import' = [pc |-> "accounts", force |-> force, accounts |-> snap.accounts,
                      headers |-> snap.headers, tip |-> snap.tip]
        /\ snap.pc = "ready" /\ UNCHANGED <<chain, tip, announced, seal, gossip, snap>>
    BY <1>9 DEF ImportFullSnapshot, BeginImport, store
  <2> QED BY <1>6, <2>1, <2>2
<1>10. ASSUME NEW force \in BOOLEAN, RestoreAccounts(force) PROVE SyncInv'
  <2>1. /\ import' = [pc |-> "accounts", force |-> force, accounts |-> snap.accounts,
                      headers |-> <<>>, tip |-> 0]
        /\ UNCHANGED <<chain, tip, announced, seal, gossip, snap>>
    BY <1>10 DEF RestoreAccounts, BeginImport, store
  <2> QED BY <1>3, <1>6, <2>1
<1>11. import = [pc |-> import.pc, force |-> import.force, accounts |-> import.accounts,
                 headers |-> import.headers, tip |-> import.tip]
  BY <1>2 DEF TypeInv
<1>12. import.headers \in Seq(Block) /\ import.tip \in 0..MaxHeight BY <1>2 DEF TypeInv
<1>13. ASSUME NEW a \in Accounts, ImportAccount(a) PROVE SyncInv'
  <2>1. /\ import' = [import EXCEPT !.accounts = @ \ {a}]
        /\ UNCHANGED <<chain, tip, announced, seal, gossip, snap>>
    BY <1>13 DEF ImportAccount
  <2>2. import' = [pc |-> import.pc, force |-> import.force, accounts |-> import.accounts \ {a},
                   headers |-> import.headers, tip |-> import.tip]
    BY <1>11, <2>1
  <2> QED BY <1>6, <1>12, <2>1, <2>2
<1>14. CASE ImportHeader
  <2> DEFINE hs == import.headers
             k == Head(hs)
  <2>1. /\ hs # <<>> /\ SaveBlock(Joiner, k) /\ import' = [import EXCEPT !.headers = Tail(@)]
        /\ UNCHANGED <<seal, announced, snap>> /\ gossip' = gossip
    BY <1>14 DEF ImportHeader
  <2>2. import' = [pc |-> import.pc, force |-> import.force, accounts |-> import.accounts,
                   headers |-> Tail(hs), tip |-> import.tip]
    BY <1>11, <2>1
  <2>3. /\ \A i \in DOMAIN hs : OfSeed(hs[i])
        /\ import.tip > 0 => Ends(hs, import.tip) \/ chain[Joiner][import.tip] # NoBlock
    BY DEF SyncInv, WayInv
  <2>4. hs \in Seq(Block) BY <1>12
  <2> HIDE DEF hs
  <2>5. /\ k = hs[1] /\ k \in Block /\ 1 \in DOMAIN hs /\ Len(hs) \in Nat
        /\ Tail(hs) \in Seq(Block) /\ Len(Tail(hs)) = Len(hs) - 1
        /\ \A i \in 1..(Len(hs) - 1) : Tail(hs)[i] = hs[i + 1]
    BY <2>1, <2>4
  <2>6. OfSeed(k) BY <2>3, <2>5
  <2>7. \A i \in DOMAIN Tail(hs) : OfSeed(Tail(hs)[i])
    <3> TAKE i \in DOMAIN Tail(hs)
    <3>1. i \in 1..(Len(hs) - 1) BY <2>5
    <3>2. i + 1 \in DOMAIN hs BY <2>4, <2>5, <3>1
    <3> QED BY <2>3, <2>5, <3>1, <3>2
  <2>8. Ends(hs, import.tip) => k.height = import.tip \/ Ends(Tail(hs), import.tip)
    <3> SUFFICES ASSUME Ends(hs, import.tip), k.height # import.tip
                 PROVE  Ends(Tail(hs), import.tip)
      OBVIOUS
    <3>1. hs[Len(hs)].height = import.tip BY DEF Ends
    <3>2. Len(hs) # 1 BY <2>5, <3>1
    <3>3. Len(hs) > 1 BY <2>1, <2>4, <2>5, <3>2
    <3>4. Tail(hs)[Len(hs) - 1] = hs[(Len(hs) - 1) + 1] BY <2>5, <3>3
    <3>5. (Len(hs) - 1) + 1 = Len(hs) BY <2>5
    <3>6. Tail(hs) # <<>>
      <4>1. Len(Tail(hs)) # 0 BY <2>5, <3>3
      <4> QED BY <2>5, <4>1, EmptySeq
    <3> QED BY <2>5, <3>1, <3>4, <3>5, <3>6 DEF Ends
  <2>9. import'.tip = import.tip /\ import'.headers = Tail(hs) BY <2>2
  <2> HIDE DEF k
  <2>10. PICK x \in Block : x = k BY <2>5
  <2>11. OfSeed(x) /\ SaveBlock(Joiner, x) BY <2>1, <2>6, <2>10
  <2>12. chain' \in [Nodes -> Headers] /\ tip' \in [Nodes -> 0..MaxHeight] BY <2>11, JoinerSaves
  <2>13. import' = [pc |-> import'.pc, force |-> import'.force, accounts |-> import'.accounts,
                    headers |-> import'.headers, tip |-> import'.tip]
    BY <2>2
  <2>14. TypeInv' BY <1>2, <2>1, <2>5, <2>9, <2>12, <2>13 DEF TypeInv
  <2>15. \A i \in DOMAIN import'.headers : OfSeed(import'.headers[i]) BY <2>7, <2>9
  <2>16. import.tip > 0 => \/ Ends(import'.headers, import.tip)
                           \/ chain[Joiner][import.tip] # NoBlock
                           \/ x.height = import.tip
    BY <2>3, <2>8, <2>9, <2>10
  <2>17. /\ gossip'[Seed].pc = "idle"
         /\ gossip'[Joiner].pc = "apply" => gossip'[Joiner].block \in announced
    BY <1>4, <2>1
  <2> QED BY <2>1, <2>9, <2>11, <2>14, <2>15, <2>16, <2>17, SavedByJoiner
<1>15. CASE ImportTip
  <2>1. /\ import.headers = <<>> /\ import' = NoImport
        /\ tip' = IF import.tip > 0 THEN [tip EXCEPT ![Joiner] = import.tip] ELSE tip
        /\ UNCHANGED <<chain, announced, seal, gossip, snap>>
    BY <1>15 DEF ImportTip
  <2>2. import' = [pc |-> "idle", force |-> TRUE, accounts |-> {}, headers |-> <<>>, tip |-> 0]
    BY <2>1 DEF NoImport
  <2>3. CASE ~(import.tip > 0) BY <1>3, <1>6, <2>1, <2>2, <2>3
  <2>4. CASE import.tip > 0
    <3>1. /\ tip' \in [Nodes -> 0..MaxHeight] /\ tip'[Seed] = tip[Seed]
          /\ tip'[Joiner] = import.tip
      BY <1>1, <1>2, <1>12, <2>1, <2>4 DEF TypeInv
    <3>2. chain[Joiner][import.tip] # NoBlock BY <2>1, <2>4 DEF SyncInv, WayInv, Ends
    <3>3. import'.tip = 0 /\ import'.headers = <<>>
          /\ import' = [pc |-> import'.pc, force |-> import'.force, accounts |-> import'.accounts,
                        headers |-> import'.headers, tip |-> import'.tip]
      BY <2>2
    <3>4. TypeInv' BY <1>2, <1>3, <2>1, <3>1, <3>3 DEF TypeInv
    <3>5. SeedInv' BY <2>1, <3>1 DEF SyncInv, SeedInv
    <3>6. HeadersAgree' BY <2>1, <3>1, <3>2 DEF SyncInv, HeadersAgree
    <3>7. \A x : OfSeed(x) => x.height <= tip'[Seed] /\ chain'[Seed][x.height] = x
      BY <2>1, <3>1 DEF OfSeed
    <3>8. WayInv'
      <4>1. (\A k \in announced : k \in Block /\ OfSeed(k))'
        BY <2>1, <3>7 DEF SyncInv, WayInv, OfSeed
      <4>2. (\A i \in DOMAIN snap.headers : OfSeed(snap.headers[i]))'
        BY <2>1, <3>7 DEF SyncInv, WayInv, OfSeed
      <4>3. (\A i \in DOMAIN import.headers : OfSeed(import.headers[i]))' BY <3>3
      <4>4. (snap.pc = "ready" /\ snap.tip > 0 => Ends(snap.headers, snap.tip))'
        BY <2>1 DEF SyncInv, WayInv, Ends
      <4>5. (snap.tip <= tip[Seed] /\ import.tip <= tip[Seed])'
        BY <1>2, <2>1, <3>1, <3>3, SyncBounds DEF SyncInv, WayInv
      <4>6. (gossip[Joiner].pc = "apply" => gossip[Joiner].block \in announced)' BY <1>4, <2>1
      <4>7. ~(import'.tip > 0) BY <3>3
      <4> QED BY <4>1, <4>2, <4>3, <4>4, <4>5, <4>6, <4>7 DEF WayInv
    <3> QED BY <3>4, <3>5, <3>6, <3>8 DEF SyncInv
  <2> QED BY <2>3, <2>4
<1> QED BY <1>7, <1>8, <1>9, <1>10, <1>13, <1>14, <1>15

\* Every step of the two nodes.
LEMMA SyncInvStep == ~BFTEnabled /\ SyncInv /\ [Next]_vars => SyncInv'
<1> SUFFICES ASSUME ~BFTEnabled, SyncInv, [Next]_vars PROVE SyncInv' OBVIOUS
<1>1. CASE UNCHANGED vars
  <2>1. TypeInv' BY <1>1 DEF vars, SyncInv, TypeInv
  <2>2. HeadersAgree' BY <1>1 DEF vars, SyncInv, HeadersAgree
  <2>3. SeedInv' BY <1>1 DEF vars, SyncInv, SeedInv
  <2>4. WayInv' BY <1>1 DEF vars, SyncInv, WayInv, OfSeed, Ends
  <2> QED BY <2>1, <2>2, <2>3, <2>4 DEF SyncInv
<1>2. ASSUME NEW n \in Nodes,
             (\E b \in BlockTxs : BeginSeal(n, b)) \/ SealApplies(n) \/ SealSaves(n) \/ SealFails(n)
      PROVE  SyncInv'
  BY <1>2, SealStep
<1>3. ASSUME NEW n \in Nodes,
             (\E k \in announced : GossipBegins(n, k)) \/ GossipApplies(n) \/ GossipSaves(n)
      PROVE  SyncInv'
  BY <1>3, GossipStep
<1>4. ASSUME \/ ExportTip \/ ExportAccounts
             \/ \E force \in BOOLEAN : ImportFullSnapshot(force) \/ RestoreAccounts(force)
             \/ \E a \in Accounts : ImportAccount(a)
             \/ ImportHeader \/ ImportTip
      PROVE  SyncInv'
  BY <1>4, SnapshotStep
<1> QED BY <1>1, <1>2, <1>3, <1>4 DEF Next

-----------------------------------------------------------------------------
(***************************************************************************)
(* When SealBlockWithTxs runs only at the leader, as trySeal sees to, the  *)
(* joiner's headers are the seed's and it has the header of its tip,       *)
(* whatever blocks, exports of a growing chain and imports overlap and     *)
(* fail half way: the tip that the end of an import writes may lie below   *)
(* what gossip has reached meanwhile, but never on a missing header.       *)
(***************************************************************************)
THEOREM HeadersAgreeHolds == ~BFTEnabled => (Spec => []HeadersAgree)
<1> SUFFICES ASSUME ~BFTEnabled PROVE Spec => []HeadersAgree OBVIOUS
<1>1. SyncInv /\ [Next]_vars => SyncInv' BY SyncInvStep
<1>2. SyncInv => HeadersAgree BY DEF SyncInv
<1> QED BY <1>1, <1>2, SyncInvInit, PTL DEF Spec
-----------------------------------------------------------------------------
(***************************************************************************)
(* The accounts.  Runs(x, s, y) says that the transactions s can be        *)
(* applied one after the other to the ledger x, and lead to y.  The blocks *)
(* above the joiner's tip are such runs between the seed's ledgers         *)
(* (Replays), and so is what the seed has applied of the block it is       *)
(* sealing (SealedInv).  What the joiner has yet to apply of a block is a  *)
(* run from a ledger with its accounts, in which at least as much has been *)
(* mined: an import leaves the joiner's bucket behind the seed's, never    *)
(* ahead of it, so that every claim the seed has paid the joiner pays too. *)
(***************************************************************************)

\* A ledger, as far as replaying depends on it.
IsLedger(x) ==
    /\ x = [acc |-> x.acc, minted |-> x.minted]
    /\ x.acc = [a \in Accounts |-> x.acc[a]]
    /\ x.minted \in Nat

Runs(x, s, y) == \E f :
    /\ f[0] = x /\ f[Len(s)] = y
    /\ \A i \in 0..Len(s) : IsLedger(f[i])
    /\ \A i \in 1..Len(s) : L!CanApply(f[i - 1], s[i]) /\ f[i] = L!ApplyTx(f[i - 1], s[i])

\* What a transaction makes of the accounts, and what it mints.
Effect(acc, t) == L!ApplyTx([acc |-> acc, minted |-> 0], t).acc
Mints(t) == IF t.type = "claim_mining" THEN t.amount ELSE 0

\* ApplyTx treats the accounts and the bucket separately.
LEMMA ApplyLedger ==
    ASSUME NEW x, IsLedger(x), NEW t \in Txs
    PROVE  /\ L!ApplyTx(x, t) = [acc |-> Effect(x.acc, t), minted |-> x.minted + Mints(t)]
           /\ IsLedger(L!ApplyTx(x, t))
           /\ Mints(t) \in Nat
<1>1. /\ t.type \in L!TxTypes /\ t.from \in Accounts /\ t.to \in Accounts /\ t.amount \in Nat
  BY LedgerType DEF L!Transaction
<1> DEFINE acc == x.acc
           m == x.minted
<1>2. x = [acc |-> acc, minted |-> m] /\ acc = [a \in Accounts |-> acc[a]] /\ m \in Nat
  BY DEF IsLedger
<1> HIDE DEF acc, m
<1>3. Mints(t) \in Nat BY <1>1 DEF Mints
<1>4. L!ApplyTx(x, t) = [acc |-> Effect(acc, t), minted |-> m + Mints(t)]
  <2>1. CASE t.type = "transfer" BY <1>2, <2>1 DEF L!ApplyTx, Effect, Mints
  <2>2. CASE t.type = "stake" BY <1>2, <2>2 DEF L!ApplyTx, Effect, Mints
  <2>3. CASE t.type = "request_unstake" BY <1>2, <2>3 DEF L!ApplyTx, Effect, Mints
  <2>4. CASE t.type = "claim_unstake" BY <1>2, <2>4 DEF L!ApplyTx, Effect, Mints
  <2>5. CASE t.type = "claim_mining" BY <1>2, <2>5 DEF L!ApplyTx, Effect, Mints
  <2> QED BY <1>1, <2>1, <2>2, <2>3, <2>4, <2>5 DEF L!TxTypes
<1>5. Effect(acc, t) = [a \in Accounts |-> Effect(acc, t)[a]]
  <2>1. CASE t.type = "transfer" BY <1>2, <2>1 DEF L!ApplyTx, Effect, L!Transfer
  <2>2. CASE t.type = "stake" BY <1>2, <2>2 DEF L!ApplyTx, Effect, L!Stake
  <2>3. CASE t.type = "request_unstake" BY <1>2, <2>3 DEF L!ApplyTx, Effect, L!RequestUnstake
  <2>4. CASE t.type = "claim_unstake" BY <1>2, <2>4 DEF L!ApplyTx, Effect, L!ClaimUnstake
  <2>5. CASE t.type = "claim_mining" BY <1>2, <2>5 DEF L!ApplyTx, Effect, L!ClaimMining
  <2> QED BY <1>1, <2>1, <2>2, <2>3, <2>4, <2>5 DEF L!TxTypes
<1>6. IsLedger(L!ApplyTx(x, t))
  <2>1. m + Mints(t) \in Nat BY <1>2, <1>3
  <2> QED BY <1>4, <1>5, <2>1 DEF IsLedger
<1> QED BY <1>3, <1>4, <1>6 DEF acc, m

\* Where less has been mined, no fewer transactions apply, and to the same effect.
LEMMA LessMined ==
    ASSUME NEW x, IsLedger(x), NEW y, IsLedger(y), x.acc = y.acc, x.minted <= y.minted,
           NEW t \in Txs, L!CanApply(y, t)
    PROVE  /\ L!CanApply(x, t)
           /\ L!ApplyTx(x, t).acc = L!ApplyTx(y, t).acc
           /\ L!ApplyTx(x, t).minted <= L!ApplyTx(y, t).minted
<1>1. t.type \in L!TxTypes /\ t.amount \in Nat /\ MiningCap \in Nat
  BY LedgerType DEF L!Transaction
<1>2. x.minted \in Nat /\ y.minted \in Nat BY DEF IsLedger
<1>3. L!NonceFresh(x, t) BY DEF L!CanApply, L!NonceFresh
<1>4. L!Funded(x, t)
  <2>1. CASE t.type = "claim_mining"
    <3>1. L!Funded(y, t) BY DEF L!CanApply
    <3>2. t.amount > 0 /\ y.minted + t.amount <= MiningCap
      BY <2>1, <3>1 DEF L!Funded, L!BucketHasRoom
    <3>3. x.minted + t.amount <= MiningCap BY <1>1, <1>2, <3>2
    <3> QED BY <2>1, <3>2, <3>3 DEF L!Funded, L!BucketHasRoom
  <2>2. CASE t.type # "claim_mining"
    <3>1. L!Funded(y, t) BY DEF L!CanApply
    <3> QED BY <1>1, <2>2, <3>1 DEF L!Funded, L!TxTypes
  <2> QED BY <2>1, <2>2
<1>5. /\ L!ApplyTx(x, t) = [acc |-> Effect(x.acc, t), minted |-> x.minted + Mints(t)]
      /\ L!ApplyTx(y, t) = [acc |-> Effect(y.acc, t), minted |-> y.minted + Mints(t)]
      /\ Mints(t) \in Nat
  BY ApplyLedger
<1>6. x.minted + Mints(t) <= y.minted + Mints(t) BY <1>2, <1>5
<1> QED BY <1>3, <1>4, <1>5, <1>6 DEF L!CanApply

\* No transactions lead nowhere.
LEMMA RunsNothing ==
    ASSUME NEW x, IsLedger(x), NEW y
    PROVE  /\ Runs(x, <<>>, x)
           /\ Runs(x, <<>>, y) => x = y
<1>1. Runs(x, <<>>, x)
  <2> DEFINE f == [i \in 0..0 |-> x]
  <2>1. f[0] = x /\ (\A i \in 0..0 : IsLedger(f[i])) OBVIOUS
  <2>2. Len(<<>>) = 0 OBVIOUS
  <2> HIDE DEF f
  <2> QED BY <2>1, <2>2 DEF Runs
<1>2. Runs(x, <<>>, y) => x = y BY DEF Runs
<1> QED BY <1>1, <1>2

\* One more transaction at the end of a run.
LEMMA RunsOneMore ==
    ASSUME NEW x, NEW y, NEW s \in Seq(Txs), Runs(x, s, y), NEW t \in Txs, L!CanApply(y, t)
    PROVE  Runs(x, Append(s, t), L!ApplyTx(y, t))
<1> DEFINE n == Len(s)
           s1 == Append(s, t)
<1>1. PICK f :
        /\ f[0] = x /\ f[n] = y
        /\ \A i \in 0..n : IsLedger(f[i])
        /\ \A i \in 1..n : L!CanApply(f[i - 1], s[i]) /\ f[i] = L!ApplyTx(f[i - 1], s[i])
  BY DEF Runs
<1>2. n \in Nat /\ Len(s1) = n + 1 /\ s1[n + 1] = t /\ \A i \in 1..n : s1[i] = s[i]
  OBVIOUS
<1> DEFINE g == [i \in 0..(n + 1) |-> IF i <= n THEN f[i] ELSE L!ApplyTx(y, t)]
<1>3. g[0] = x /\ g[n + 1] = L!ApplyTx(y, t) /\ \A i \in 0..n : g[i] = f[i] BY <1>1, <1>2
<1> HIDE DEF g, n, s1
<1>4. IsLedger(y) BY <1>1, <1>2
<1>5. \A i \in 0..(n + 1) : IsLedger(g[i])
  <2> TAKE i \in 0..(n + 1)
  <2>1. CASE i = n + 1 BY <1>3, <1>4, <2>1, ApplyLedger
  <2>2. CASE i # n + 1
    <3>1. i \in 0..n BY <1>2, <2>2
    <3> QED BY <1>1, <1>3, <3>1
  <2> QED BY <2>1, <2>2
<1>6. \A i \in 1..(n + 1) : L!CanApply(g[i - 1], s1[i]) /\ g[i] = L!ApplyTx(g[i - 1], s1[i])
  <2> TAKE i \in 1..(n + 1)
  <2>1. CASE i = n + 1
    <3>1. i - 1 = n /\ n \in 0..n BY <1>2, <2>1
    <3>2. g[i - 1] = y BY <1>1, <1>3, <3>1
    <3> QED BY <1>2, <1>3, <2>1, <3>2
  <2>2. CASE i # n + 1
    <3>1. i \in 1..n /\ i \in 0..n /\ i - 1 \in 0..n BY <1>2, <2>2
    <3>2. g[i - 1] = f[i - 1] /\ g[i] = f[i] /\ s1[i] = s[i] BY <1>2, <1>3, <3>1
    <3> QED BY <1>1, <3>1, <3>2
  <2> QED BY <2>1, <2>2
<1> QED BY <1>2, <1>3, <1>5, <1>6 DEF Runs, s1

\* A run begins with its first transaction and goes on with the others.
LEMMA RunsFirst ==
    ASSUME NEW x, NEW y, NEW s \in Seq(Txs), Runs(x, s, y), s # <<>>
    PROVE  /\ L!CanApply(x, Head(s))
           /\ Runs(L!ApplyTx(x, Head(s)), Tail(s), y)
<1> DEFINE n == Len(s)
           r == Tail(s)
<1>1. PICK f :
        /\ f[0] = x /\ f[n] = y
        /\ \A i \in 0..n : IsLedger(f[i])
        /\ \A i \in 1..n : L!CanApply(f[i - 1], s[i]) /\ f[i] = L!ApplyTx(f[i - 1], s[i])
  BY DEF Runs
<1>2. n \in Nat /\ n > 0 /\ Len(r) = n - 1 /\ Head(s) = s[1] /\ \A i \in 1..(n - 1) : r[i] = s[i + 1]
  BY EmptySeq
<1> DEFINE g == [i \in 0..(n - 1) |-> f[i + 1]]
<1>3. \A i \in 0..(n - 1) : g[i] = f[i + 1] OBVIOUS
<1> HIDE DEF g, n, r
<1>4. L!CanApply(x, s[1]) /\ f[1] = L!ApplyTx(x, s[1])
  <2>1. 1 \in 1..n /\ 1 - 1 = 0 BY <1>2
  <2>2. L!CanApply(f[1 - 1], s[1]) /\ f[1] = L!ApplyTx(f[1 - 1], s[1]) BY <1>1, <2>1
  <2> QED BY <1>1, <2>1, <2>2
<1>5. g[0] = L!ApplyTx(x, s[1]) /\ g[n - 1] = y
  <2>1. 0 \in 0..(n - 1) /\ 0 + 1 = 1 /\ n - 1 \in 0..(n - 1) /\ (n - 1) + 1 = n BY <1>2
  <2>2. g[0] = f[0 + 1] /\ g[n - 1] = f[(n - 1) + 1] BY <1>3, <2>1
  <2> QED BY <1>1, <1>4, <2>1, <2>2
<1>6. \A i \in 0..(n - 1) : IsLedger(g[i])
  <2> TAKE i \in 0..(n - 1)
  <2>1. i + 1 \in 0..n BY <1>2
  <2> QED BY <1>1, <1>3, <2>1
<1>7. \A i \in 1..(n - 1) : L!CanApply(g[i - 1], r[i]) /\ g[i] = L!ApplyTx(g[i - 1], r[i])
  <2> TAKE i \in 1..(n - 1)
  <2>1. /\ i \in 0..(n - 1) /\ i - 1 \in 0..(n - 1) /\ (i - 1) + 1 = i
        /\ i + 1 \in 1..n /\ (i + 1) - 1 = i
    BY <1>2
  <2>2. g[i - 1] = f[(i - 1) + 1] /\ g[i] = f[i + 1] /\ r[i] = s[i + 1] BY <1>2, <1>3, <2>1
  <2>3. L!CanApply(f[(i + 1) - 1], s[i + 1]) /\ f[i + 1] = L!ApplyTx(f[(i + 1) - 1], s[i + 1])
    BY <1>1, <2>1
  <2> QED BY <2>1, <2>2, <2>3
<1> QED BY <1>2, <1>4, <1>5, <1>6, <1>7 DEF Runs, r

\* From height h on, every block of the seed leads from its ledger to the next.
Replays(h) == \A i \in (h + 1)..tip[Seed] : Runs(base[i - 1], chain[Seed][i].txs, base[i])

\* The joiner's accounts are those of x, and it has mined no more.
Abreast(x) == books[Joiner].acc = x.acc /\ books[Joiner].minted <= x.minted

BooksInv ==
    /\ books = [n \in Nodes |-> books[n]] /\ \A n \in Nodes : IsLedger(books[n])
    /\ base = [h \in 0..MaxHeight |-> base[h]] /\ \A h \in 0..MaxHeight : IsLedger(base[h])
    /\ import.pc \in {"idle", "accounts"}

\* The seed's ledger is the last one kept, or what it has applied of a block leads to it.
SealedInv ==
    /\ seal[Seed].pc = "idle" => books[Seed] = base[tip[Seed]]
    /\ seal[Seed].pc = "apply" => Runs(base[tip[Seed]], seal[Seed].applied, books[Seed])

\* A snapshot taken between two seals has the ledger of its height, from which
\* what the seed sealed since can be replayed.
SnapInv ==
    /\ snap.quiet /\ snap.pc = "ready" =>
         /\ Replays(snap.tip)
         /\ snap.acc = base[snap.tip].acc /\ snap.minted = base[snap.tip].minted
         /\ snap.accounts = Written(snap.acc)
    /\ snap.tip = 0 => snap.headers = <<>>

\* An import half way: the accounts it has written, and those it will not write, are
\* the snapshot's, and so will be the tip.
Restores ==
    /\ import.force /\ snap.quiet /\ snap.pc = "ready"
    /\ \A a \in Accounts : a \notin import.accounts => books[Joiner].acc[a] = snap.acc[a]
    /\ books[Joiner].minted <= snap.minted
    /\ \/ import.tip = snap.tip /\ snap.tip > 0
       \/ import.tip = 0 /\ import.headers = <<>> /\ tip[Joiner] = snap.tip

\* A block half way: what is left of it leads to the seed's ledger of its height.
Replaying ==
    /\ import.pc = "idle" /\ gossip[Joiner].block.height = tip[Joiner] + 1
    /\ \E x : IsLedger(x) /\ Abreast(x) /\ Runs(x, gossip[Joiner].todo, base[tip[Joiner] + 1])

CleanInv == clean =>
    /\ import.pc = "idle" => Replays(tip[Joiner])
    /\ import.pc = "idle" /\ gossip[Joiner].pc = "idle" => Abreast(base[tip[Joiner]])
    /\ gossip[Joiner].pc = "apply" => Replaying
    /\ import.pc = "accounts" => Restores

FollowInv == BooksInv /\ SealedInv /\ SnapInv /\ CleanInv

\* The nodes, and where they are.
LEMMA Positions ==
    ASSUME SyncInv
    PROVE  /\ Seed \in Nodes /\ Joiner \in Nodes /\ Seed # Joiner
           /\ tip[Seed] \in 0..MaxHeight /\ tip[Joiner] \in 0..MaxHeight /\ MaxHeight \in Nat
           /\ tip[Joiner] <= tip[Seed]
           /\ seal[Seed] \in Sealing /\ gossip[Joiner] \in Gossiping
           /\ seal[Joiner].pc = "idle" /\ gossip[Seed].pc = "idle"
<1>1. Seed \in Nodes /\ Joiner \in Nodes /\ Seed # Joiner /\ MaxHeight \in Nat
  BY TwoNodes, SyncBounds DEF Nodes
<1>2. /\ tip[Seed] \in 0..MaxHeight /\ tip[Joiner] \in 0..MaxHeight
      /\ seal[Seed] \in Sealing /\ gossip[Joiner] \in Gossiping
      /\ seal[Joiner].pc = "idle" /\ gossip[Seed].pc = "idle"
  BY <1>1 DEF SyncInv, TypeInv, SeedInv
<1>3. tip[Joiner] <= tip[Seed]
  <2>1. CASE tip[Joiner] = 0 BY <1>1, <1>2, <2>1
  <2>2. CASE tip[Joiner] > 0
    <3>1. tip[Joiner] \in Heights BY <1>1, <1>2, <2>2 DEF Heights
    <3>2. chain[Seed][tip[Joiner]] # NoBlock
      BY <2>2, <3>1 DEF SyncInv, HeadersAgree
    <3>3. ~(tip[Joiner] > tip[Seed]) BY <3>1, <3>2 DEF SyncInv, SeedInv
    <3> QED BY <1>1, <1>2, <3>3
  <2> QED BY <1>1, <1>2, <2>1, <2>2
<1> QED BY <1>1, <1>2, <1>3

\* Two fresh stores.
LEMMA FollowInvInit == Init => FollowInv
<1> SUFFICES ASSUME Init PROVE FollowInv OBVIOUS
<1>1. IsLedger(L!StartLedger)
  <2>1. StartAccounts = [a \in Accounts |-> StartAccounts[a]] BY LedgerType
  <2> QED BY <2>1 DEF IsLedger, L!StartLedger
<1>2. Seed \in Nodes /\ Joiner \in Nodes /\ MaxHeight \in Nat BY SyncBounds DEF Nodes
<1>3. /\ \A n \in Nodes : books[n] = L!StartLedger
      /\ \A h \in 0..MaxHeight : base[h] = L!StartLedger
      /\ tip[Seed] = 0 /\ tip[Joiner] = 0 /\ 0 \in 0..MaxHeight
  BY <1>2 DEF Init
<1>4. BooksInv BY <1>1, <1>3 DEF Init, BooksInv, NoImport
<1>5. SealedInv BY <1>2, <1>3 DEF Init, SealedInv, NoSeal
<1>6. SnapInv BY DEF Init, SnapInv, NoSnap
<1>7. CleanInv
  <2>1. Replays(tip[Joiner]) BY <1>3 DEF Replays
  <2>2. L!StartLedger.minted <= L!StartLedger.minted BY DEF L!StartLedger
  <2>3. Abreast(base[tip[Joiner]]) BY <1>2, <1>3, <2>2 DEF Abreast
  <2>4. gossip[Joiner].pc # "apply" /\ import.pc # "accounts"
    BY <1>2 DEF Init, NoGossip, NoImport
  <2> QED BY <2>1, <2>3, <2>4 DEF CleanInv
<1> QED BY <1>4, <1>5, <1>6, <1>7 DEF FollowInv

-----------------------------------------------------------------------------
(* Steps of the seed. *)

\* The seed reads its tip and begins with nothing applied.
LEMMA BeginSealFollows ==
    ASSUME SyncInv, FollowInv, NEW b \in BlockTxs, BeginSeal(Seed, b)
    PROVE  FollowInv'
<1>1. Seed \in Nodes /\ tip[Seed] \in 0..MaxHeight BY Positions
<1>2. /\ seal[Seed].pc = "idle"
      /\ books' = books /\ chain' = chain /\ tip' = tip /\ base' = base /\ clean' = clean
      /\ gossip' = gossip /\ snap' = snap /\ import' = import
  BY DEF BeginSeal, store, history
<1>3. seal'[Seed].pc = "apply" /\ seal'[Seed].applied = <<>>
  BY <1>1 DEF BeginSeal, SyncInv, TypeInv
<1>4. books[Seed] = base[tip[Seed]] /\ IsLedger(books[Seed])
  BY <1>1, <1>2 DEF FollowInv, SealedInv, BooksInv
<1>5. Runs(base[tip[Seed]], <<>>, books[Seed]) BY <1>4, RunsNothing
<1>6. SealedInv' BY <1>2, <1>3, <1>5 DEF SealedInv
<1>7. BooksInv' BY <1>2 DEF FollowInv, BooksInv
<1>8. SnapInv' BY <1>2 DEF FollowInv, SnapInv, Replays
<1>9. CleanInv' BY <1>2 DEF FollowInv, CleanInv, Replays, Abreast, Replaying, Restores
<1> QED BY <1>6, <1>7, <1>8, <1>9 DEF FollowInv

\* A transaction that applies prolongs the run; one that does not is skipped.
LEMMA SealAppliesFollows ==
    ASSUME SyncInv, FollowInv, SealApplies(Seed)
    PROVE  FollowInv'
<1> DEFINE t == Head(seal[Seed].todo)
           s == seal[Seed].applied
<1>1. Seed \in Nodes /\ Joiner \in Nodes /\ Seed # Joiner /\ seal[Seed] \in Sealing BY Positions
<1>2. /\ seal[Seed].pc = "apply" /\ seal[Seed].todo # <<>>
      /\ chain' = chain /\ tip' = tip /\ base' = base /\ clean' = clean
      /\ gossip' = gossip /\ snap' = snap /\ import' = import
  BY DEF SealApplies, history
<1>3. seal[Seed].todo \in Seq(Txs) /\ s \in Seq(Txs) /\ seal \in [Nodes -> Sealing]
  BY <1>1 DEF Sealing, SyncInv, TypeInv
<1>4. t \in Txs BY <1>2, <1>3
<1>5. Runs(base[tip[Seed]], s, books[Seed]) /\ IsLedger(books[Seed])
  BY <1>1, <1>2 DEF FollowInv, SealedInv, BooksInv
<1>6. \/ /\ L!CanApply(books[Seed], t) /\ books' = [books EXCEPT ![Seed] = L!ApplyTx(@, t)]
         /\ seal' = [seal EXCEPT ![Seed].todo = Tail(@), ![Seed].applied = Append(@, t)]
      \/ books' = books /\ seal' = [seal EXCEPT ![Seed].todo = Tail(@)]
  BY DEF SealApplies, Apply
<1>7. /\ books = [n \in Nodes |-> books[n]] /\ \A n \in Nodes : IsLedger(books[n])
  BY DEF FollowInv, BooksInv
<1>8. /\ SealedInv' /\ books'[Joiner] = books[Joiner]
      /\ books' = [n \in Nodes |-> books'[n]] /\ \A n \in Nodes : IsLedger(books'[n])
  <2>1. CASE /\ L!CanApply(books[Seed], t) /\ books' = [books EXCEPT ![Seed] = L!ApplyTx(@, t)]
             /\ seal' = [seal EXCEPT ![Seed].todo = Tail(@), ![Seed].applied = Append(@, t)]
    <3>1. seal'[Seed].applied = Append(s, t) /\ seal'[Seed].pc = "apply"
      BY <1>1, <1>2, <1>3, <2>1 DEF Sealing
    <3>2. books'[Seed] = L!ApplyTx(books[Seed], t) /\ \A n \in Nodes : n # Seed => books'[n] = books[n]
      BY <1>1, <1>7, <2>1
    <3> HIDE DEF t, s
    <3>3. Runs(base[tip[Seed]], Append(s, t), L!ApplyTx(books[Seed], t))
      BY <1>3, <1>4, <1>5, <2>1, RunsOneMore
    <3>4. IsLedger(L!ApplyTx(books[Seed], t)) BY <1>4, <1>5, ApplyLedger
    <3>5. SealedInv' BY <1>2, <3>1, <3>2, <3>3 DEF SealedInv
    <3>6. books' = [n \in Nodes |-> books'[n]] BY <1>7, <2>1
    <3> QED BY <1>1, <1>7, <3>2, <3>4, <3>5, <3>6
  <2>2. CASE books' = books /\ seal' = [seal EXCEPT ![Seed].todo = Tail(@)]
    <3>1. seal'[Seed].applied = s /\ seal'[Seed].pc = "apply"
      BY <1>1, <1>2, <1>3, <2>2 DEF Sealing
    <3> HIDE DEF s
    <3>2. SealedInv' BY <1>2, <1>5, <2>2, <3>1 DEF SealedInv
    <3> QED BY <1>7, <2>2, <3>2
  <2> QED BY <1>6, <2>1, <2>2
<1>9. BooksInv' BY <1>2, <1>8 DEF FollowInv, BooksInv
<1>10. SnapInv' BY <1>2 DEF FollowInv, SnapInv, Replays
<1>11. CleanInv' BY <1>2, <1>8 DEF FollowInv, CleanInv, Replays, Abreast, Replaying, Restores
<1> QED BY <1>8, <1>9, <1>10, <1>11 DEF FollowInv

\* The block is stored, and the ledger it leads to is kept: one more block to replay.
LEMMA SealSavesFollows ==
    ASSUME SyncInv, FollowInv, SealSaves(Seed)
    PROVE  FollowInv'
<1> DEFINE h == tip[Seed] + 1
           s == seal[Seed].applied
           k == [height |-> seal[Seed].height, prev |-> seal[Seed].prev, proposer |-> Seed,
                 txs |-> s]
<1>1. /\ Seed \in Nodes /\ Joiner \in Nodes /\ Seed # Joiner /\ seal[Seed] \in Sealing
      /\ tip[Seed] \in 0..MaxHeight /\ tip[Joiner] \in 0..tip[Seed] /\ MaxHeight \in Nat
      /\ tip[Joiner] \in 0..MaxHeight
  BY Positions
<1>2. /\ seal[Seed].pc = "apply" /\ seal[Seed].height = h
      /\ chain' = [chain EXCEPT ![Seed][k.height] = k] /\ tip' = [tip EXCEPT ![Seed] = k.height]
      /\ seal' = [seal EXCEPT ![Seed] = NoSeal]
      /\ base' = [base EXCEPT ![k.height] = books[Seed]]
      /\ books' = books /\ clean' = clean
      /\ gossip' = gossip /\ snap' = snap /\ import' = import
  BY DEF SealSaves, SaveBlock, SyncInv, SeedInv
<1>3. h \in Heights /\ h \in 0..MaxHeight
  BY <1>1, <1>2 DEF Heights, Sealing
<1>4. k.height = h /\ k.txs = s BY <1>2
<1>5. /\ chain \in [Nodes -> Headers] /\ tip \in [Nodes -> 0..MaxHeight]
      /\ seal \in [Nodes -> Sealing]
  BY DEF SyncInv, TypeInv
<1> HIDE DEF k
<1>6. chain'[Seed][h] = k /\ \A i \in Heights : i # h => chain'[Seed][i] = chain[Seed][i]
  <2>1. chain[Seed] \in Headers BY <1>1, <1>5
  <2>2. chain'[Seed] = [chain[Seed] EXCEPT ![h] = k] BY <1>1, <1>2, <1>4, <1>5
  <2> QED BY <1>3, <2>1, <2>2 DEF Headers
<1>7. tip'[Seed] = h /\ tip'[Joiner] = tip[Joiner] BY <1>1, <1>2, <1>4, <1>5
<1>8. base = [i \in 0..MaxHeight |-> base[i]] /\ \A i \in 0..MaxHeight : IsLedger(base[i])
  BY DEF FollowInv, BooksInv
<1>9. /\ base'[h] = books[Seed] /\ \A i \in 0..MaxHeight : i # h => base'[i] = base[i]
      /\ base' = [i \in 0..MaxHeight |-> base'[i]]
  BY <1>2, <1>3, <1>4, <1>8
<1>10. Runs(base[tip[Seed]], s, books[Seed]) /\ IsLedger(books[Seed])
  BY <1>1, <1>2 DEF FollowInv, SealedInv, BooksInv
<1>11. ASSUME NEW lo \in 0..tip[Seed], Replays(lo)
       PROVE  Replays(lo)'
  <2> SUFFICES ASSUME NEW i \in (lo + 1)..tip'[Seed]
               PROVE  Runs(base'[i - 1], chain'[Seed][i].txs, base'[i])
    BY DEF Replays
  <2>1. CASE i = h
    <3>1. i - 1 = tip[Seed] /\ i - 1 # h BY <1>1, <2>1
    <3>2. base'[i - 1] = base[tip[Seed]] BY <1>1, <1>9, <3>1
    <3>3. chain'[Seed][i].txs = s /\ base'[i] = books[Seed] BY <1>4, <1>6, <1>9, <2>1
    <3> QED BY <1>10, <3>2, <3>3
  <2>2. CASE i # h
    <3>1. i \in (lo + 1)..tip[Seed] /\ i \in Heights BY <1>1, <1>7, <2>2 DEF Heights
    <3>2. i \in 0..MaxHeight /\ i - 1 \in 0..MaxHeight /\ i - 1 # h
      BY <1>1, <3>1 DEF Heights
    <3>3. base'[i - 1] = base[i - 1] /\ base'[i] = base[i] BY <1>9, <2>2, <3>2
    <3>4. chain'[Seed][i] = chain[Seed][i] BY <1>6, <2>2, <3>1
    <3>5. Runs(base[i - 1], chain[Seed][i].txs, base[i]) BY <1>11, <3>1 DEF Replays
    <3> QED BY <3>3, <3>4, <3>5
  <2> QED BY <2>1, <2>2
<1>12. SealedInv'
  <2>1. seal'[Seed].pc = "idle" BY <1>1, <1>2, <1>5 DEF NoSeal
  <2> QED BY <1>2, <1>7, <1>9, <2>1 DEF SealedInv
<1>13. BooksInv'
  <2>1. \A i \in 0..MaxHeight : IsLedger(base'[i]) BY <1>8, <1>9, <1>10
  <2> QED BY <1>2, <1>9, <2>1 DEF FollowInv, BooksInv
<1>14. ASSUME NEW i \in 0..tip[Seed] PROVE base'[i] = base[i]
  <2>1. i \in 0..MaxHeight /\ i # h BY <1>1
  <2> QED BY <1>9, <2>1
<1>15. SnapInv'
  <2>1. snap.tip \in 0..tip[Seed] BY <1>1 DEF SyncInv, TypeInv, WayInv
  <2>2. Replays(snap.tip) => Replays(snap.tip)' BY <1>2, <1>11, <2>1 DEF Replays
  <2>3. base'[snap.tip] = base[snap.tip] BY <1>14, <2>1
  <2> QED BY <1>2, <2>2, <2>3 DEF FollowInv, SnapInv
<1>16. CleanInv'
  <2>1. Replays(tip[Joiner]) => Replays(tip[Joiner])' BY <1>1, <1>7, <1>11 DEF Replays
  <2>2. base'[tip[Joiner]] = base[tip[Joiner]] BY <1>1, <1>14
  <2>3. gossip[Joiner].pc = "apply" /\ Replaying => Replaying'
    <3> SUFFICES ASSUME gossip[Joiner].pc = "apply", Replaying PROVE Replaying' OBVIOUS
    <3>1. gossip[Joiner].block.height <= tip[Seed] BY DEF SyncInv, WayInv, OfSeed
    <3>2. tip[Joiner] + 1 \in 0..tip[Seed] BY <1>1, <3>1 DEF Replaying
    <3>3. base'[tip[Joiner] + 1] = base[tip[Joiner] + 1] BY <1>14, <3>2
    <3> QED BY <1>2, <1>7, <3>3 DEF Replaying, Abreast
  <2>4. Restores => Restores' BY <1>2, <1>7 DEF Restores
  <2> QED BY <1>2, <1>7, <2>1, <2>2, <2>3, <2>4 DEF FollowInv, CleanInv, Abreast
<1> QED BY <1>12, <1>13, <1>15, <1>16 DEF FollowInv

\* With nothing applied nothing is lost; otherwise no replay is promised any more.
LEMMA SealFailsFollows ==
    ASSUME SyncInv, FollowInv, SealFails(Seed)
    PROVE  FollowInv'
<1> DEFINE s == seal[Seed].applied
<1>1. /\ Seed \in Nodes /\ Joiner \in Nodes /\ seal[Seed] \in Sealing
      /\ tip[Seed] \in 0..MaxHeight /\ seal \in [Nodes -> Sealing]
  BY Positions DEF SyncInv, TypeInv
<1>2. /\ seal[Seed].pc = "apply" /\ seal' = [seal EXCEPT ![Seed] = NoSeal]
      /\ base' = [base EXCEPT ![tip[Seed]] = books[Seed]]
      /\ clean' = (clean /\ s = <<>>)
      /\ snap' = [snap EXCEPT !.quiet = @ /\ s = <<>>]
      /\ books' = books /\ chain' = chain /\ tip' = tip /\ gossip' = gossip /\ import' = import
  BY DEF SealFails, store
<1>3. /\ base = [i \in 0..MaxHeight |-> base[i]] /\ \A i \in 0..MaxHeight : IsLedger(base[i])
      /\ IsLedger(books[Seed]) /\ Runs(base[tip[Seed]], s, books[Seed])
  BY <1>1, <1>2 DEF FollowInv, BooksInv, SealedInv
<1>4. /\ snap'.pc = snap.pc /\ snap'.tip = snap.tip /\ snap'.acc = snap.acc
      /\ snap'.accounts = snap.accounts /\ snap'.minted = snap.minted
      /\ snap'.headers = snap.headers
      /\ snap'.quiet = (snap.quiet /\ s = <<>>)
  BY <1>2 DEF SyncInv, TypeInv
<1>5. /\ base'[tip[Seed]] = books[Seed] /\ base' = [i \in 0..MaxHeight |-> base'[i]]
      /\ \A i \in 0..MaxHeight : i # tip[Seed] => base'[i] = base[i]
  BY <1>1, <1>2, <1>3
<1>6. BooksInv'
  <2>1. \A i \in 0..MaxHeight : IsLedger(base'[i]) BY <1>3, <1>5
  <2> QED BY <1>2, <1>5, <2>1 DEF FollowInv, BooksInv
<1>7. SealedInv'
  <2>1. seal'[Seed].pc = "idle" BY <1>1, <1>2 DEF NoSeal
  <2> QED BY <1>2, <1>5, <2>1 DEF SealedInv
<1>8. CASE s # <<>>
  <2>1. ~clean' /\ ~snap'.quiet BY <1>2, <1>4, <1>8
  <2>2. SnapInv' BY <1>4, <2>1 DEF FollowInv, SnapInv
  <2>3. CleanInv' BY <2>1 DEF CleanInv
  <2> QED BY <1>6, <1>7, <2>2, <2>3 DEF FollowInv
<1>9. CASE s = <<>>
  <2>1. books[Seed] = base[tip[Seed]] BY <1>1, <1>3, <1>9, RunsNothing
  <2>2. base' = base BY <1>3, <1>5, <2>1
  <2>3. (clean' <=> clean) /\ (snap'.quiet <=> snap.quiet) BY <1>2, <1>4, <1>9
  <2>4. SnapInv' BY <1>2, <1>4, <2>2, <2>3 DEF FollowInv, SnapInv, Replays
  <2>5. CleanInv'
    BY <1>2, <1>4, <2>2, <2>3 DEF FollowInv, CleanInv, Replays, Abreast, Replaying, Restores
  <2> QED BY <1>6, <1>7, <2>4, <2>5 DEF FollowInv
<1> QED BY <1>8, <1>9

-----------------------------------------------------------------------------
(* Steps of the joiner. *)

\* Nothing the joiner does touches what is kept of the seed.
LEMMA SeedUntouched ==
    ASSUME FollowInv, tip'[Seed] = tip[Seed], chain'[Seed] = chain[Seed], base' = base,
           books'[Seed] = books[Seed], seal' = seal, snap' = snap
    PROVE  SealedInv' /\ SnapInv'
<1>1. SealedInv' BY DEF FollowInv, SealedInv
<1>2. SnapInv' BY DEF FollowInv, SnapInv, Replays
<1> QED BY <1>1, <1>2

\* A block of the seed is the run from the joiner's ledger that the seed made of it.
LEMMA GossipBeginsFollows ==
    ASSUME SyncInv, FollowInv, NEW k \in announced, GossipBegins(Joiner, k)
    PROVE  FollowInv'
<1>1. /\ Seed \in Nodes /\ Joiner \in Nodes /\ Seed # Joiner
      /\ tip[Seed] \in 0..MaxHeight /\ tip[Joiner] \in 0..tip[Seed] /\ MaxHeight \in Nat
      /\ tip[Joiner] \in 0..MaxHeight /\ gossip \in [Nodes -> Gossiping]
  BY Positions DEF SyncInv, TypeInv
<1>2. /\ gossip[Joiner].pc = "idle" /\ k.height = tip[Joiner] + 1
      /\ gossip' = [gossip EXCEPT ![Joiner] = [pc |-> "apply", block |-> k, todo |-> k.txs]]
      /\ clean' = (clean /\ import.pc = "idle")
      /\ books' = books /\ chain' = chain /\ tip' = tip /\ base' = base
      /\ seal' = seal /\ snap' = snap /\ import' = import
  BY DEF GossipBegins, store
<1>3. k.height <= tip[Seed] /\ chain[Seed][k.height] = k BY DEF SyncInv, WayInv, OfSeed
<1>4. gossip'[Joiner] = [pc |-> "apply", block |-> k, todo |-> k.txs] BY <1>1, <1>2
<1>5. SealedInv' /\ SnapInv' BY <1>2, SeedUntouched
<1>6. BooksInv' BY <1>2 DEF FollowInv, BooksInv
<1>7. CleanInv'
  <2> SUFFICES ASSUME clean' PROVE Replays(tip[Joiner])' /\ Replaying' /\ import'.pc = "idle"
    BY <1>4 DEF CleanInv
  <2> DEFINE h == tip[Joiner] + 1
  <2>1. import.pc = "idle" /\ Replays(tip[Joiner]) /\ Abreast(base[tip[Joiner]])
    BY <1>2 DEF FollowInv, CleanInv
  <2>2. h \in (tip[Joiner] + 1)..tip[Seed] /\ h - 1 = tip[Joiner] BY <1>1, <1>2, <1>3
  <2>3. chain[Seed][h] = k BY <1>2, <1>3
  <2> HIDE DEF h
  <2>4. Runs(base[h - 1], chain[Seed][h].txs, base[h]) BY <2>1, <2>2 DEF Replays
  <2>5. Runs(base[tip[Joiner]], k.txs, base[h]) BY <2>2, <2>3, <2>4
  <2>6. IsLedger(base[tip[Joiner]]) BY <1>1 DEF FollowInv, BooksInv
  <2>7. PICK x : x = base[tip[Joiner]] OBVIOUS
  <2>8. IsLedger(x) /\ Abreast(x)' /\ Runs(x, k.txs, base[h])
    BY <1>2, <2>1, <2>5, <2>6, <2>7 DEF Abreast
  <2>9. Replaying' BY <1>2, <1>4, <2>1, <2>8 DEF Replaying, h
  <2>10. Replays(tip[Joiner])' BY <1>2, <2>1 DEF Replays
  <2> QED BY <1>2, <2>1, <2>9, <2>10
<1> QED BY <1>5, <1>6, <1>7 DEF FollowInv

\* A transaction that applied at the seed applies at the joiner, and the rest is a run.
LEMMA GossipAppliesFollows ==
    ASSUME SyncInv, FollowInv, GossipApplies(Joiner)
    PROVE  FollowInv'
<1> DEFINE s == gossip[Joiner].todo
           t == Head(s)
<1>1. /\ Seed \in Nodes /\ Joiner \in Nodes /\ Seed # Joiner
      /\ gossip \in [Nodes -> Gossiping] /\ gossip[Joiner] \in Gossiping
  BY Positions DEF SyncInv, TypeInv
<1>2. /\ gossip[Joiner].pc = "apply" /\ s # <<>>
      /\ chain' = chain /\ tip' = tip /\ base' = base /\ clean' = clean
      /\ seal' = seal /\ snap' = snap /\ import' = import
  BY DEF GossipApplies, history
<1>3. \/ /\ L!CanApply(books[Joiner], t) /\ books' = [books EXCEPT ![Joiner] = L!ApplyTx(@, t)]
         /\ gossip' = [gossip EXCEPT ![Joiner].todo = Tail(@)]
      \/ /\ ~L!CanApply(books[Joiner], t) /\ gossip' = [gossip EXCEPT ![Joiner] = NoGossip]
         /\ books' = books
  BY DEF GossipApplies, Apply
<1>4. s \in Seq(Txs) BY <1>1 DEF Gossiping
<1>5. t \in Txs BY <1>2, <1>4
<1>6. books = [n \in Nodes |-> books[n]] /\ \A n \in Nodes : IsLedger(books[n])
  BY DEF FollowInv, BooksInv
<1>7. ASSUME clean
      PROVE  /\ L!CanApply(books[Joiner], t) /\ Replays(tip[Joiner])
             /\ import.pc = "idle" /\ gossip[Joiner].block.height = tip[Joiner] + 1
             /\ \E y : /\ IsLedger(y) /\ Runs(y, Tail(s), base[tip[Joiner] + 1])
                       /\ L!ApplyTx(books[Joiner], t).acc = y.acc
                       /\ L!ApplyTx(books[Joiner], t).minted <= y.minted
  <2>1. Replaying /\ import.pc = "idle" /\ Replays(tip[Joiner])
    BY <1>2, <1>7 DEF FollowInv, CleanInv, Replaying
  <2>2. PICK x : /\ IsLedger(x) /\ Abreast(x)
                 /\ Runs(x, s, base[tip[Joiner] + 1])
    BY <2>1 DEF Replaying
  <2> HIDE DEF s, t
  <2>3. L!CanApply(x, t) /\ Runs(L!ApplyTx(x, t), Tail(s), base[tip[Joiner] + 1])
    BY <1>2, <1>4, <2>2, RunsFirst DEF t
  <2>4. IsLedger(books[Joiner]) BY <1>1, <1>6
  <2>5. /\ L!CanApply(books[Joiner], t)
        /\ L!ApplyTx(books[Joiner], t).acc = L!ApplyTx(x, t).acc
        /\ L!ApplyTx(books[Joiner], t).minted <= L!ApplyTx(x, t).minted
    BY <1>5, <2>2, <2>3, <2>4, LessMined DEF Abreast
  <2>6. IsLedger(L!ApplyTx(x, t)) BY <1>5, <2>2, ApplyLedger
  <2>7. PICK y : y = L!ApplyTx(x, t) OBVIOUS
  <2> QED BY <2>1, <2>3, <2>5, <2>6, <2>7 DEF Replaying
<1>8. CASE /\ L!CanApply(books[Joiner], t) /\ books' = [books EXCEPT ![Joiner] = L!ApplyTx(@, t)]
           /\ gossip' = [gossip EXCEPT ![Joiner].todo = Tail(@)]
  <2>1. /\ gossip'[Joiner].todo = Tail(s) /\ gossip'[Joiner].pc = "apply"
        /\ gossip'[Joiner].block = gossip[Joiner].block
    BY <1>1, <1>2, <1>8 DEF Gossiping
  <2>2. books'[Joiner] = L!ApplyTx(books[Joiner], t) /\ books'[Seed] = books[Seed]
    BY <1>1, <1>6, <1>8
  <2>3. books' = [n \in Nodes |-> books'[n]] BY <1>6, <1>8
  <2> HIDE DEF s, t
  <2>4. \A n \in Nodes : IsLedger(books'[n])
    <3>1. IsLedger(L!ApplyTx(books[Joiner], t)) BY <1>1, <1>5, <1>6, ApplyLedger
    <3> QED BY <1>6, <2>2, <3>1 DEF Nodes
  <2>5. BooksInv' BY <1>2, <2>3, <2>4 DEF FollowInv, BooksInv
  <2>6. SealedInv' /\ SnapInv' BY <1>2, <2>2, SeedUntouched
  <2>7. CleanInv'
    <3> SUFFICES ASSUME clean' PROVE Replays(tip[Joiner])' /\ Replaying' /\ import'.pc = "idle"
      BY <2>1 DEF CleanInv
    <3>1. clean BY <1>2
    <3>2. PICK y : /\ IsLedger(y) /\ Runs(y, Tail(s), base[tip[Joiner] + 1])
                   /\ L!ApplyTx(books[Joiner], t).acc = y.acc
                   /\ L!ApplyTx(books[Joiner], t).minted <= y.minted
      BY <1>7, <3>1
    <3>3. Abreast(y)' BY <2>2, <3>2 DEF Abreast
    <3>4. Replaying' BY <1>2, <1>7, <2>1, <3>1, <3>2, <3>3 DEF Replaying
    <3>5. Replays(tip[Joiner])' BY <1>2, <1>7, <3>1 DEF Replays
    <3> QED BY <1>2, <1>7, <3>1, <3>4, <3>5
  <2> QED BY <2>5, <2>6, <2>7 DEF FollowInv
<1>9. CASE /\ ~L!CanApply(books[Joiner], t) /\ gossip' = [gossip EXCEPT ![Joiner] = NoGossip]
           /\ books' = books
  <2>1. ~clean' BY <1>2, <1>7, <1>9
  <2>2. BooksInv' BY <1>2, <1>9 DEF FollowInv, BooksInv
  <2>3. SealedInv' /\ SnapInv' BY <1>2, <1>9, SeedUntouched
  <2> QED BY <2>1, <2>2, <2>3 DEF FollowInv, CleanInv
<1> QED BY <1>3, <1>8, <1>9

\* A block that is applied to the end brings the joiner to the next ledger of the seed.
LEMMA GossipSavesFollows ==
    ASSUME SyncInv, FollowInv, GossipSaves(Joiner)
    PROVE  FollowInv'
<1> DEFINE k == gossip[Joiner].block
<1>1. /\ Seed \in Nodes /\ Joiner \in Nodes /\ Seed # Joiner
      /\ tip[Seed] \in 0..MaxHeight /\ tip[Joiner] \in 0..tip[Seed] /\ MaxHeight \in Nat
      /\ gossip \in [Nodes -> Gossiping] /\ tip \in [Nodes -> 0..MaxHeight]
  BY Positions DEF SyncInv, TypeInv
<1>2. /\ gossip[Joiner].pc = "apply" /\ gossip[Joiner].todo = <<>> /\ SaveBlock(Joiner, k)
      /\ gossip' = [gossip EXCEPT ![Joiner] = NoGossip]
      /\ books' = books /\ base' = base /\ clean' = clean
      /\ seal' = seal /\ snap' = snap /\ import' = import
  BY DEF GossipSaves, history
<1>3. k \in Block /\ OfSeed(k) BY <1>2 DEF SyncInv, WayInv
<1> HIDE DEF k
<1>4. PICK x \in Block : x = k BY <1>3
<1>5. OfSeed(x) /\ SaveBlock(Joiner, x) BY <1>2, <1>3, <1>4
<1>6. chain'[Seed] = chain[Seed] /\ tip'[Seed] = tip[Seed] BY <1>5, JoinerSaves
<1>7. tip'[Joiner] = k.height BY <1>1, <1>2 DEF SaveBlock
<1>8. gossip'[Joiner].pc = "idle" BY <1>1, <1>2 DEF NoGossip
<1>9. BooksInv' BY <1>2 DEF FollowInv, BooksInv
<1>10. SealedInv' /\ SnapInv' BY <1>2, <1>6, SeedUntouched
<1>11. CleanInv'
  <2> SUFFICES ASSUME clean'
               PROVE  import'.pc = "idle" /\ Replays(tip[Joiner])' /\ Abreast(base[tip[Joiner]])'
    BY <1>8 DEF CleanInv
  <2> DEFINE h == tip[Joiner] + 1
  <2>1. Replaying /\ import.pc = "idle" /\ Replays(tip[Joiner])
    BY <1>2 DEF FollowInv, CleanInv, Replaying
  <2>2. k.height = h BY <2>1 DEF Replaying, k
  <2>3. PICK y : IsLedger(y) /\ Abreast(y) /\ Runs(y, <<>>, base[h]) BY <1>2, <2>1 DEF Replaying
  <2>4. Abreast(base[h]) BY <2>3, RunsNothing
  <2>5. Abreast(base[tip[Joiner]])' BY <1>2, <1>7, <2>2, <2>4 DEF Abreast
  <2>6. \A i \in (h + 1)..tip[Seed] : Runs(base[i - 1], chain[Seed][i].txs, base[i])
    <3> TAKE i \in (h + 1)..tip[Seed]
    <3>1. i \in (tip[Joiner] + 1)..tip[Seed] BY <1>1
    <3> QED BY <2>1, <3>1 DEF Replays
  <2> HIDE DEF h
  <2>7. Replays(tip[Joiner])' BY <1>2, <1>6, <1>7, <2>2, <2>6 DEF Replays
  <2> QED BY <1>2, <2>1, <2>5, <2>7
<1> QED BY <1>9, <1>10, <1>11 DEF FollowInv

-----------------------------------------------------------------------------
(* Exports and imports. *)

\* A new snapshot begins: nothing has been read of it but the tip.
LEMMA ExportTipFollows ==
    ASSUME SyncInv, FollowInv, ExportTip
    PROVE  FollowInv'
<1>1. /\ import.pc = "idle"
      /\ snap' = [NoSnap EXCEPT !.pc = "tip", !.tip = tip[Seed], !.quiet = seal[Seed].pc = "idle"]
      /\ books' = books /\ chain' = chain /\ tip' = tip /\ base' = base /\ clean' = clean
      /\ seal' = seal /\ gossip' = gossip /\ import' = import
  BY DEF ExportTip, store, history
<1>2. snap'.pc = "tip" /\ snap'.headers = <<>> BY <1>1 DEF NoSnap
<1>3. BooksInv' BY <1>1 DEF FollowInv, BooksInv
<1>4. SealedInv' BY <1>1 DEF FollowInv, SealedInv
<1>5. SnapInv' BY <1>2 DEF SnapInv
<1>6. CleanInv' BY <1>1 DEF FollowInv, CleanInv, Replays, Abreast, Replaying
<1> QED BY <1>3, <1>4, <1>5, <1>6 DEF FollowInv

\* The accounts read between two seals, at an unchanged tip, are those of that height.
LEMMA ExportAccountsFollows ==
    ASSUME SyncInv, FollowInv, ExportAccounts
    PROVE  FollowInv'
<1>1. /\ tip[Seed] \in 0..MaxHeight /\ MaxHeight \in Nat /\ Seed \in Nodes
      /\ snap.tip \in 0..MaxHeight /\ snap.tip <= tip[Seed]
  BY Positions DEF SyncInv, TypeInv, WayInv
<1>2. /\ snap.pc = "tip"
      /\ snap' = [pc |-> "ready", tip |-> snap.tip, acc |-> books[Seed].acc,
                  accounts |-> Written(books[Seed].acc), minted |-> books[Seed].minted,
                  headers |-> Recent(Seed, snap.tip),
                  quiet |-> snap.quiet /\ seal[Seed].pc = "idle" /\ tip[Seed] = snap.tip]
      /\ books' = books /\ chain' = chain /\ tip' = tip /\ base' = base /\ clean' = clean
      /\ seal' = seal /\ gossip' = gossip /\ import' = import
  BY DEF ExportAccounts, store, history
<1>3. /\ snap'.pc = "ready" /\ snap'.tip = snap.tip /\ snap'.acc = books[Seed].acc
      /\ snap'.accounts = Written(books[Seed].acc) /\ snap'.minted = books[Seed].minted
      /\ snap'.headers = Recent(Seed, snap.tip)
      /\ snap'.quiet = (snap.quiet /\ seal[Seed].pc = "idle" /\ tip[Seed] = snap.tip)
  BY <1>2
<1>4. BooksInv' BY <1>2 DEF FollowInv, BooksInv
<1>5. SealedInv' BY <1>2 DEF FollowInv, SealedInv
<1>6. SnapInv'
  <2>1. snap'.tip = 0 => snap'.headers = <<>>
    <3>1. ASSUME snap.tip = 0 PROVE Recent(Seed, snap.tip) = <<>>
      <4>1. RecentBlocks \in Nat /\ RecentBlocks > 0 BY SyncBounds
      <4>2. Recent(Seed, 0) = SubSeq(chain[Seed], 1, 0) BY <4>1 DEF Recent
      <4>3. chain[Seed] \in Seq(Block \cup {NoBlock})
        <5>1. chain[Seed] \in Headers BY <1>1 DEF SyncInv, TypeInv
        <5> QED BY <1>1, <5>1 DEF Headers, Heights
      <4>4. SubSeq(chain[Seed], 1, 0) = <<>> BY <4>3
      <4> QED BY <3>1, <4>2, <4>4
    <3> QED BY <1>3, <3>1
  <2>2. ASSUME snap'.quiet
        PROVE  /\ Replays(snap.tip)'
               /\ snap'.acc = base'[snap'.tip].acc /\ snap'.minted = base'[snap'.tip].minted
               /\ snap'.accounts = Written(snap'.acc)
    <3>1. seal[Seed].pc = "idle" /\ tip[Seed] = snap.tip BY <1>3, <2>2
    <3>2. books[Seed] = base[snap.tip] BY <3>1 DEF FollowInv, SealedInv
    <3>3. (snap.tip + 1)..tip[Seed] = {} BY <1>1, <3>1
    <3>4. Replays(snap.tip)' BY <1>2, <1>3, <3>3 DEF Replays
    <3> QED BY <1>2, <1>3, <3>2, <3>4
  <2> QED BY <1>3, <2>1, <2>2 DEF SnapInv, Written
<1>7. CleanInv' BY <1>2 DEF FollowInv, CleanInv, Replays, Abreast, Replaying, Restores
<1> QED BY <1>4, <1>5, <1>6, <1>7 DEF FollowInv

\* An import that Repairs: what it will not write is blank in both ledgers.
LEMMA ImportBegins ==
    ASSUME SyncInv, FollowInv, NEW force \in BOOLEAN,
           ImportFullSnapshot(force) \/ RestoreAccounts(force)
    PROVE  FollowInv'
<1>1. /\ Seed \in Nodes /\ Joiner \in Nodes /\ gossip[Joiner] \in Gossiping
      /\ tip[Joiner] \in 0..MaxHeight /\ MaxHeight \in Nat
      /\ snap.tip \in 0..MaxHeight /\ snap.tip <= tip[Seed]
  BY Positions DEF SyncInv, TypeInv, WayInv
<1>2. /\ snap.pc = "ready" /\ import.pc = "idle"
      /\ books' = books /\ chain' = chain /\ tip' = tip /\ base' = base
      /\ seal' = seal /\ gossip' = gossip /\ snap' = snap
  BY DEF ImportFullSnapshot, RestoreAccounts, BeginImport, store
<1>3. \/ /\ import' = [pc |-> "accounts", force |-> force, accounts |-> snap.accounts,
                       headers |-> snap.headers, tip |-> snap.tip]
         /\ clean' = (Repairs(force) /\ snap.tip >= tip[Joiner])
      \/ /\ import' = [pc |-> "accounts", force |-> force, accounts |-> snap.accounts,
                       headers |-> <<>>, tip |-> 0]
         /\ clean' = (Repairs(force) /\ snap.tip = tip[Joiner])
  BY DEF ImportFullSnapshot, RestoreAccounts, BeginImport
<1>4. import'.pc = "accounts" /\ import'.force = force /\ import'.accounts = snap.accounts BY <1>3
<1>5. BooksInv' BY <1>2, <1>4 DEF FollowInv, BooksInv
<1>6. SealedInv' /\ SnapInv' BY <1>2, SeedUntouched
<1>7. CleanInv'
  <2> SUFFICES ASSUME clean' PROVE gossip'[Joiner].pc = "idle" /\ Restores'
    BY <1>4 DEF CleanInv
  <2>1. Repairs(force) BY <1>3
  <2>2. /\ snap.quiet /\ force /\ gossip[Joiner].pc = "idle"
        /\ snap.minted >= books[Joiner].minted /\ Written(books[Joiner].acc) \subseteq snap.accounts
    BY <2>1 DEF Repairs
  <2>3. /\ snap.accounts = Written(snap.acc)
        /\ snap.minted = base[snap.tip].minted
    BY <1>2, <2>2 DEF FollowInv, SnapInv
  <2>4. \A a \in Accounts : a \notin snap.accounts => books[Joiner].acc[a] = snap.acc[a]
    BY <2>2, <2>3 DEF Written
  <2>5. books[Joiner].minted <= snap.minted
    <3>1. IsLedger(books[Joiner]) /\ IsLedger(base[snap.tip]) BY <1>1 DEF FollowInv, BooksInv
    <3>2. books[Joiner].minted \in Nat /\ snap.minted \in Nat BY <2>3, <3>1 DEF IsLedger
    <3> QED BY <2>2, <3>2
  <2>6. \/ import'.tip = snap.tip /\ snap.tip > 0
        \/ import'.tip = 0 /\ import'.headers = <<>> /\ tip[Joiner] = snap.tip
    <3>1. CASE /\ import' = [pc |-> "accounts", force |-> force, accounts |-> snap.accounts,
                             headers |-> snap.headers, tip |-> snap.tip]
               /\ clean' = (Repairs(force) /\ snap.tip >= tip[Joiner])
      <4>1. snap.tip >= tip[Joiner] /\ import'.tip = snap.tip /\ import'.headers = snap.headers
        BY <3>1
      <4>2. CASE snap.tip > 0 BY <4>1, <4>2
      <4>3. CASE ~(snap.tip > 0)
        <5>1. snap.tip = 0 /\ tip[Joiner] = 0 BY <1>1, <4>1, <4>3
        <5>2. snap.headers = <<>> BY <5>1 DEF FollowInv, SnapInv
        <5> QED BY <4>1, <5>1, <5>2
      <4> QED BY <4>2, <4>3
    <3>2. CASE /\ import' = [pc |-> "accounts", force |-> force, accounts |-> snap.accounts,
                             headers |-> <<>>, tip |-> 0]
               /\ clean' = (Repairs(force) /\ snap.tip = tip[Joiner])
      BY <3>2
    <3> QED BY <1>3, <3>1, <3>2
  <2> QED BY <1>2, <1>4, <2>2, <2>4, <2>5, <2>6 DEF Restores
<1> QED BY <1>5, <1>6, <1>7 DEF FollowInv

\* One account more is the snapshot's.
LEMMA ImportAccountFollows ==
    ASSUME SyncInv, FollowInv, NEW a \in Accounts, ImportAccount(a)
    PROVE  FollowInv'
<1>1. Seed \in Nodes /\ Joiner \in Nodes /\ Seed # Joiner /\ gossip[Joiner] \in Gossiping
  BY Positions
<1>2. /\ import.pc = "accounts" /\ import' = [import EXCEPT !.accounts = @ \ {a}]
      /\ books' = IF ImportKeeps(a) THEN books ELSE [books EXCEPT ![Joiner].acc[a] = snap.acc[a]]
      /\ chain' = chain /\ tip' = tip /\ base' = base /\ clean' = clean
      /\ seal' = seal /\ gossip' = gossip /\ snap' = snap
  BY DEF ImportAccount, history
<1>3. /\ import'.pc = "accounts" /\ import'.force = import.force
      /\ import'.accounts = import.accounts \ {a}
      /\ import'.headers = import.headers /\ import'.tip = import.tip
  BY <1>2 DEF SyncInv, TypeInv
<1>4. books = [n \in Nodes |-> books[n]] /\ \A n \in Nodes : IsLedger(books[n])
  BY DEF FollowInv, BooksInv
<1> DEFINE x == books[Joiner]
           acc == [x.acc EXCEPT ![a] = snap.acc[a]]
<1>5. ~ImportKeeps(a) =>
        /\ books' = [n \in Nodes |-> books'[n]] /\ books'[Seed] = books[Seed]
        /\ books'[Joiner] = [acc |-> acc, minted |-> x.minted]
  <2> SUFFICES ASSUME ~ImportKeeps(a)
               PROVE  /\ books' = [n \in Nodes |-> books'[n]] /\ books'[Seed] = books[Seed]
                      /\ books'[Joiner] = [acc |-> acc, minted |-> x.minted]
    OBVIOUS
  <2>1. books' = [books EXCEPT ![Joiner].acc[a] = snap.acc[a]] BY <1>2
  <2>2. books' = [n \in Nodes |-> books'[n]] /\ books'[Seed] = books[Seed] BY <1>1, <1>4, <2>1
  <2>3. books'[Joiner] = [x EXCEPT !.acc = acc] BY <1>1, <1>4, <2>1
  <2>4. x = [acc |-> x.acc, minted |-> x.minted] BY <1>1, <1>4 DEF IsLedger
  <2> HIDE DEF acc, x
  <2> QED BY <2>2, <2>3, <2>4
<1>6. /\ x.acc = [b \in Accounts |-> x.acc[b]] /\ x.minted \in Nat BY <1>1, <1>4 DEF IsLedger
<1>7. /\ acc = [b \in Accounts |-> acc[b]] /\ acc[a] = snap.acc[a]
      /\ \A b \in Accounts : b # a => acc[b] = x.acc[b]
  <2> HIDE DEF x
  <2> QED BY <1>6
<1> HIDE DEF acc
<1>8. BooksInv' /\ books'[Seed] = books[Seed]
  <2>1. CASE ImportKeeps(a) BY <1>2, <1>3, <2>1 DEF FollowInv, BooksInv
  <2>2. CASE ~ImportKeeps(a)
    <3>1. IsLedger(books'[Joiner])
      <4> HIDE DEF x
      <4> QED BY <1>5, <1>6, <1>7, <2>2 DEF IsLedger
    <3>2. \A n \in Nodes : IsLedger(books'[n]) BY <1>1, <1>4, <1>5, <2>2, <3>1 DEF Nodes
    <3> QED BY <1>2, <1>3, <1>5, <2>2, <3>2 DEF FollowInv, BooksInv
  <2> QED BY <2>1, <2>2
<1>9. SealedInv' /\ SnapInv' BY <1>2, <1>8, SeedUntouched
<1>10. CleanInv'
  <2> SUFFICES ASSUME clean' PROVE gossip'[Joiner].pc = "idle" /\ Restores'
    BY <1>3 DEF CleanInv
  <2>1. Restores BY <1>2 DEF FollowInv, CleanInv
  <2>2. gossip[Joiner].pc = "idle"
    <3>1. gossip[Joiner].pc # "apply" BY <1>2 DEF FollowInv, CleanInv, Replaying
    <3> QED BY <1>1, <3>1 DEF Gossiping
  <2>3. ~ImportKeeps(a) BY <2>1 DEF ImportKeeps, Restores
  <2>4. books'[Joiner].acc = acc /\ books'[Joiner].minted = books[Joiner].minted BY <1>5, <2>3
  <2>5. \A b \in Accounts : b \notin import'.accounts => books'[Joiner].acc[b] = snap.acc[b]
    BY <1>3, <1>7, <2>1, <2>4 DEF Restores
  <2> QED BY <1>2, <1>3, <2>1, <2>2, <2>4, <2>5 DEF Restores
<1> QED BY <1>8, <1>9, <1>10 DEF FollowInv

\* The tips that headers leave on the way do not matter: the import will set its own.
LEMMA ImportHeaderFollows ==
    ASSUME SyncInv, FollowInv, ImportHeader
    PROVE  FollowInv'
<1>1. Seed \in Nodes /\ Joiner \in Nodes /\ Seed # Joiner /\ gossip[Joiner] \in Gossiping
  BY Positions
<1>2. /\ import.pc = "accounts" /\ import.headers # <<>> /\ SaveBlock(Joiner, Head(import.headers))
      /\ import' = [import EXCEPT !.headers = Tail(@)]
      /\ books' = books /\ base' = base /\ clean' = clean
      /\ seal' = seal /\ gossip' = gossip /\ snap' = snap
  BY DEF ImportHeader, history
<1>3. /\ import'.pc = "accounts" /\ import'.force = import.force
      /\ import'.accounts = import.accounts /\ import'.tip = import.tip
  BY <1>2 DEF SyncInv, TypeInv
<1>4. chain'[Seed] = chain[Seed] /\ tip'[Seed] = tip[Seed]
  BY <1>1, <1>2 DEF SaveBlock, SyncInv, TypeInv
<1>5. BooksInv' BY <1>2, <1>3 DEF FollowInv, BooksInv
<1>6. SealedInv' /\ SnapInv' BY <1>2, <1>4, SeedUntouched
<1>7. CleanInv'
  <2> SUFFICES ASSUME clean' PROVE gossip'[Joiner].pc = "idle" /\ Restores'
    BY <1>3 DEF CleanInv
  <2>1. Restores BY <1>2 DEF FollowInv, CleanInv
  <2>2. gossip[Joiner].pc = "idle"
    <3>1. gossip[Joiner].pc # "apply" BY <1>2 DEF FollowInv, CleanInv, Replaying
    <3> QED BY <1>1, <3>1 DEF Gossiping
  <2> QED BY <1>2, <1>3, <2>1, <2>2 DEF Restores
<1> QED BY <1>5, <1>6, <1>7 DEF FollowInv

\* The import ends: accounts and tip are the snapshot's, and replay goes on from there.
LEMMA ImportTipFollows ==
    ASSUME SyncInv, FollowInv, ImportTip
    PROVE  FollowInv'
<1>1. /\ Seed \in Nodes /\ Joiner \in Nodes /\ Seed # Joiner /\ gossip[Joiner] \in Gossiping
      /\ tip \in [Nodes -> 0..MaxHeight] /\ snap.tip \in 0..MaxHeight
  BY Positions DEF SyncInv, TypeInv
<1>2. /\ import.pc = "accounts" /\ import.accounts = {} /\ import' = NoImport
      /\ tip' = IF import.tip > 0 THEN [tip EXCEPT ![Joiner] = import.tip] ELSE tip
      /\ books' = books /\ chain' = chain /\ base' = base /\ clean' = clean
      /\ seal' = seal /\ gossip' = gossip /\ snap' = snap
  BY DEF ImportTip, history
<1>3. import'.pc = "idle" BY <1>2 DEF NoImport
<1>4. tip'[Seed] = tip[Seed] BY <1>1, <1>2
<1>5. BooksInv' BY <1>2, <1>3 DEF FollowInv, BooksInv
<1>6. SealedInv' /\ SnapInv' BY <1>2, <1>4, SeedUntouched
<1>7. CleanInv'
  <2> SUFFICES ASSUME clean' PROVE /\ gossip'[Joiner].pc = "idle" /\ Replays(tip[Joiner])'
                                   /\ Abreast(base[tip[Joiner]])'
    BY <1>3 DEF CleanInv
  <2>1. Restores BY <1>2 DEF FollowInv, CleanInv
  <2>2. gossip[Joiner].pc = "idle"
    <3>1. gossip[Joiner].pc # "apply" BY <1>2 DEF FollowInv, CleanInv, Replaying
    <3> QED BY <1>1, <3>1 DEF Gossiping
  <2>3. tip'[Joiner] = snap.tip
    <3>1. CASE import.tip = snap.tip /\ snap.tip > 0 BY <1>1, <1>2, <3>1
    <3>2. CASE import.tip = 0 /\ tip[Joiner] = snap.tip BY <1>1, <1>2, <3>2
    <3> QED BY <2>1, <3>1, <3>2 DEF Restores
  <2>4. /\ Replays(snap.tip) /\ snap.acc = base[snap.tip].acc
        /\ snap.minted = base[snap.tip].minted
    BY <2>1 DEF FollowInv, SnapInv, Restores
  <2>5. books[Joiner].acc = base[snap.tip].acc
    <3>1. IsLedger(books[Joiner]) /\ IsLedger(base[snap.tip]) BY <1>1 DEF FollowInv, BooksInv
    <3>2. \A a \in Accounts : books[Joiner].acc[a] = base[snap.tip].acc[a]
      BY <1>2, <2>1, <2>4 DEF Restores
    <3> QED BY <3>1, <3>2 DEF IsLedger
  <2>6. books[Joiner].minted <= base[snap.tip].minted BY <2>1, <2>4 DEF Restores
  <2>7. Replays(tip[Joiner])' BY <1>2, <1>4, <2>3, <2>4 DEF Replays
  <2> QED BY <1>2, <2>2, <2>3, <2>5, <2>6, <2>7 DEF Abreast
<1> QED BY <1>5, <1>6, <1>7 DEF FollowInv

\* Every step of the two nodes.
LEMMA FollowInvStep == ~BFTEnabled /\ SyncInv /\ FollowInv /\ [Next]_vars => FollowInv'
<1> SUFFICES ASSUME ~BFTEnabled, SyncInv, FollowInv, [Next]_vars PROVE FollowInv' OBVIOUS
<1>1. CASE UNCHANGED vars
  <2>1. BooksInv' BY <1>1 DEF vars, FollowInv, BooksInv
  <2>2. SealedInv' BY <1>1 DEF vars, FollowInv, SealedInv
  <2>3. SnapInv' BY <1>1 DEF vars, FollowInv, SnapInv, Replays
  <2>4. CleanInv' BY <1>1 DEF vars, FollowInv, CleanInv, Replays, Abreast, Replaying, Restores
  <2> QED BY <2>1, <2>2, <2>3, <2>4 DEF FollowInv
<1>2. Seed # Joiner /\ seal[Joiner].pc = "idle" /\ gossip[Seed].pc = "idle" BY Positions
<1>3. ASSUME NEW n \in Nodes,
             (\E b \in BlockTxs : BeginSeal(n, b)) \/ SealApplies(n) \/ SealSaves(n) \/ SealFails(n)
      PROVE  FollowInv'
  <2>1. n = Seed BY <1>2, <1>3 DEF Nodes, BeginSeal, MaySeal, SealApplies, SealSaves, SealFails
  <2> QED BY <1>3, <2>1, BeginSealFollows, SealAppliesFollows, SealSavesFollows, SealFailsFollows
<1>4. ASSUME NEW n \in Nodes,
             (\E k \in announced : GossipBegins(n, k)) \/ GossipApplies(n) \/ GossipSaves(n)
      PROVE  FollowInv'
  <2>1. n = Joiner BY <1>2, <1>4 DEF Nodes, GossipBegins, GossipApplies, GossipSaves
  <2> QED BY <1>4, <2>1, GossipBeginsFollows, GossipAppliesFollows, GossipSavesFollows
<1>5. ASSUME \/ ExportTip \/ ExportAccounts
             \/ \E force \in BOOLEAN : ImportFullSnapshot(force) \/ RestoreAccounts(force)
             \/ \E a \in Accounts : ImportAccount(a)
             \/ ImportHeader \/ ImportTip
      PROVE  FollowInv'
  BY <1>5, ExportTipFollows, ExportAccountsFollows, ImportBegins, ImportAccountFollows,
     ImportHeaderFollows, ImportTipFollows
<1> QED BY <1>1, <1>3, <1>4, <1>5 DEF Next

(***************************************************************************)
(* When only the leader seals, replay and import compose: while no seal    *)
(* has failed with something applied and no import has raced a block, or   *)
(* once a forced import of a snapshot taken between two seals has brought  *)
(* the nodes together again, the joiner's accounts between blocks are the  *)
(* seed's at the joiner's height, for any accounts, transactions, mining   *)
(* cap, failures and imports.                                              *)
(***************************************************************************)
THEOREM JoinerFollowsHolds == ~BFTEnabled => (Spec => []JoinerFollows)
<1> SUFFICES ASSUME ~BFTEnabled PROVE Spec => []JoinerFollows OBVIOUS
<1>1. SyncInv /\ [Next]_vars => SyncInv' BY SyncInvStep
<1>2. SyncInv /\ FollowInv /\ [Next]_vars => FollowInv' BY FollowInvStep
<1>3. FollowInv => JoinerFollows BY DEF FollowInv, CleanInv, Abreast, JoinerFollows
<1> QED BY <1>1, <1>2, <1>3, SyncInvInit, FollowInvInit, PTL DEF Spec
=============================================================================
