------------------------------ MODULE StateSync ------------------------------
(***************************************************************************)
(* A network with one registered validator, the seed, and a node that      *)
(* joins it: the seed seals blocks without voting (soloSeal of             *)
(* internal/consensus/bft.go, or Producer.trySeal of producer.go when the  *)
(* engine is off), both by SealBlockWithTxs; the joiner replays announced  *)
(* blocks and may import the seed's snapshot (internal/state/backup.go).   *)
(*                                                                         *)
(* ApplyTx, SaveBlockWithTxs, SaveBlock and the writing of one account are *)
(* store transactions of their own, and so are the two reads an export     *)
(* consists of; everything between them interleaves.  A mempool hands the  *)
(* sealer any transactions its CheckTx has let through at some time.  An   *)
(* account that was never written is one with nothing in it.               *)
(***************************************************************************)
EXTENDS Integers, Sequences, SequencesExt, FiniteSets

CONSTANTS
    Accounts, Txs, StartAccounts, MiningCap, Unit, MaxApplied,  \* see Ledger
    Seed,           \* the registered validator
    Joiner,         \* the node that follows it
    BFTEnabled,     \* whether the engine runs, or the legacy producer
    MaxBlockTxs,    \* maxTxs of the sealer
    RecentBlocks,   \* max_blocks of a snapshot request
    MaxHeight,      \* bound: blocks sealed
    MaxFailures,    \* bound: seals that fail
    MaxImports,     \* bound: imports of a snapshot
    NoBlock         \* no header stored at a height

Nodes == {Seed, Joiner}
Heights == 1..MaxHeight

ASSUME SyncBounds ==
    /\ {MaxBlockTxs, RecentBlocks, MaxHeight} \subseteq Nat \ {0}
    /\ {MaxFailures, MaxImports} \subseteq Nat
ASSUME TwoNodes == Seed # Joiner

\* A header, with the transactions that its root is of; a hash is the height and
\* the proposer of what is hashed.
Hashes == (0..MaxHeight) \X Nodes
Block == [height : Heights, prev : Hashes, proposer : Nodes, txs : Seq(Txs)]

ASSUME NoBlockIsNone == NoBlock \notin Block

VARIABLES
    books,      \* per node, the store's accounts and mining bucket
    chain, tip, \* per node, the store's headers by height and latest_height
    seal,       \* per node, the SealBlockWithTxs in progress
    gossip,     \* per node, the announced block being applied
    announced,  \* blocks published
    snap,       \* the seed's snapshot, or as much of it as has been read
    import,     \* the joiner's ImportFullSnapshot in progress
    failures, imports,   \* how many so far
    base,       \* history: the seed's ledger that block h + 1 is built on
    clean       \* history: nothing has happened that parts the joiner from the seed

store == <<books, chain, tip>>
history == <<failures, imports, base, clean>>
vars == <<books, chain, tip, seal, gossip, announced, snap, import,
          failures, imports, base, clean>>

\* The ledger operators; only they are used, not Ledger's own behaviour.
L == INSTANCE Ledger WITH ledger <- books[Joiner], times <- [t \in Txs |-> 0],
                          Seeds <- {}, seeded <- 0

ASSUME LedgerType ==
    /\ Txs \subseteq L!Transaction /\ StartAccounts \in [Accounts -> L!Account]
    /\ MiningCap \in Nat /\ Unit \in Nat

BlockTxs == {b \in BoundedSeq(Txs, MaxBlockTxs) : IsInjective(b)}

\* A hash names its block: a node seals a height once.
BlockHash(k) == <<k.height, k.proposer>>
Genesis == <<0, Seed>>

\* Hash of the header at latest_height; there is none when that header is missing.
TipLinks(n, prev) == IF tip[n] = 0 THEN prev = Genesis
                     ELSE chain[n][tip[n]] # NoBlock /\ prev = BlockHash(chain[n][tip[n]])

\* SaveBlock, and SaveBlockWithTxs, which also keeps the bodies for those who ask.
SaveBlock(n, k) ==
    /\ chain' = [chain EXCEPT ![n][k.height] = k]
    /\ tip' = [tip EXCEPT ![n] = k.height]

Apply(n, t) == books' = [books EXCEPT ![n] = L!ApplyTx(@, t)]

NoSeal == [pc |-> "idle", height |-> 0, prev |-> Genesis, todo |-> <<>>, applied |-> <<>>]
NoGossip == [pc |-> "idle", block |-> NoBlock, todo |-> <<>>]
NoImport == [pc |-> "idle", force |-> TRUE, accounts |-> {}, headers |-> <<>>, tip |-> 0]
NoSnap == [pc |-> "none", tip |-> 0, acc |-> StartAccounts, accounts |-> {}, minted |-> 0,
           headers |-> <<>>, quiet |-> TRUE]

Init ==
    /\ books = [n \in Nodes |-> L!StartLedger]
    /\ chain = [n \in Nodes |-> [h \in Heights |-> NoBlock]]
    /\ tip = [n \in Nodes |-> 0]
    /\ seal = [n \in Nodes |-> NoSeal]
    /\ gossip = [n \in Nodes |-> NoGossip]
    /\ announced = {} /\ snap = NoSnap /\ import = NoImport
    /\ failures = 0 /\ imports = 0 /\ clean = TRUE
    /\ base = [h \in 0..MaxHeight |-> L!StartLedger]
-----------------------------------------------------------------------------
(* Sealing without votes.                                                    *)

\* With one registered validator the engine seals without asking who leads; trySeal asks.
\* The seed is never jailed or unstaked here, so that LeaderForHeight has one to name.
MaySeal(n) == BFTEnabled \/ n = Seed

\* soloSeal or trySeal takes transactions, and SealBlockWithTxs reads the tip.  They come
\* from the node's own mempool, whose CheckTx has refused nonce 0.
BeginSeal(n, b) ==
    /\ seal[n].pc = "idle" /\ MaySeal(n) /\ tip[n] < MaxHeight
    /\ \A i \in DOMAIN b : L!ValidateBasic(b[i]) /\ b[i].nonce > 0
    /\ \E prev \in {Genesis} \cup {<<tip[n], p>> : p \in Nodes} :
        /\ TipLinks(n, prev)
        /\ seal' = [seal EXCEPT ![n] = [pc |-> "apply", height |-> tip[n] + 1, prev |-> prev,
                                        todo |-> b, applied |-> <<>>]]
    /\ UNCHANGED <<store, gossip, announced, snap, import, history>>

\* A transaction that fails is sealed like the others.
SealAppliesAll(n) ==
    LET t == Head(seal[n].todo) IN
    /\ seal[n].pc = "apply" /\ seal[n].todo # <<>>
    /\ IF L!CanApply(books[n], t) THEN Apply(n, t) ELSE UNCHANGED books
    /\ seal' = [seal EXCEPT ![n].todo = Tail(@), ![n].applied = Append(@, t)]
    /\ UNCHANGED <<chain, tip, gossip, announced, snap, import, history>>

\* The next transaction is applied and becomes part of the block, or is skipped.
SealApplies(n) ==
    LET t == Head(seal[n].todo) IN
    /\ seal[n].pc = "apply" /\ seal[n].todo # <<>>
    /\ \/ /\ L!CanApply(books[n], t) /\ Apply(n, t)
          /\ seal' = [seal EXCEPT ![n].todo = Tail(@), ![n].applied = Append(@, t)]
       \/ /\ ~L!CanApply(books[n], t)
          /\ seal' = [seal EXCEPT ![n].todo = Tail(@)]
          /\ UNCHANGED books
    /\ UNCHANGED <<chain, tip, gossip, announced, snap, import, history>>

Publish(k) == announced' = announced \cup {k}

\* The block of what was applied is hashed, signed, stored and published.
SealSaves(n) ==
    LET k == [height |-> seal[n].height, prev |-> seal[n].prev, proposer |-> n,
              txs |-> seal[n].applied] IN
    /\ seal[n].pc = "apply" /\ seal[n].todo = <<>>
    /\ SaveBlock(n, k)
    /\ Publish(k)
    /\ seal' = [seal EXCEPT ![n] = NoSeal]
    /\ base' = IF n = Seed THEN [base EXCEPT ![k.height] = books[n]] ELSE base
    /\ UNCHANGED <<books, gossip, snap, import, failures, imports, clean>>

\* Signing or saving fails, or the process stops: what was applied stays applied.
SealFails(n) ==
    /\ seal[n].pc = "apply" /\ failures < MaxFailures
    /\ seal' = [seal EXCEPT ![n] = NoSeal]
    /\ failures' = failures + 1
    /\ base' = IF n = Seed THEN [base EXCEPT ![tip[n]] = books[n]] ELSE base
    /\ clean' = (clean /\ seal[n].applied = <<>>)
    /\ snap' = [snap EXCEPT !.quiet = @ /\ seal[n].applied = <<>>]
    /\ UNCHANGED <<store, gossip, announced, import, imports>>
-----------------------------------------------------------------------------
(* Announced blocks.                                                         *)

\* OnBlock calls VerifyAndSaveGossipedBlockStrict, whose checks pass.
GossipBegins(n, k) ==
    /\ gossip[n].pc = "idle" /\ k.proposer # n
    /\ k.height = tip[n] + 1 /\ TipLinks(n, k.prev) /\ k.proposer = Seed
    /\ gossip' = [gossip EXCEPT ![n] = [pc |-> "apply", block |-> k, todo |-> k.txs]]
    /\ clean' = (clean /\ import.pc = "idle")
    /\ UNCHANGED <<store, seal, announced, snap, import, failures, imports, base>>

\* Its next transaction; when one fails the block is given up.
GossipApplies(n) ==
    LET t == Head(gossip[n].todo) IN
    /\ gossip[n].pc = "apply" /\ gossip[n].todo # <<>>
    /\ \/ /\ L!CanApply(books[n], t) /\ Apply(n, t)
          /\ gossip' = [gossip EXCEPT ![n].todo = Tail(@)]
       \/ /\ ~L!CanApply(books[n], t)
          /\ gossip' = [gossip EXCEPT ![n] = NoGossip]
          /\ UNCHANGED books
    /\ UNCHANGED <<chain, tip, seal, announced, snap, import, history>>

GossipSaves(n) ==
    /\ gossip[n].pc = "apply" /\ gossip[n].todo = <<>>
    /\ SaveBlock(n, gossip[n].block)
    /\ gossip' = [gossip EXCEPT ![n] = NoGossip]
    /\ UNCHANGED <<books, seal, announced, snap, import, history>>
-----------------------------------------------------------------------------
(* Snapshots.                                                                *)

\* ExportBackup reads latest_height first; the snapshot replaces an earlier one.
ExportTip ==
    /\ snap.pc # "tip" /\ import.pc = "idle"
    /\ snap' = [NoSnap EXCEPT !.pc = "tip", !.tip = tip[Seed],
                              !.quiet = seal[Seed].pc = "idle"]
    /\ UNCHANGED <<store, seal, gossip, announced, import, history>>

Blank == [balance |-> 0, staked |-> 0, pending |-> 0, nonce |-> 0]
Written(acc) == {a \in Accounts : acc[a] # Blank}

\* The tip's own header is left out.
RecentBelow(n, h) == SubSeq(chain[n], 1, h - 1)

\* The headers of the last RecentBlocks heights up to h.
Recent(n, h) == SubSeq(chain[n], IF h > RecentBlocks THEN h - RecentBlocks + 1 ELSE 1, h)

\* Then the accounts, in one read transaction, and the recent headers.
ExportAccounts ==
    /\ snap.pc = "tip"
    /\ snap' = [pc |-> "ready", tip |-> snap.tip, acc |-> books[Seed].acc,
                accounts |-> Written(books[Seed].acc), minted |-> books[Seed].minted,
                headers |-> Recent(Seed, snap.tip),
                quiet |-> snap.quiet /\ seal[Seed].pc = "idle" /\ tip[Seed] = snap.tip]
    /\ UNCHANGED <<store, seal, gossip, announced, import, history>>

\* An import that can bring the joiner's accounts back to the seed's at snap.tip.
Repairs(force) ==
    /\ snap.quiet /\ force /\ gossip[Joiner].pc = "idle"
    /\ snap.minted >= books[Joiner].minted
    /\ Written(books[Joiner].acc) \subseteq snap.accounts

BeginImport(force, headers, height) ==
    /\ snap.pc = "ready" /\ import.pc = "idle" /\ imports < MaxImports
    /\ import' = [pc |-> "accounts", force |-> force, accounts |-> snap.accounts,
                  headers |-> headers, tip |-> height]
    /\ imports' = imports + 1
    /\ UNCHANGED <<store, seal, gossip, announced, snap, failures, base>>

\* SyncFromURL at start or POST /admin/snapshot: ImportFullSnapshot begins.
ImportFullSnapshot(force) ==
    /\ BeginImport(force, snap.headers, snap.tip)
    /\ clean' = (Repairs(force) /\ snap.tip >= tip[Joiner])

\* RestoreAccountsFromSnapshot: the accounts alone.
RestoreAccounts(force) ==
    /\ BeginImport(force, <<>>, 0)
    /\ clean' = (Repairs(force) /\ snap.tip = tip[Joiner])

\* One account, in whatever order the map is ranged over; buckets are not imported.
\* GetAccount and the write are two transactions of the code and one step here.
ImportKeeps(a) ==
    LET cur == books[Joiner].acc[a] IN
    ~import.force /\ (cur.balance # 0 \/ cur.staked # 0 \/ cur.nonce # 0)
ImportAccount(a) ==
    /\ import.pc = "accounts" /\ a \in import.accounts
    /\ books' = IF ImportKeeps(a) THEN books
                ELSE [books EXCEPT ![Joiner].acc[a] = snap.acc[a]]
    /\ import' = [import EXCEPT !.accounts = @ \ {a}]
    /\ UNCHANGED <<chain, tip, seal, gossip, announced, snap, history>>

\* One header, saved like any block; the store does not fail here (a header it cannot
\* read for the export, or save, is skipped by the code).
ImportHeader ==
    /\ import.pc = "accounts" /\ import.accounts = {} /\ import.headers # <<>>
    /\ SaveBlock(Joiner, Head(import.headers))
    /\ import' = [import EXCEPT !.headers = Tail(@)]
    /\ UNCHANGED <<books, seal, gossip, announced, snap, history>>

\* latest_height is set to the snapshot's, unless that is 0 or only accounts are restored.
ImportTip ==
    /\ import.pc = "accounts" /\ import.accounts = {} /\ import.headers = <<>>
    /\ tip' = IF import.tip > 0 THEN [tip EXCEPT ![Joiner] = import.tip] ELSE tip
    /\ import' = NoImport
    /\ UNCHANGED <<books, chain, seal, gossip, announced, snap, history>>

Next ==
    \/ \E n \in Nodes :
        \/ \E b \in BlockTxs : BeginSeal(n, b)
        \/ SealApplies(n) \/ SealSaves(n) \/ SealFails(n)
        \/ \E k \in announced : GossipBegins(n, k)
        \/ GossipApplies(n) \/ GossipSaves(n)
    \/ ExportTip \/ ExportAccounts
    \/ \E force \in BOOLEAN : ImportFullSnapshot(force) \/ RestoreAccounts(force)
    \/ \E a \in Accounts : ImportAccount(a)
    \/ ImportHeader \/ ImportTip

Spec == Init /\ [][Next]_vars
-----------------------------------------------------------------------------
(***************************************************************************)
(* The joiner's headers are the seed's, and it has the header of its tip,  *)
(* without which it could accept no further block: whatever interleaving   *)
(* of imports, the tips they write and announced blocks.                   *)
(***************************************************************************)
HeadersAgree ==
    /\ \A h \in Heights : chain[Joiner][h] \in {NoBlock, chain[Seed][h]}
    /\ tip[Joiner] > 0 => chain[Joiner][tip[Joiner]] # NoBlock

(***************************************************************************)
(* Replay and import compose: between blocks and imports the joiner's      *)
(* accounts are the seed's at the joiner's height.  A seal that fails with *)
(* something applied parts them, and so does an import that races a block; *)
(* a forced import of a snapshot taken between two seals, in which nothing *)
(* is behind the joiner, brings them together again, although it leaves    *)
(* the joiner's bucket and the accounts it lacks as they were.             *)
(***************************************************************************)
JoinerFollows ==
    clean /\ gossip[Joiner].pc = "idle" /\ import.pc = "idle"
        => books[Joiner].acc = base[tip[Joiner]].acc
-----------------------------------------------------------------------------
(* What the source says and the code does not do.                            *)

(***************************************************************************)
(* The comment on LeaderSchedule: with one validator, "that validator is   *)
(* always leader".  So every block stored anywhere is the seed's.          *)
(***************************************************************************)
OnlyLeaderSeals == \A n \in Nodes, h \in Heights :
    chain[n][h] # NoBlock => chain[n][h].proposer = Seed
=============================================================================
