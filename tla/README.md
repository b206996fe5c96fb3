# East-validator in TLA+

A model of the EAST validator (`cmd/validator`, `internal/*`): its BFT consensus
engine, the account ledger and its state root, the way of a transaction through a
node, sealing without votes, state sync, the writers of the header store, the
validator set, heartbeats and peers. TLC checks small instances of every module, and
TLAPS proves every safety property of the passing runs for every value of the
constants.

`PROJECT.json` lists components, runs, mutants, theorems, hazards and findings,
and maps each definition to the source lines it models.

    tlc -workers 2 -config MCEngineFair.cfg MCEngine     # one run
    tlapm BFTVotingProofs.tla                            # one proof module

## The system

| Component | State | Operations | Talks to |
|---|---|---|---|
| BFT engine, `consensus/bft.go`, `vote.go` | height, round, step, proposal, lock, tallies, `lastVotes`, pending txs; all in memory under `e.mu` | `loop` (`runPropose`, `runPrevote`, `runPrecommit`), `HandleProposal`, `HandleVote`, `commitLocked`, `soloSeal` | store, mempool, p2p topics, leader schedule |
| Leader schedule and validator set, `leader.go`, `state/validators.go` | registered addresses, persisted set, jail records, stakes | `LeaderForHeight`, `SetValidators`, `AddValidator`, `JailValidator`, `UnjailValidator` | engine, producer, gossip check, HTTP |
| Block gossip check, `seal.go`, `main.go` | none of its own | `VerifyAndSaveGossipedBlockStrict` | store, from the p2p goroutine |
| Account ledger, `state/state.go` | accounts, buckets, headers, `latest_height` in Badger | `ApplyTx`, `SaveBlock`, `SaveBlockWithTxs`, `SeedAccount`, `PruneOldBlocks` | everyone |
| Transactions, `tx/tx.go` | none | `ValidateBasic`, hash | mempool, gossip check |
| Mempool, `mempool/mempool.go` | `byHash`, `order`, `seen` under `m.mu` | `CheckTx`, `Add`, `Take` | HTTP, engine, producer |
| Producer, `producer.go` | time of the last external block | `trySeal`, `SealBlockWithTxs` | store, mempool, p2p |
| State sync, `state/backup.go` | snapshot file | `ExportBackup`, `ImportFullSnapshot`, `RestoreAccountsFromSnapshot`, `SyncFromURL` | HTTP, store |
| Archive and peer block sync, `sync/archive.go`, `p2p/sync.go` | none of its own | `SyncFromArchive`, `SyncFromPeers` (no caller) | store |
| State root and proofs, `state/merkle.go` | none | root and proof of the accounts | seal, HTTP |
| Uptime, `state/uptime.go` | heartbeat records per epoch | `RecordHeartbeat` | HTTP, p2p |
| P2P, `p2p/node.go`, `scoring.go`, `discovery.go` | peers, scores, bans | publish and subscribe on topics, ban | engine, gossip check |
| HTTP API, `api/*` | rate-limit hits per caller | submit, heartbeat, register, admin, reads | mempool, store, schedule |
| Genesis, configuration, cryptography | constants after start | | |

What is hard here:

* **Three goroutines per node.** `loop()`, the delivery of consensus messages and
  the delivery of blocks share the engine and the store. `commitLocked` gives up
  `e.mu` in the middle of a commit for a whole block interval, and `runPropose`
  works with a height and round it read before it waited.
* **The network** loses, repeats, delays and reorders; a proposal and a vote are
  sent once.
* **Atomicity ends at one `ApplyTx`.** A block is many store transactions, on the
  commit path, in the gossip check and when sealing, with no lock around them.
* **Many writers of one store.** Seals, gossip, header sync, snapshot imports and
  pruning read `latest_height` in one transaction and write in another, and
  `SaveBlock` sets it to whatever it is given. `SaveValidatorSet`, `IsJailed` and
  `RecordHeartbeat` have the same gap between what they read and what they write.
* **Crashes.** Votes, lock and height are in memory only; a stop inside a block
  leaves a ledger that no height describes.
* **Numbers.** Nonce 0, quorum rounding, bucket caps in EAST and balances in
  subunits, a mempool whose cache forgets what is still queued, odd levels of the
  state tree, an unsigned cutoff for pruning.

## Modules

| Module | Models | Built on |
|---|---|---|
| `BFTVoting` | the abstract promise of the engine: which votes it may cast | |
| `BFTEngine` | the engines of a network, their goroutines, stores and messages | instance of `BFTVoting` |
| `Ledger` | `ApplyTx`, `ValidateBasic`, `CheckTx` as operators; one node's books as a specification | |
| `TxPipeline` | one node from HTTP request through mempool, proposal, commit and gossip to the ledger | extends `Ledger` |
| `StateSync` | a sealing seed and a joiner with gossip and snapshots | instance of `Ledger` |
| `Merkle` | state root, account proofs and their verification, as operators over the ledger | extends `Ledger` |
| `StoreWriters` | producers that take turns, gossip, header sync and pruning on header stores | |
| `ValidatorSet` | one node's roster, its stored copy, registration, stakes, jail records, the rotation | |
| `Uptime` | rate limit, heartbeats by HTTP and gossip, counts per epoch | |
| `PeerNet` | links and their count, scores and bans | extends `Uptime` |
| `Filters` | the Go loop that appends what it keeps to a new slice | used by `Merkle`, `ValidatorSet`, `Uptime` |
| `BFTVotingProofs`, `BFTEngineProofs`, `LedgerProofs`, `TxPipelineProofs`, `StateSyncProofs`, `StoreWritersProofs`, `ValidatorSetProofs`, `PeerNetProofs` | theorems | extend their component and `TLAPS`; `LedgerProofs` is about `Ledger` and `Merkle`, and `TxPipelineProofs` extends it too |
| `MCVoting`, `MCEngine`, `MCLedger`, `MCPipeline`, `MCSync`, `MCWriters`, `MCValidators`, `MCPeers` | instances for TLC | |

**BFTVoting.** The one variable is the set of votes broadcast by validators that
follow the code. A validator's lock is the hash of its latest non-nil precommit,
since the engine assigns `lockedHash` only when it precommits. A validator of
`Faulty` may vote anything at any time; that stands for an engine restarted with
an empty memory or one key used twice.

**BFTEngine.** `eng[v]` is the struct, `loop[v]` where `loop()` stands between two
critical sections, `handler[v]` whether the message goroutine is inside the pause
of `commitLocked`. Every section under `e.mu` is one action: `RunPropose`,
`StartRound`, `BuildProposal`, `PublishProposal`, `EndPropose` are the pieces of
`runPropose`; `PollPrevotes`, `PrevoteTimeout`, `PollPrecommits`,
`PrecommitTimeout` those of the two voting steps; `LoopEndsCommit` and
`HandlerEndsCommit` end the pause. `HandleProposal`, `HandleVote` and
`GossipBlock` take any message ever sent, so that messages may be late, repeated,
out of order or ignored. `FollowOutsider` is what both handlers do with a signed
message of a key that is no validator's: they follow its round before they ask who
sent it. `Restart` keeps the store only. A hash is the height,
round, proposer and process life it was computed from. `validHash` and
`validRound` are written but never read in the code and are left out.

**Ledger.** A ledger is a record of accounts and the mining bucket's `minted`.
`Funded` and `NonceFresh` are the checks of `ApplyTx`, and `Transfer`, `Stake`, ...
its assignments in the code's order of reads and writes: in a transfer to oneself
the credit overwrites the debit and the nonce, as in the code. `Apply` is `ApplyTx`
behind `ValidateBasic`, which is all that the gossip check and `handleSubmitTx` without
a pool ask; nonce 0 gets through it. `ApplyAdmitted` is the same behind a mempool's
`CheckTx`, which refuses nonce 0; `Spec` has the one, `AdmittedSpec` the other. Balances are
unbounded integers; `ValidateBasic` limits a claim to a million EAST, far from
2^63. `SeedAccount` is the operator's `handleSeed` in its three modes; amounts
are assumed not to be negative, which the code does not check.

**Merkle.** A digest is the tagged tuple of what was hashed, so two digests are
equal exactly if the trees below them are. `Levels`, `BuildMerkleLayers`, `ProveAccount` and
`VerifyMerkleProof` keep the code's 0-based indices and its rule for odd levels.
`Stores` takes every selection of the accounts of a reachable ledger, so that trees
of every size from empty to five leaves are met. Keys of mixed case, which older
stores may hold, are not modelled.

**TxPipeline.** The HTTP requests, the engine and the gossip handler of one node,
with a step for each `ApplyTx` and each `SaveBlock`. Consensus is abstracted to
the sequence of decided blocks (one per height: `Agreement`), which the engine
commits, receives by gossip, does both or misses. A gossiped block carries only
transactions that applied at the announcing node. Transfers to oneself are
assumed away here (`NoSelfTransfers`). `PeersDecide` supposes that the peers run this
code, so that their mempools have refused nonce 0: the node does not check that itself,
neither in `HandleProposal` nor in the gossip check. What a block with a nonce 0 would
do is `Ledger`'s `Apply`; see item 3 of the Findings.

**StateSync.** With one registered validator there is no voting. `BeginSeal`,
`SealApplies`, `SealSaves` and `SealFails` are `SealBlockWithTxs` under `soloSeal`
or `trySeal`; `ExportTip` and `ExportAccounts` the two reads of `ExportBackup`;
`ImportFullSnapshot`, `RestoreAccounts`, `ImportAccount`, `ImportHeader` and
`ImportTip` the import. `SeedBalance`, which `RestoreAccountsFromSnapshot` calls
just before it overwrites the same account, is part of `ImportAccount`, which also takes
the check of the account and its write, two transactions in the code, as one step.
Transactions come from the sealer's own mempool, so none has nonce 0. The store does not
fail during export and import: the code skips a header that it cannot read or save
(`backup.go:84`, `:205`). With the legacy producer only the seed seals; that every node
takes the lead itself when no registered validator is eligible (`leader.go:206`) is left
out here, as the seed is never jailed.

**StoreWriters.** Two producers alternate with the engine off. `TrySeal` is the
leader check of `trySeal`, `SealReads` and `SealSaves` the later reads and the write
of `SealBlockWithTxs`; `GossipBegins` and `GossipSaves` the check and the write of a
received block; `SyncBegins`, `SyncFetches`, `SyncChecks`, `SyncSaves` the loops of
`SyncFromArchive` and `SyncFromPeers` (the branch is `kind`) with
`GetBlockRange` as the peer's side; `PruneReads` and `PruneDeletes` are
`PruneOldBlocks`. An archive answers with any published blocks of the range, gaps
included. `standing` is what one node's store says of a validator, so two nodes may
disagree on who leads.

**ValidatorSet.** `SetValidators` changes memory and then saves in two store
transactions, `SaveReads` and `SaveWrites`; a snapshot import saves likewise but
leaves memory alone. That a read error in `SaveValidatorSet` is dropped and the epoch
starts at 1 again is left out: store reads succeed. `RegisterChecks` and `RegisterAdds` are
`handleRegisterValidator`. `IsJailedReads` and `IsJailedDeletes` are the lazy expiry
of `IsJailed`, which any reader runs. `Restart` is `main`'s choice between
`VALIDATORS`, the stored set and the node itself.

**Uptime, PeerNet.** `PostHeartbeat` is a request through the limiter and
`handleHeartbeat` up to the point where `RecordHeartbeat` has taken the time;
`RecordHeartbeat` is its transaction. The limiter's look at the clock, the reading of the
body, the freshness check and `RecordHeartbeat`'s look at the clock are one instant: the
server reads a body for at most ten seconds, against a freshness of minutes and a window
of one. Callers are told apart as the limiter does. `OnHeartbeat` is the gossip side, which looks
at neither signature nor time. In `PeerNet`, `Connect` and `Lost` are libp2p's,
`Connected` and `Disconnected` the notifications that `New` registers last, and
`GoodBlock` and `RefusedBlock` the reports of `OnBlock` with `PeerScorer.Add` and the
lazy end of a ban in `IsBanned`.

## Runs

| Run | Shows |
|---|---|
| `voting` | `Agreement`, `NoEquivocation` and the invariant of the proof, four validators with one faulty, two rounds, two blocks |
| `engine_two_heights` | one gap-free chain in all stores, at most one proposal per leader and round, commits that do not overlap, an engine that only moves forward |
| `engine_fair` | the engine's votes implement `BFTVoting`; a commit ends at the next height; no step is a trap |
| `engine_restart` | with a validator that crashes and a store that may fail: stored blocks have +2/3 precommits, only the restarted one is ever jailed, the other keeps to `BFTVoting` |
| `ledger` | what `ApplyTx` alone keeps, nonce 0 included: nothing below zero, cap kept, every subunit accounted for, nothing applied twice unless a nonce 0 came before, under transactions and seeding; every Merkle proof verifies and roots tell stores apart |
| `pipeline` | mempool consistent and bounded, books changed only by whole `Ledger` steps of admitted transactions, none applied twice (`NoReplay`), a node that does not crash always on the network's path |
| `sync` | the joiner has the seed's headers and that of its tip; its accounts are the seed's at its height |
| `writers` | where the stores stay one chain, that the tip's header stays loadable, when a tip may move back, that a sync ends |
| `valset` | a fair rotation, what a restart brings back, sentences that hold, epochs that number the revisions |
| `peers` | the rate limit in every window, bounded replays, exact epoch counts, the peer count within its error, bans that are earned |
| `engine_applies`, `sync_solo` | where a comment and the code disagree; see Findings |

Several of these properties name an exception, each a history that records a race or a
gap of the code and nothing else; without it TLC finds the case:

* `AppliedOnce`, `NoncesUsed`: `NonceReset`, an applied nonce 0, which `ApplyTx` lets
  through and writes to the account, and `SelfTransfer`, which writes the account as
  it was before the debit. `NoReplay`, of what passed `CheckTx`, needs the second only.
* `OneChain`: `Contested`, two nodes that each found itself leader of a height
  (their stores differ, then or later, on who is jailed or staked), and `fell`, a
  tip that moved back.
* `TipStaysLoadable`: `fell`, since pruning may then have removed the tip's header.
* `SyncEnds`: `passed`, a sync of which another writer stored a height meanwhile.
* `RosterSurvives`: `parted`, `cleared` and `added`, that is overlapping or failed
  saves and imports, an empty set, and registrations, which are never stored.
* `EpochIsRevision`: `overlapped`, two saves that read the same epoch.
* `JailHolds`: `raced`, a sentence that began between `IsJailed`'s read of an
  expired record and its deletion.
* `EpochCounts`: `disordered`, a heartbeat of an epoch that is over, recorded after
  one of the next epoch.
* `PeerCountBounds`: `early`, links that were up before the notifications.

Bounds and why they suffice:

* *Engine runs*: two validators. `QuorumSize(2) = 2`, so both must agree, which
  makes each lost or late vote matter; leadership alternates with height. Two
  rounds let a lock meet a later proposal, two heights let a commit meet votes of
  the next height. A split between more validators is the business of `BFTVoting`,
  where TLC uses four and the theorem any number. The restart run has one round:
  a lost lock already shows there by a second vote. Outsiders name round 1, in
  `engine_fair` at its one height, in `engine_two_heights` at the second; both heights
  at once are too many states, and the theorems allow any.
* *Ledger run*: two accounts that sign nine transactions of all five types with
  equal, zero and skipped nonces, a zero amount and two claims that each fit the
  bucket and together do not, one of them with the nonce 0 that sets its sender back; a seed in each mode; three idle accounts, which
  bring the tree to five leaves, the first size with odd levels twice in a row.
* *Pipeline run*: blocks of up to two transactions of which one depends on the
  other, two heights, a pool of two and a cache of one (so that hashes are pruned
  while queued), one crash.
* *Sync run*: three heights, blocks of up to two dependent transactions, one of
  them creating an account, a snapshot with one header, two imports, one failed
  seal.
* *Writers run*: two nodes, so that leadership alternates; three heights, of which
  a sync fetches two at a time; one sync, one prune that keeps one header, one
  change of view. One of each is enough for every pair of writers to meet.
* *Valset run*: three addresses, two concurrent calls, one registration, one
  change of a stake, one restart, revisions up to three.
* *Peers run*: a limit of two in a window of two ticks, signatures fresh for one
  tick, epochs of two ticks over seven ticks, two HTTP handlers beside the gossip
  goroutine; two links; one peer and eleven blocks, enough for two bans.
  Heartbeats and blocks share only the clock, so `MCPeers` looks at each alone.
* `MaxApplied` bounds how often `Ledger` applies one transaction; 2 is enough for
  `AppliedOnce` to fail.

Deadlock is checked in the engine runs (`Finished` stutters once every engine is at
a bound). The other modules may stop when their bounded inputs are used up.

Fairness, in `engine_fair`: weak fairness of each node's `loop()` and of the
end of a pause inside `commitLocked`. Goroutines are scheduled and timers fire, so
the code justifies both; no message is assumed to arrive. `LeavesCommit` and
`NeverHangs` are therefore statements about a node that may hear nothing.
`NeverHangs` ends at the bounds of the model: it says that rounds go on, not that
blocks are made. In `writers`: weak fairness of the goroutine of a sync, whose
requests time out; `SyncEnds` needs nothing else.

## Theorems

*BFTVotingProofs.* `AgreementHolds`: `Spec => []Agreement` for any finite set of
validators of which at most (n-1)/3 are faulty, any heights, rounds and blocks.
`Agreement` is not inductive: from the votes for one block nothing follows about a
later round. `AgreementInv` adds
 * `PrecommitHasQuorum`: a precommit has +2/3 prevotes of its round behind it;
 * `LockRespected`: after a lock a prevote is for the locked hash, or for one locked since;
 * `NoLateChoice`: when +2/3 prevote y in round s, every quorum has a member that
   left round r < s without precommitting x # y, so x can no longer be chosen in r;
 * `NoEquivocation` and the type of votes.

Two quorums share an honest validator (`QuorumsShareHonest`, from the rounding in
`QuorumSize` and cardinalities); `CannotChoose` is stable since votes only grow and
a validator never goes back; `NoLateChoiceStep` is the induction over rounds, by
the least round at which the invariant could break. `ChosenInOrder` then gives
agreement. `NoEquivocationHolds` and `VotesTyped` are corollaries.

*BFTEngineProofs.* For any validators, heights, rounds, restarts and messages. The
base is `BaseInv` (`BaseInvHolds`):
 * `EngOK`: an engine agrees with what was broadcast. It has prevoted if its step
   says so, its tallies hold votes that were sent, its proposal is known, its lock is
   of its height; in a first life of the process its votes lie behind its height,
   round and step, and its lock is its latest precommit;
 * `NodeOK`: the goroutines agree with each other and with the store. A commit of
   `loop()` excludes one of the handler, and the header of the tip is stored;
 * `HashHeight`: a hash is voted at its own height, but for a proposer's own prevote.

One lemma per action (`RunProposeEffect`, ...) shows that a step touches one node and
moves its engine forward, casts one vote by the rules, or restarts it. From these
effects alone follow `BaseInv` and `EngineImplementsVoting`, the refinement; with it
`TypeCorrect`, `OneCommitHolds` and `NeverGoesBackHolds`. On top of `BaseInv`:
 * `JailInv`: what `HandleVote` remembers was sent, and two votes of one type and
   round by a voter that never restarted are for the same hash: `JailHolds`;
 * `BuildInv`: a proposal lies behind its proposer's engine, and what `runPropose`
   read before it waited is not ahead of it: `BuildHolds`;
 * `CertInv`: what is stored or announced has +2/3 precommits: `CertHolds`;
 * `LinkInv`: a stored block fits the block below it in the same store, as do the
   proposal an engine holds and the one it is about to publish.

`ChainsAgreeHolds` and `FinalityHolds` (no stored block is replaced) combine `CertInv`
and `LinkInv` with `AgreementHolds`, which the refinement carries over to the engine's
votes. They suppose `FewRestart`: at most (n-1)/3 of the validators ever restart,
since votes are in memory only and a restarted engine may vote again. The run
`engine_two_heights`, which checks `ChainsAgree`, has no restarts and so satisfies it;
`engine_restart`, two validators of which one restarts, does not. `FinalityHolds` has no
run of its own: with two validators a quorum is both of them, so that no plausible bug
of the engine replaces a block within the bounds of a run, and four engines are too many
for TLC.

*LedgerProofs.* For any accounts, transactions, start and cap: `SolventHolds` (no
negative balance, stake or pending amount, and the bucket within its cap) and
`AppliedOnceHolds`, with any seeding in between. The invariant adds `NoncesUsed`, an applied
transaction's nonce lies at or below its sender's: `ApplyNonces` shows that a step uses up
its own nonce, except a transfer to oneself, and lowers none, except an applied nonce 0;
`ResetStays` that the exception `NonceReset` then holds for good. `SeedAccount` keeps the
nonce in every mode. `NoncesUsedHolds` states that part alone. `NoReplayHolds` is about
`AdmittedSpec`: behind `CheckTx` no nonce 0 is applied (`NoZeroApplied`), so that the
exception never arises and only transfers to oneself repeat.

`SupplyAccountedHolds`: what the accounts hold together is what they began with, what
was seeded and claimed, and what transfers to oneself added. `SumOf` is a fold over a
finite set; `OneChanged` says that sums of functions which differ at one place differ by
the difference there, so a step changes the total by what it does at one account or two
(`ApplyHoldings`). `SupplyAccounted` is inductive above the types in `LedgerInv`, with
nonce 0 or without.

The rest is about `Merkle`, for trees of every size. `PathLeads`: the digest that a path
has reached after k steps is the leaf's ancestor on level k, whichever node lacks a
partner. `WalkDetermines`: along one path two digests never meet. With leaves that
determine account and address (`LeafDetermines`), and no store holding an address twice
(`LeavesAre`), these give `ProofsVerifyHolds`. For `RootDeterminesHolds`: the nodes of a
level differ from each other (`LevelsDistinct`), so that a node hashed with itself is
told from one with a partner, and a level is all that its parents can be made of
(`ParentsDetermine`); two trees with one root then agree level by level from the top
(`SameFromTheRoot`), and none is deeper, since a leaf is no node (`NoDeeper`).

*TxPipelineProofs.* For any transactions, clients, pool, cache and block sizes.
`PipelineImplementsLedger` is the refinement: with commit and gossip between any two
`ApplyTx`, failures and restarts, the books change only by whole `ApplyAdmitted` steps of
`Ledger`. Its invariant `PipeInv` is `LedgerInv` and that all that waits in a request,
the pool, a proposal or a decided block is `Admitted`: it passed a `CheckTx`, so its
nonce is not 0, no account's nonce is set back, and `NoncesUsed` makes a second
application impossible. `PipelineSafe` gives `Solvent` and `NoReplay`.
`PoolConsistentHolds` is inductive as it stands: each of `Add`, `Take` and putting back
keeps queue and index together and the cache within its size.

`FollowsDecidedHolds`: while the node has not stopped, its ledger stands at a place (H, n),
n transactions into decided block H. `DecidedInv` says of each goroutine where it is as
seen from there: what `commitLocked` and the gossip handler have yet to apply is the rest
of that block, a block that is done (none of whose transactions can apply again, by
`NoncesUsed`), or nothing. So every `ApplyTx` either moves the place by one or fails, in
any interleaving of the two.

*StateSyncProofs.* `HeadersAgreeHolds`, for any transactions, heights, snapshot windows,
failures and imports, when the legacy producer seals (`~BFTEnabled`, as in the run
`sync`; with the engine the joiner seals too, see Findings). `SyncInv` adds `SeedInv`,
the seed's chain has no gap and is only extended, and `WayInv`: announced blocks, the
snapshot and the rest of an import are still part of that chain, and the header that an
import will make the tip is yet to be saved or already stored.

`JoinerFollowsHolds`, under the same premise: `Runs(x, s, y)`, the transactions s take
ledger x to y with none failing, is what a stored block says of the seed's books below
and at its height. `FollowInv` relates to these the joiner's books in the middle of a
replay (`Replaying`: the rest of the block takes them to the seed's) and of an import
(`Restores`: the accounts that are through are the snapshot's), what the seed is sealing,
and what the snapshot holds. The books are compared by accounts only, as an import leaves
the joiner's bucket alone: `ApplyLedger` shows that what a transaction does to accounts
does not depend on the bucket.

*StoreWritersProofs.* For any nodes, heights, chunk sizes and numbers of blocks kept:
`TipStaysLoadableHolds`, `FallsOnlyOvertakenHolds` and `OneChainHolds`. `WritersInv`
(`WritersInvHolds`) says what each goroutine still knows when it writes: its headers
were published and lie above the tip it had read, and pruning stays below a tip that
never moved back. `CalmInv` is the argument for one chain: while no height is contested
and no tip has moved back, every published block was won by its sealer and rests on a
published one, and nobody overtakes a node that found itself leader, since a block above
its tip would rest on one at the next height, which only this node may seal.

*ValidatorSetProofs.* For any addresses, sets, number of concurrent calls and bounds:
`JailHoldsAlways`, `RosterSurvivesHolds` and `EpochIsRevisionHolds`. The invariant
`SetInv` adds what the stored state alone does not show: no lazy deletion is under
way for a validator that serves a sentence (`SentenceSafe`), every save under way
carries the roster (`SavesCarryRoster`), and a save that no other overlapped holds
the successor of the stored epoch until it writes (`SavesHoldNextEpoch`).
`EveryoneLeadsHolds` states the rotation for every height, where the run tries twice as
many as there are addresses; it needs that `Eligible` lists nobody twice (`KeptOnce`).

*PeerNetProofs.* For any finite set of links and any peers: `PeerCountBoundsHolds`,
by cardinalities, and `BansEarnedHolds`, from the lowest score that the refused
blocks since the last reset allow (`EarnedInv`). For any handlers, addresses and epochs:
`EpochCountsHolds`; `UptimeInv` adds that the record of an address whose heartbeats came
in order is that of its last epoch, and nothing is counted beyond it. For any limit,
window and callers: `WindowBoundHolds` and `ReplayBoundedHolds`. `LimiterInv` compares the
hits the limiter remembers with all that it ever let through: those it no longer has had
left the window when `allow` or the ticker dropped them. So passages that lie `Limit`
places apart are at least a window apart (`SpacedTimes`), and `Crowd` counts how many then
fit into a stretch. All are about `Spec`, of which the run's `MCSpec` takes the behaviours
with one kind of traffic.

Recursive functions (folds over blocks, sums, the levels of a tree, the digests along a
path) are first shown to exist, and facts about all their values are proved by the least
argument at which one could fail (`LeastOf`), which stands in for induction.

Assumptions on constants are named in the modules that declare them and evaluated
by TLC in the runs. They say that sets are finite, bounds are numbers and accounts,
transactions and times are well-formed, and further:

* `FaultyMinority` (`BFTVoting`), and `FewRestart` and `~BFTEnabled` as premises of the
  theorems above: fewer than a third restart, and the legacy producer seals.
* `NoSelfTransfers` (`TxPipeline`), since such a transfer can be applied again.
* `AddressesOrdered`, `AddressesSorted`, `RosterSorted`: `sort.Slice` and `sort.Strings`
  list every address once.
* `HashesDistinct`, `NilPointer`, `NoBlockIsNone`, `NoTxIsNone`: a missing value is
  none of the values.

Only model-checked are the liveness properties, which TLAPS cannot prove: `LeavesCommit`,
`NeverHangs` and `SyncEnds`. Every other property of the passing runs is stated by a
theorem.

## Findings

1. `engine_applies`: +2/3 precommits for a locked hash whose proposal the engine
   no longer holds make it leave the height with nothing stored
   (`bft.go:802`; the comment at line 82 says apply and save).
2. `sync_solo`: with one registered validator every node with an engine seals
   blocks of its own, although line 85 of `bft.go` promises the producer's
   behaviour, which asks who leads.
3. `AppliedOnce` and `NoncesUsed` need the exception `NonceReset`: `ApplyTx` skips its nonce check for nonce 0 and writes 0 to the
   account (`state.go:273`), so such a transaction applies again and makes its sender's
   used nonces fresh; `mempool.go:70` says of that check "Same fix as state.go's ApplyTx —
   nonce == 0 must NOT bypass this check", and `ApplyTx` has no such fix. `NoReplay`
   leaves the exception out: as an invariant of `MCLedger.cfg` TLC refutes it, by b's
   transfer, b's claim with nonce 0 and b's transfer again. `CheckTx` does refuse nonce
   0, so no block of a node that runs this code has one (`NoReplay` in `pipeline`,
   `ImplementsLedger`), but neither `HandleProposal` nor the gossip check asks `CheckTx`
   about a peer's block.

Observations short of a finding, met while modelling:

* A block received by gossip does not move the engine, which goes on with rounds at
  the stored height (`bft.go:208` speaks of catch-up).
* A crash inside a block, and the same block committed again, lead to a ledger no
  other validator has (`bft.go:1033`; line 254 says that commit applies the same
  state). `FollowsDecided` is therefore stated for nodes that did not crash.
* A block that fails halfway in the gossip check leaves what it has applied, one
  `ApplyTx` at a time, although `seal.go:82` and `:169` say "no partial apply" and "no
  partial state" and `main.go:203` says "atomic apply". The block had applied whole at
  its sender, so `FollowsDecided` still finds the ledger on the network's path.
* A vote or proposal of a key that is no validator's moves the round of an engine
  (`bft.go:213`, `:291`): the check of the voter comes after. The safety properties hold
  with it; how often outsiders may make an engine start over is not bounded.
* The limiter takes the caller's address from `X-Forwarded-For` (`middleware.go:75`), so
  `WindowBound` and `ReplayBounded` are per address named, not per host.
* "return txs to mempool" (`bft.go:582`) does not, since their hashes are still in
  `seen`.
* An import leaves the bucket's `minted` and every account that the snapshot lacks
  as they were. `JoinerFollows` says under which conditions the accounts agree all
  the same.
* `archive.go:205` says that the tip can never regress; between its check and its
  write another writer may raise the tip (`FallsOnlyOvertaken`). Overtaken that way,
  `SyncFromPeers` asks for the same range again until the peer has more
  (`archive.go:272`). A gap in an archive's answer is stored as a gap. Nothing calls
  either function at this commit.
* The comment at `leader.go:82` has peers converge on a set by gossip; no code
  publishes sets. A set that is cleared comes back at a restart, a registration does
  not.
* Two heartbeats at the end of an epoch, recorded in the other order, start the
  counts of both epochs again from 1 (`uptime.go:50`).
* A late copy of a valid block costs the peer that forwarded it 10 points as an
  invalid one (`main.go:216`); an accepted block renews a ban while the score is low
  enough; no code refuses a banned peer. The limiter slides, its comment says fixed
  window.
* Verification of an account proof does not use the leaf's index or the number of
  leaves, so neither is vouched for.

## Not modelled

The host, DHT and mDNS are libp2p's; addresses are parsed once at start.
Configuration, metrics, JSON-RPC and HTTP reads change no state. Cryptography is
ideal: a signature is valid for what its owner signed. The migration and sync
scripts run outside the validator. `statesync.go` and `RemoveValidator` have no
caller. The engine's validator set is fixed in `BFTEngine`; a set that changes
within a height is not composed with the voting.

## Plan

A validator set that changes while a height is voted on: which quorums `BFTEngine` then
counts, and under which changes `Agreement` survives. It is the one interaction of two
modelled components that no module composes.
