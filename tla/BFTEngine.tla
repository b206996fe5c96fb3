------------------------------ MODULE BFTEngine ------------------------------
(***************************************************************************)
(* The consensus engines of a network of validators: the struct BFTEngine  *)
(* of internal/consensus/bft.go with its store tip, the goroutines that    *)
(* drive it and the gossip network between the nodes.                      *)
(*                                                                         *)
(* Three goroutines work on a node: loop() (runPropose, runPrevote,        *)
(* runPrecommit), the one that delivers consensus messages to              *)
(* HandleProposal and HandleVote, and the one that delivers block          *)
(* announcements.  Each section between Lock and Unlock of e.mu is one     *)
(* step.  Timeouts may fire at any moment and a message may arrive late,   *)
(* twice, out of order or never.                                           *)
(*                                                                         *)
(* A block hash stands for what it is computed from: the height and round  *)
(* it was built in, the proposer, and which life of the proposer's process *)
(* built it (the timestamp tells those apart).  OneBlockPerRound below     *)
(* says that this identifies a proposal.  validHash and validRound are     *)
(* written but never read and are left out; the transactions of a block    *)
(* belong to other modules.  The registered validators are fixed, at least *)
(* two (alone, a validator seals without voting), and have their keys.     *)
(***************************************************************************)
EXTENDS Integers, FiniteSets, Sequences

CONSTANTS
    Validators,     \* the registered validators, each running one engine
    Roster,         \* the same as LeaderSchedule.validators keeps them, in order
    MaxHeight,      \* bound: the last height the engines work on
    MaxRound,       \* bound: the last round of a height
    Restartable,    \* the validators whose process may crash and start again
    MaxRestarts,    \* bound: how often each of them may
    StoreMayFail,   \* whether SaveBlock or the sealer's signature may fail
    Outside,        \* height and round of the messages that non-validators send
    Nil,            \* the empty hash
    Genesis,        \* PrevHash of the first block
    NoProposal      \* the nil pointer

ASSUME BoundsNat == MaxHeight \in Nat \ {0} /\ MaxRound \in Nat /\ MaxRestarts \in Nat
ASSUME RosterOrder ==
    /\ Roster \in Seq(Validators) /\ {Roster[i] : i \in DOMAIN Roster} = Validators
    /\ Len(Roster) = Cardinality(Validators)
ASSUME SeveralValidators == IsFiniteSet(Validators) /\ Cardinality(Validators) >= 2
ASSUME RestartableType == Restartable \subseteq Validators

VARIABLES
    eng,        \* the engine of each validator (struct BFTEngine)
    lastVotes,  \* its lastVotes: the latest vote seen of each voter and type
    loop,       \* where loop() is: at its top or inside runPropose or a commit
    handler,    \* whether the message goroutine is held up inside commitLocked
    chain, tip, \* the store: block hash by height, and latest_height
    jailed,     \* the store: validators with a jail record
    boots,      \* how often the process has been restarted
    proposals,  \* proposals broadcast so far
    votes,      \* votes broadcast so far
    announces   \* block announcements broadcast so far

node == <<lastVotes, jailed, boots>>
store == <<chain, tip>>
vars == <<eng, lastVotes, loop, handler, chain, tip, jailed, boots,
          proposals, votes, announces>>

\* RoundStep
StepNewHeight == 0
StepPropose   == 1
StepPrevote   == 2
StepPrecommit == 3
StepCommit    == 4

Heights == 1..MaxHeight
Rounds  == 0..MaxRound
Boots   == 0..MaxRestarts
Blocks  == Heights \X Rounds \X Validators \X Boots
ASSUME OutsideType == Outside \subseteq Heights \X Rounds
ASSUME HashesDistinct == Nil \notin Blocks /\ Genesis \notin Blocks \cup {Nil}

Proposal == [height : Heights, round : Rounds, proposer : Validators, boot : Boots,
             prev : Blocks \cup {Genesis}]
BlockHash(p) == <<p.height, p.round, p.proposer, p.boot>>
ASSUME NilPointer == NoProposal \notin Proposal

Vote == [type : {"prevote", "precommit"}, height : Heights, round : Rounds,
         voter : Validators, hash : Blocks \cup {Nil}]
MkVote(t, h, r, v, x) ==
    [type |-> t, height |-> h, round |-> r, voter |-> v, hash |-> x]

\* What the votes of the validators that never restart promise.
V == INSTANCE BFTVoting WITH Faulty <- Restartable,
                             votes <- {m \in votes : m.voter \notin Restartable}

\* QuorumSize of the registered count: jailed validators count as well.
Quorum == V!QuorumSize(Cardinality(Validators))

\* Every hash with a vote, once a quorum has voted at all.
ReachedByAny(tally) == {x \in {b[2] : b \in tally} : Cardinality(tally) >= Quorum}

\* The hashes that have at least a quorum among the recorded votes.
Reached(tally) ==
    {x \in {b[2] : b \in tally} : Cardinality({b \in tally : b[2] = x}) >= Quorum}

HasVoted(tally, u) == \E b \in tally : b[1] = u

\* Hash of the local tip block, what the next block must link to.
TipHash(v) == IF tip[v] = 0 THEN Genesis ELSE chain[v][tip[v]]

\* eligibleValidatorsLocked of v: those its store has not jailed; all have their stake.
Eligible(v) == SelectSeq(Roster, LAMBDA u : u \notin jailed[v])

\* LeaderForHeight as v computes it: round-robin over the eligible, v if there is none.
Leader(v, h) ==
    IF Eligible(v) = <<>> THEN v ELSE Eligible(v)[(h % Len(Eligible(v))) + 1]
-----------------------------------------------------------------------------
(* Changes of one engine record that several handlers share.               *)

\* Same height, higher round seen in a proposal or a vote: follow it.
AdoptRound(e, r) ==
    [e EXCEPT !.round = r, !.step = StepPropose, !.proposal = NoProposal,
              !.prevotes = {}, !.precommits = {}]

\* A proposal or vote of the current round makes the engine start the round again.
AdoptNewerSameToo(e, r) == IF r >= e.round THEN AdoptRound(e, r) ELSE e

AdoptNewer(e, r) == IF r > e.round THEN AdoptRound(e, r) ELSE e

\* The round is counted by both goroutines.
NextRoundTwice(e) ==
    [e EXCEPT !.round = @ + 2, !.step = StepNewHeight, !.proposal = NoProposal,
              !.prevotes = {}, !.precommits = {}]

\* No commit in this round: the lock stays, everything else of the round goes.
NextRound(e) ==
    [e EXCEPT !.round = @ + 1, !.step = StepNewHeight, !.proposal = NoProposal,
              !.prevotes = {}, !.precommits = {}]

StartOf(h) == [height |-> h, round |-> 0, step |-> StepNewHeight, proposal |-> NoProposal,
               locked |-> Nil, prevotes |-> {}, precommits |-> {}]

\* advanceHeightLocked
AdvanceHeight(e) == StartOf(e.height + 1)

Become(v, e) == eng' = [eng EXCEPT ![v] = e]

\* The lock is not consulted: the proposal is prevoted whatever was locked.
PrevoteHashNoLock(e) == IF e.proposal = NoProposal THEN Nil ELSE BlockHash(e.proposal)

\* The hash enterPrevoteLocked votes for.
PrevoteHash(e) ==
    IF e.proposal = NoProposal THEN Nil
    ELSE IF e.locked # Nil THEN e.locked ELSE BlockHash(e.proposal)

\* enterPrevoteLocked with broadcastVoteLocked: own vote recorded and published.
EnterPrevote(v, e) ==
    LET x == PrevoteHash(e) IN
    /\ Become(v, [e EXCEPT !.step = StepPrevote, !.prevotes = @ \cup {<<v, x>>}])
    /\ votes' = votes \cup {MkVote("prevote", e.height, e.round, v, x)}

\* Precommit x and lock on it unless it is nil.
CastPrecommit(v, e, x) ==
    /\ Become(v, [e EXCEPT !.step = StepPrecommit, !.precommits = @ \cup {<<v, x>>},
                           !.locked = IF x = Nil THEN @ ELSE x])
    /\ votes' = votes \cup {MkVote("precommit", e.height, e.round, v, x)}

\* tryFinalizePrevotesLocked
TryFinalizePrevotes(v, e) ==
    \/ e.step = StepPrevote /\ \E x \in Reached(e.prevotes) : CastPrecommit(v, e, x)
    \/ /\ e.step # StepPrevote \/ Reached(e.prevotes) = {}
       /\ Become(v, e) /\ UNCHANGED votes

\* The block of p goes to the store: SaveBlock sets latest_height without looking at it.
SaveBlock(v, p) ==
    /\ chain' = [chain EXCEPT ![v][p.height] = BlockHash(p)]
    /\ tip' = [tip EXCEPT ![v] = p.height]

\* The block to be committed is at hand: the engine's proposal has its hash.
HasProposalOf(e, x) == e.proposal # NoProposal /\ BlockHash(e.proposal) = x

\* The pause begins with the step still at StepPrecommit.
CommitInPrecommit(v, e, x, atPause) ==
    \/ /\ HasProposalOf(e, x)
       /\ SaveBlock(v, e.proposal)
       /\ announces' = announces \cup {[block |-> e.proposal, signer |-> v]}
       /\ Become(v, e)
       /\ atPause
    \/ /\ ~HasProposalOf(e, x) \/ StoreMayFail
       /\ Become(v, AdvanceHeight(e))
       /\ UNCHANGED <<store, announces, loop, handler>>

(***************************************************************************)
(* commitLocked up to its pause.  With the matching proposal at hand the   *)
(* block is sealed, stored and announced, and goroutine g waits out the    *)
(* block interval (atPause) before it advances; without it, or when        *)
(* sealing fails, the height is left at once with nothing stored.          *)
(***************************************************************************)
Commit(v, e, x, atPause) ==
    \/ /\ HasProposalOf(e, x)
       /\ SaveBlock(v, e.proposal)
       /\ announces' = announces \cup {[block |-> e.proposal, signer |-> v]}
       /\ Become(v, [e EXCEPT !.step = StepCommit])
       /\ atPause
    \/ /\ ~HasProposalOf(e, x) \/ StoreMayFail
       /\ Become(v, AdvanceHeight(e))
       /\ UNCHANGED <<store, announces, loop, handler>>

\* tryFinalizePrecommitsLocked
TryFinalizePrecommits(v, e, atPause) ==
    \/ /\ e.step = StepPrecommit
       /\ \E x \in Reached(e.precommits) \ {Nil} : Commit(v, e, x, atPause)
    \/ /\ e.step = StepPrecommit /\ Nil \in Reached(e.precommits)
       /\ e.round < MaxRound
       /\ Become(v, NextRound(e))
       /\ UNCHANGED <<store, announces, loop, handler>>
    \/ /\ e.step # StepPrecommit \/ Reached(e.precommits) = {}
       /\ Become(v, e)
       /\ UNCHANGED <<store, announces, loop, handler>>
-----------------------------------------------------------------------------
AtTop == [pc |-> "top", height |-> 0, round |-> 0, prev |-> Nil]

Init ==
    /\ eng = [v \in Validators |-> StartOf(1)]
    /\ loop = [v \in Validators |-> AtTop]
    /\ handler = [v \in Validators |-> "ready"]
    /\ lastVotes = [v \in Validators |-> {}]
    /\ jailed = [v \in Validators |-> {}]
    /\ boots = [v \in Validators |-> 0]
    /\ chain = [v \in Validators |-> [h \in Heights |-> Nil]]
    /\ tip = [v \in Validators |-> 0]
    /\ proposals = {} /\ votes = {} /\ announces = {}

LoopGoes(v, at) == loop' = [loop EXCEPT ![v] = at]

\* loop() reads height, round and step, and calls runPropose, which waits for its turn.
RunPropose(v) ==
    LET e == eng[v] IN
    /\ loop[v].pc = "top" /\ e.step \in {StepNewHeight, StepPropose}
    /\ e.height <= MaxHeight
    /\ LoopGoes(v, [pc |-> "pace", height |-> e.height, round |-> e.round, prev |-> Nil])
    /\ UNCHANGED <<eng, handler, node, store, proposals, votes, announces>>

\* The pace is over: start the round afresh, unless the message goroutine moved on.
StartRound(v) ==
    LET e == eng[v] l == loop[v] IN
    /\ l.pc = "pace" /\ e.height <= MaxHeight
    /\ \/ /\ e.step \in {StepNewHeight, StepPropose}
          /\ Become(v, [e EXCEPT !.step = StepPropose, !.proposal = NoProposal,
                                 !.prevotes = {}, !.precommits = {}])
          /\ LoopGoes(v, [l EXCEPT !.pc = IF Leader(v, l.height) = v THEN "build" ELSE "await"])
       \/ /\ e.step \notin {StepNewHeight, StepPropose}
          /\ LoopGoes(v, AtTop) /\ UNCHANGED eng
    /\ UNCHANGED <<handler, node, store, proposals, votes, announces>>

\* buildAndBroadcastProposal, first half: link to the tip as it is now.
BuildProposal(v) ==
    LET l == loop[v] IN
    /\ l.pc = "build"
    /\ \/ l.height = tip[v] + 1 /\ LoopGoes(v, [l EXCEPT !.pc = "publish", !.prev = TipHash(v)])
       \/ l.height # tip[v] + 1 /\ LoopGoes(v, [l EXCEPT !.pc = "await"])
    /\ UNCHANGED <<eng, handler, node, store, proposals, votes, announces>>

\* Second half: take the lock, make it the engine's proposal, and publish it.
PublishProposal(v) ==
    LET l == loop[v]
        p == [height |-> l.height, round |-> l.round, proposer |-> v,
              boot |-> boots[v], prev |-> l.prev] IN
    /\ l.pc = "publish"
    /\ Become(v, [eng[v] EXCEPT !.proposal = p])
    /\ proposals' = proposals \cup {p}
    /\ LoopGoes(v, [l EXCEPT !.pc = "await", !.prev = Nil])
    /\ UNCHANGED <<handler, node, store, votes, announces>>

\* A proposal is there or the propose timeout is over.
EndPropose(v) ==
    LET e == eng[v] IN
    /\ loop[v].pc = "await" /\ e.height <= MaxHeight
    /\ IF e.step = StepPropose THEN EnterPrevote(v, e) ELSE UNCHANGED <<eng, votes>>
    /\ LoopGoes(v, AtTop)
    /\ UNCHANGED <<handler, node, store, proposals, announces>>

\* runPrevote polls the recorded prevotes.
PollPrevotes(v) ==
    /\ loop[v].pc = "top" /\ eng[v].step = StepPrevote
    /\ Reached(eng[v].prevotes) # {}
    /\ TryFinalizePrevotes(v, eng[v])
    /\ UNCHANGED <<loop, handler, node, store, proposals, announces>>

\* The timeout runs only once a quorum of prevotes is there.
PrevoteTimeoutAfterQuorum(v) ==
    /\ loop[v].pc = "top" /\ eng[v].step = StepPrevote
    /\ Cardinality(eng[v].prevotes) >= Quorum
    /\ CastPrecommit(v, eng[v], Nil)
    /\ UNCHANGED <<loop, handler, node, store, proposals, announces>>

\* runPrevote times out.
PrevoteTimeout(v) ==
    /\ loop[v].pc = "top" /\ eng[v].step = StepPrevote
    /\ CastPrecommit(v, eng[v], Nil)
    /\ UNCHANGED <<loop, handler, node, store, proposals, announces>>

\* runPrecommit polls the recorded precommits and may commit.
PollPrecommits(v) ==
    /\ loop[v].pc = "top" /\ eng[v].step = StepPrecommit
    /\ Reached(eng[v].precommits) # {}
    /\ TryFinalizePrecommits(v, eng[v],
           LoopGoes(v, [AtTop EXCEPT !.pc = "commit"]) /\ UNCHANGED handler)
    /\ UNCHANGED <<node, proposals, votes>>

\* runPrecommit times out.
PrecommitTimeout(v) ==
    /\ loop[v].pc = "top" /\ eng[v].step = StepPrecommit
    /\ eng[v].round < MaxRound
    /\ Become(v, NextRound(eng[v]))
    /\ UNCHANGED <<loop, handler, node, store, proposals, votes, announces>>

\* The loop advances only if the engine is still in StepCommit.
LoopEndsCommitIfStill(v) ==
    /\ loop[v].pc = "commit" /\ eng[v].step = StepCommit
    /\ Become(v, AdvanceHeight(eng[v]))
    /\ LoopGoes(v, AtTop)
    /\ UNCHANGED <<handler, node, store, proposals, votes, announces>>

\* The loop's pause inside commitLocked is over.
LoopEndsCommit(v) ==
    /\ loop[v].pc = "commit"
    /\ Become(v, AdvanceHeight(eng[v]))
    /\ LoopGoes(v, AtTop)
    /\ UNCHANGED <<handler, node, store, proposals, votes, announces>>

\* The message goroutine's pause is over.
HandlerEndsCommit(v) ==
    /\ handler[v] = "commit"
    /\ Become(v, AdvanceHeight(eng[v]))
    /\ handler' = [handler EXCEPT ![v] = "ready"]
    /\ UNCHANGED <<loop, node, store, proposals, votes, announces>>
-----------------------------------------------------------------------------
\* The proposal is not compared with the local tip.
AnyProposal(v, p) == TRUE

\* validateProposalLocked
ValidProposal(v, p) == p.height = tip[v] + 1 /\ p.prev = TipHash(v)

HandleProposal(v, p) ==
    LET e == AdoptNewer(eng[v], p.round)
        accepted == Leader(v, p.height) = p.proposer /\ ValidProposal(v, p) IN
    /\ handler[v] = "ready" /\ p.proposer # v
    /\ p.height = eng[v].height /\ p.round >= eng[v].round
    /\ \/ /\ e.step > StepPropose \/ ~accepted
          /\ Become(v, e) /\ UNCHANGED votes
       \/ /\ e.step = StepNewHeight /\ accepted
          /\ Become(v, [e EXCEPT !.proposal = p]) /\ UNCHANGED votes
       \/ /\ e.step = StepPropose /\ accepted
          /\ EnterPrevote(v, [e EXCEPT !.proposal = p])
    /\ UNCHANGED <<loop, handler, node, store, proposals, announces>>

(***************************************************************************)
(* The double-sign detection of HandleVote: jail the voter of two hashes   *)
(* in one round, and remember this vote in place of the one before.        *)
(***************************************************************************)
SameSlot(m, k) == m.voter = k.voter /\ m.type = k.type
DoubleSignsAcrossHeights(v, m) == \E k \in lastVotes[v] :
    SameSlot(m, k) /\ k.round = m.round /\ k.hash # m.hash
DoubleSigns(v, m) == \E k \in lastVotes[v] :
    SameSlot(m, k) /\ k.height = m.height /\ k.round = m.round /\ k.hash # m.hash

\* JailValidator, in v's own store.
Jail(v, u) == jailed' = [jailed EXCEPT ![v] = @ \cup {u}]
Observe(v, m) ==
    /\ IF DoubleSigns(v, m) THEN Jail(v, m.voter) ELSE UNCHANGED jailed
    /\ lastVotes' = [lastVotes EXCEPT ![v] = {k \in @ : ~SameSlot(m, k)} \cup {m}]
    /\ UNCHANGED boots

\* HandleVote; a commit keeps this goroutine busy for the block interval.
HandleVote(v, m) ==
    LET e == AdoptNewer(eng[v], m.round)
        fresh(tally) == m.round = e.round /\ ~HasVoted(tally, m.voter)
        ballot == <<m.voter, m.hash>> IN
    /\ handler[v] = "ready" /\ m.voter # v
    /\ m.height = eng[v].height /\ m.voter \notin jailed[v]
    /\ Observe(v, m)
    /\ \/ /\ m.type = "prevote" /\ fresh(e.prevotes)
          /\ TryFinalizePrevotes(v, [e EXCEPT !.prevotes = @ \cup {ballot}])
          /\ UNCHANGED <<loop, handler, store, announces>>
       \/ /\ m.type = "precommit" /\ fresh(e.precommits)
          /\ TryFinalizePrecommits(v, [e EXCEPT !.precommits = @ \cup {ballot}],
                 handler' = [handler EXCEPT ![v] = "commit"] /\ UNCHANGED loop)
          /\ UNCHANGED votes
       \/ /\ IF m.type = "prevote" THEN ~fresh(e.prevotes) ELSE ~fresh(e.precommits)
          /\ Become(v, e)
          /\ UNCHANGED <<loop, handler, store, votes, announces>>
    /\ UNCHANGED proposals

\* Both handlers follow a higher round before they ask whether the sender is a validator:
\* the signed message of anybody else moves the engine as well, and does nothing more.
FollowOutsider(v, h, r) ==
    /\ handler[v] = "ready" /\ h = eng[v].height /\ r > eng[v].round
    /\ Become(v, AdoptRound(eng[v], r))
    /\ UNCHANGED <<loop, handler, node, store, proposals, votes, announces>>

\* VerifyAndSaveGossipedBlockStrict: next height, right parent, signed by its proposer.
\* One step here; TxPipeline has its transactions, applied one by one.
GossipBlock(v, a) ==
    LET p == a.block IN
    /\ a.signer # v /\ a.signer = p.proposer /\ p.proposer \notin jailed[v]
    /\ p.height = tip[v] + 1 /\ p.prev = TipHash(v)
    /\ SaveBlock(v, p)
    /\ UNCHANGED <<eng, loop, handler, node, proposals, votes, announces>>

\* A jail record expires, or an operator removes it.
Unjail(v, u) ==
    /\ u \in jailed[v]
    /\ jailed' = [jailed EXCEPT ![v] = @ \ {u}]
    /\ UNCHANGED <<eng, lastVotes, loop, handler, store, boots, proposals, votes, announces>>

\* The process stops and starts again: only what the store holds survives.
Restart(v) ==
    /\ v \in Restartable /\ boots[v] < MaxRestarts
    /\ boots' = [boots EXCEPT ![v] = @ + 1]
    /\ Become(v, StartOf(tip[v] + 1))
    /\ lastVotes' = [lastVotes EXCEPT ![v] = {}]
    /\ LoopGoes(v, AtTop)
    /\ handler' = [handler EXCEPT ![v] = "ready"]
    /\ UNCHANGED <<store, jailed, proposals, votes, announces>>

\* Every engine has reached a bound of the model and only waits for messages.
AtBound(v) == \/ eng[v].height > MaxHeight
              \/ eng[v].round = MaxRound /\ eng[v].step = StepPrecommit
Finished == (\A v \in Validators : AtBound(v)) /\ UNCHANGED vars

Loop(v) ==
    \/ RunPropose(v) \/ StartRound(v) \/ BuildProposal(v) \/ PublishProposal(v)
    \/ EndPropose(v) \/ PollPrevotes(v) \/ PrevoteTimeout(v)
    \/ PollPrecommits(v) \/ PrecommitTimeout(v) \/ LoopEndsCommit(v)

Receive(v) ==
    \/ \E p \in proposals : HandleProposal(v, p)
    \/ \E m \in votes : HandleVote(v, m)
    \/ \E o \in Outside : FollowOutsider(v, o[1], o[2])
    \/ \E a \in announces : GossipBlock(v, a)

Next ==
    \/ \E v \in Validators : Loop(v) \/ HandlerEndsCommit(v) \/ Receive(v) \/ Restart(v)
    \/ \E v, u \in Validators : Unjail(v, u)
    \/ Finished

Spec == Init /\ [][Next]_vars
-----------------------------------------------------------------------------
Engine == [height : 1..MaxHeight + 1, round : Rounds, step : 0..4,
           proposal : Proposal \cup {NoProposal}, locked : Blocks \cup {Nil},
           prevotes : SUBSET (Validators \X (Blocks \cup {Nil})),
           precommits : SUBSET (Validators \X (Blocks \cup {Nil}))]

LoopState == [pc : {"top", "pace", "build", "publish", "await", "commit"},
              height : 0..MaxHeight, round : Rounds, prev : Blocks \cup {Nil, Genesis}]

TypeOK ==
    /\ eng \in [Validators -> Engine]
    /\ loop \in [Validators -> LoopState]
    /\ handler \in [Validators -> {"ready", "commit"}]
    /\ chain \in [Validators -> [Heights -> Blocks \cup {Nil}]]
    /\ tip \in [Validators -> 0..MaxHeight]
    /\ proposals \subseteq Proposal
    /\ votes \subseteq Vote
    /\ lastVotes \in [Validators -> SUBSET Vote]
    /\ jailed \in [Validators -> SUBSET Validators]
    /\ boots \in [Validators -> Boots]
    /\ announces \subseteq [block : Proposal, signer : Validators]
-----------------------------------------------------------------------------
(* What holds.                                                               *)

(***************************************************************************)
(* The votes of the validators whose process never restarts obey the rules *)
(* of BFTVoting, whatever is lost, late or repeated, whatever the          *)
(* restarted ones do, and whether the loop or the message goroutine casts  *)
(* the vote.  BFTVotingProofs derives one committable block per height     *)
(* from it, as long as fewer than a third of the validators ever restart.  *)
(***************************************************************************)
ImplementsVoting == V!Spec

\* +2/3 precommits for x at height h were broadcast in one round.
Certified(h, x) == \E r \in Rounds :
    Cardinality({u \in Validators : MkVote("precommit", h, r, u, x) \in votes}) >= Quorum

(***************************************************************************)
(* Every block in a store, put there by commitLocked or by the block       *)
(* gossip handler, which sees no votes, has +2/3 precommits behind it.     *)
(***************************************************************************)
StoredBlocksCertified == \A v \in Validators, h \in Heights :
    chain[v][h] # Nil => Certified(h, chain[v][h])

(***************************************************************************)
(* No two stores hold different blocks at a height, and every store is a   *)
(* chain without gaps up to its latest_height: each block links to the     *)
(* one below, although two goroutines save blocks.                         *)
(***************************************************************************)
ChainsAgree ==
    /\ \A u, v \in Validators, h \in Heights :
          chain[u][h] # Nil /\ chain[v][h] # Nil => chain[u][h] = chain[v][h]
    /\ \A v \in Validators : \A h \in 1..tip[v] : \E p \in proposals :
          /\ BlockHash(p) = chain[v][h]
          /\ p.prev = IF h = 1 THEN Genesis ELSE chain[v][h - 1]

(***************************************************************************)
(* A leader never signs two proposals for one height and round, although   *)
(* runPropose works with a height and round read before it waited.         *)
(***************************************************************************)
BuildsOncePerRound == \A v \in Validators :
    loop[v].pc \in {"build", "publish"} =>
        \A p \in proposals : BlockHash(p) # <<loop[v].height, loop[v].round, v, boots[v]>>

(***************************************************************************)
(* Only a validator that was restarted is ever jailed for equivocation by  *)
(* HandleVote: message loss, repetition and reordering never look like a   *)
(* double signature.                                                       *)
(***************************************************************************)
OnlyRestartedJailed == \A v \in Validators : jailed[v] \subseteq {u \in Restartable : boots[u] > 0}

(***************************************************************************)
(* The two goroutines are never both inside commitLocked, so one commit    *)
(* advances the height once, although commitLocked gives up e.mu while it  *)
(* waits.                                                                  *)
(***************************************************************************)
OneCommitAtATime == \A v \in Validators : ~(loop[v].pc = "commit" /\ handler[v] = "commit")

(***************************************************************************)
(* Short of a restart an engine never returns to an earlier height, round  *)
(* or step, whichever goroutine moves it: what stops a second vote.        *)
(***************************************************************************)
Before(d, e) == \/ d.height < e.height
                \/ d.height = e.height /\ d.round < e.round
                \/ d.height = e.height /\ d.round = e.round /\ d.step <= e.step
NeverGoesBack == [][\A v \in Validators :
    boots'[v] = boots[v] => Before(eng[v], eng'[v])]_vars

(***************************************************************************)
(* The goroutines of a node are scheduled and its timers fire, so loop()   *)
(* and a pause inside commitLocked always go on; no message need arrive.   *)
(***************************************************************************)
FairSpec == Spec /\ \A v \in Validators : WF_vars(Loop(v)) /\ WF_vars(HandlerEndsCommit(v))

(***************************************************************************)
(* An engine that stored its block always gets to the next height, even    *)
(* when a late vote of a higher round takes it out of StepCommit meanwhile.*)
(***************************************************************************)
LeavesCommit == \A v \in Validators, h \in Heights :
    eng[v].height = h /\ eng[v].step = StepCommit ~> eng[v].height > h

(***************************************************************************)
(* No step is a trap: an engine that hears nothing still runs through its  *)
(* rounds, up to the bounds of the model.                                  *)
(***************************************************************************)
NeverHangs == \A v \in Validators : <>AtBound(v)
-----------------------------------------------------------------------------
(* What the source says and the code does not do.                            *)

(***************************************************************************)
(* The struct comment: on +2/3 precommits for a hash, apply and SaveBlock. *)
(* So an engine is never past a height its store lacks.                    *)
(***************************************************************************)
AppliesWhatItCommits == \A v \in Validators : eng[v].height <= tip[v] + 1
=============================================================================
