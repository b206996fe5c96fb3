--------------------------- MODULE BFTEngineProofs ---------------------------
(***************************************************************************)
(* Proofs about BFTEngine, for every number of validators, heights, rounds *)
(* and restarts.                                                           *)
(*                                                                         *)
(* The base is BaseInv: every engine agrees with the votes and proposals   *)
(* that were broadcast (EngOK) and the goroutines of a node agree with     *)
(* each other and with the store (NodeOK).  One lemma XEffect per action X *)
(* shows that a step of a node is an Effect, that is, touches that node    *)
(* only and moves its engine forward, casts one vote by the rules, or      *)
(* restarts it.  BaseInv and the refinement of BFTVoting follow from       *)
(* Effect alone.  Three more invariants rest on it: JailInv (what          *)
(* HandleVote remembers was sent), BuildInv (a proposal lies behind its    *)
(* proposer's engine) and CertInv (what is stored or announced has its     *)
(* certificate).  The agreement theorem of BFTVotingProofs, carried over   *)
(* by the refinement, then gives LinkInv and one chain.                    *)
(***************************************************************************)
EXTENDS BFTEngine, FiniteSetTheorems, TLAPS
-----------------------------------------------------------------------------
(* The fields of an engine after each of the changes of BFTEngine.           *)

LEMMA TypeFacts ==
    /\ Heights \subseteq Nat \ {0} /\ Rounds \subseteq Nat /\ Boots \subseteq Nat
    /\ 0 \in Rounds /\ 0 \in Boots /\ 1 \in Heights /\ MaxHeight \in Heights
    /\ \A h \in 1..MaxHeight + 1 : h <= MaxHeight => h \in Heights
    /\ Nil \notin Blocks /\ Genesis \notin Blocks /\ Genesis # Nil
    /\ NoProposal \notin Proposal
BY BoundsNat, HashesDistinct, NilPointer DEF Heights, Rounds, Boots

\* The fields of an engine and their ranges.
LEMMA EngineFields ==
    ASSUME NEW e \in Engine
    PROVE  /\ e.height \in 1..MaxHeight + 1 /\ e.round \in Rounds /\ e.step \in 0..4
           /\ e.height \in Nat /\ e.round \in Nat /\ e.step \in Nat
           /\ e.proposal \in Proposal \cup {NoProposal} /\ e.locked \in Blocks \cup {Nil}
           /\ e.prevotes \subseteq Validators \X (Blocks \cup {Nil})
           /\ e.precommits \subseteq Validators \X (Blocks \cup {Nil})
<1>1. /\ e.height \in 1..MaxHeight + 1 /\ e.round \in Rounds /\ e.step \in 0..4
      /\ e.proposal \in Proposal \cup {NoProposal} /\ e.locked \in Blocks \cup {Nil}
      /\ e.prevotes \subseteq Validators \X (Blocks \cup {Nil})
      /\ e.precommits \subseteq Validators \X (Blocks \cup {Nil})
    BY DEF Engine
<1>2. e.height \in Nat /\ e.round \in Nat /\ e.step \in Nat
    <2>1. \A h \in 1..MaxHeight + 1 : h \in Nat
        BY BoundsNat
    <2>2. \A s \in 0..4 : s \in Nat
        OBVIOUS
    <2> QED BY ONLY <1>1, <2>1, <2>2, TypeFacts
<1> QED BY <1>1, <1>2

\* AdoptRound: the round starts anew, the lock stays.
LEMMA AdoptFields ==
    ASSUME NEW e \in Engine, NEW r \in Rounds
    PROVE  LET d == AdoptRound(e, r) IN
           /\ d \in Engine /\ d.height = e.height /\ d.round = r /\ d.step = StepPropose
           /\ d.proposal = NoProposal /\ d.locked = e.locked
           /\ d.prevotes = {} /\ d.precommits = {}
<1> DEFINE d == AdoptRound(e, r)
<1>1. /\ d.height = e.height /\ d.round = r /\ d.step = StepPropose
      /\ d.proposal = NoProposal /\ d.locked = e.locked
      /\ d.prevotes = {} /\ d.precommits = {}
    BY DEF Engine, AdoptRound, StepPropose
<1>2. {} \in SUBSET (Validators \X (Blocks \cup {Nil})) /\ 1 \in 0..4
    OBVIOUS
<1>3. d \in Engine
    BY <1>2 DEF Engine, AdoptRound, StepPropose
<1> QED BY <1>1, <1>3

\* NextRound: one round on, the lock stays.
LEMMA NextRoundFields ==
    ASSUME NEW e \in Engine, e.round < MaxRound
    PROVE  LET d == NextRound(e) IN
           /\ d \in Engine /\ d.height = e.height /\ d.round = e.round + 1
           /\ d.step = StepNewHeight
           /\ d.proposal = NoProposal /\ d.locked = e.locked
           /\ d.prevotes = {} /\ d.precommits = {}
<1> DEFINE d == NextRound(e)
<1>1. /\ d.height = e.height /\ d.round = e.round + 1 /\ d.step = StepNewHeight
      /\ d.proposal = NoProposal /\ d.locked = e.locked
      /\ d.prevotes = {} /\ d.precommits = {}
    BY BoundsNat DEF Engine, NextRound, StepNewHeight, Rounds
<1>2. {} \in SUBSET (Validators \X (Blocks \cup {Nil})) /\ 0 \in 0..4
    OBVIOUS
<1>3. e.round + 1 \in Rounds
    BY EngineFields, BoundsNat DEF Rounds
<1>4. d \in Engine
    BY <1>2, <1>3 DEF Engine, NextRound, StepNewHeight
<1> QED BY <1>1, <1>4

\* StartOf: a height from its beginning, nothing locked.
LEMMA StartFields ==
    ASSUME NEW h \in 1..MaxHeight + 1
    PROVE  LET d == StartOf(h) IN
           /\ d \in Engine /\ d.height = h /\ d.round = 0 /\ d.step = StepNewHeight
           /\ d.proposal = NoProposal /\ d.locked = Nil
           /\ d.prevotes = {} /\ d.precommits = {}
BY TypeFacts DEF StartOf, Engine, StepNewHeight

\* A proposal accepted or built.
LEMMA ProposalFields ==
    ASSUME NEW e \in Engine, NEW p \in Proposal \cup {NoProposal}
    PROVE  LET d == [e EXCEPT !.proposal = p] IN
           /\ d \in Engine /\ d.height = e.height /\ d.round = e.round /\ d.step = e.step
           /\ d.proposal = p /\ d.locked = e.locked
           /\ d.prevotes = e.prevotes /\ d.precommits = e.precommits
BY DEF Engine

\* The step alone moves.
LEMMA StepFields ==
    ASSUME NEW e \in Engine, NEW s \in 0..4
    PROVE  LET d == [e EXCEPT !.step = s] IN
           /\ d \in Engine /\ d.height = e.height /\ d.round = e.round /\ d.step = s
           /\ d.proposal = e.proposal /\ d.locked = e.locked
           /\ d.prevotes = e.prevotes /\ d.precommits = e.precommits
BY DEF Engine

\* runPropose starts the round afresh.
LEMMA StartRoundFields ==
    ASSUME NEW e \in Engine
    PROVE  LET d == [e EXCEPT !.step = StepPropose, !.proposal = NoProposal,
                              !.prevotes = {}, !.precommits = {}] IN
           /\ d \in Engine /\ d.height = e.height /\ d.round = e.round /\ d.step = StepPropose
           /\ d.proposal = NoProposal /\ d.locked = e.locked
           /\ d.prevotes = {} /\ d.precommits = {}
<1> DEFINE d == [e EXCEPT !.step = StepPropose, !.proposal = NoProposal,
                        !.prevotes = {}, !.precommits = {}]
<1>1. /\ d.height = e.height /\ d.round = e.round /\ d.step = StepPropose
      /\ d.proposal = NoProposal /\ d.locked = e.locked
      /\ d.prevotes = {} /\ d.precommits = {}
    BY DEF Engine, StepPropose
<1>2. {} \in SUBSET (Validators \X (Blocks \cup {Nil})) /\ 1 \in 0..4
    OBVIOUS
<1>3. d \in Engine
    BY <1>2 DEF Engine, StepPropose
<1> QED BY <1>1, <1>3

\* A ballot recorded in one of the two tallies.
LEMMA BallotFields ==
    ASSUME NEW e \in Engine, NEW t \in Validators \X (Blocks \cup {Nil})
    PROVE  /\ LET d == [e EXCEPT !.prevotes = @ \cup {t}] IN
              /\ d \in Engine /\ d.height = e.height /\ d.round = e.round /\ d.step = e.step
              /\ d.proposal = e.proposal /\ d.locked = e.locked
              /\ d.prevotes = e.prevotes \cup {t} /\ d.precommits = e.precommits
           /\ LET d == [e EXCEPT !.precommits = @ \cup {t}] IN
              /\ d \in Engine /\ d.height = e.height /\ d.round = e.round /\ d.step = e.step
              /\ d.proposal = e.proposal /\ d.locked = e.locked
              /\ d.prevotes = e.prevotes /\ d.precommits = e.precommits \cup {t}
BY DEF Engine

\* The engine after enterPrevoteLocked and after a precommit of x.
Prevoted(v, e, x) == [e EXCEPT !.step = StepPrevote, !.prevotes = @ \cup {<<v, x>>}]
Precommitted(v, e, x) ==
    [e EXCEPT !.step = StepPrecommit, !.precommits = @ \cup {<<v, x>>},
              !.locked = IF x = Nil THEN @ ELSE x]

\* What a vote of its own leaves in an engine.
LEMMA CastFields ==
    ASSUME NEW e \in Engine, NEW v \in Validators, NEW x \in Blocks \cup {Nil}
    PROVE  /\ LET d == Prevoted(v, e, x) IN
              /\ d \in Engine /\ d.height = e.height /\ d.round = e.round
              /\ d.step = StepPrevote /\ d.proposal = e.proposal /\ d.locked = e.locked
              /\ d.prevotes = e.prevotes \cup {<<v, x>>} /\ d.precommits = e.precommits
           /\ LET d == Precommitted(v, e, x) IN
              /\ d \in Engine /\ d.height = e.height /\ d.round = e.round
              /\ d.step = StepPrecommit /\ d.proposal = e.proposal
              /\ d.locked = IF x = Nil THEN e.locked ELSE x
              /\ d.prevotes = e.prevotes /\ d.precommits = e.precommits \cup {<<v, x>>}
<1> DEFINE B == Validators \X (Blocks \cup {Nil})
           p == Prevoted(v, e, x)
           c == Precommitted(v, e, x)
<1>1. /\ p.height = e.height /\ p.round = e.round
      /\ p.step = StepPrevote /\ p.proposal = e.proposal /\ p.locked = e.locked
      /\ p.prevotes = e.prevotes \cup {<<v, x>>} /\ p.precommits = e.precommits
    BY DEF Engine, Prevoted
<1>2. /\ c.height = e.height /\ c.round = e.round
      /\ c.step = StepPrecommit /\ c.proposal = e.proposal
      /\ c.locked = IF x = Nil THEN e.locked ELSE x
      /\ c.prevotes = e.prevotes /\ c.precommits = e.precommits \cup {<<v, x>>}
    BY DEF Engine, Precommitted
<1>3. /\ e.prevotes \cup {<<v, x>>} \in SUBSET B /\ e.precommits \cup {<<v, x>>} \in SUBSET B
      /\ 2 \in 0..4 /\ 3 \in 0..4
      /\ (IF x = Nil THEN e.locked ELSE x) \in Blocks \cup {Nil}
    BY EngineFields
<1>4. p \in Engine
    BY <1>3 DEF Engine, Prevoted, StepPrevote
<1>5. c \in Engine
    BY <1>3 DEF Engine, Precommitted, StepPrecommit
<1> QED BY <1>1, <1>2, <1>4, <1>5
-----------------------------------------------------------------------------
\* A vote has the fields it was made from, and its type.
LEMMA VoteFields ==
    /\ \A t \in {"prevote", "precommit"}, h \in Heights, r \in Rounds, v \in Validators,
          x \in Blocks \cup {Nil} : MkVote(t, h, r, v, x) \in Vote
    /\ \A t, h, r, v, x :
          /\ MkVote(t, h, r, v, x).type = t /\ MkVote(t, h, r, v, x).height = h
          /\ MkVote(t, h, r, v, x).round = r /\ MkVote(t, h, r, v, x).voter = v
          /\ MkVote(t, h, r, v, x).hash = x
BY DEF MkVote, Vote

\* Every vote is made by MkVote.
LEMMA VoteIsMkVote ==
    ASSUME NEW m \in Vote
    PROVE  /\ m = MkVote(m.type, m.height, m.round, m.voter, m.hash)
           /\ m.type \in {"prevote", "precommit"} /\ m.height \in Heights
           /\ m.round \in Rounds /\ m.voter \in Validators /\ m.hash \in Blocks \cup {Nil}
           /\ m.height \in Nat /\ m.round \in Nat
BY TypeFacts DEF MkVote, Vote

\* A vote the engine e can no longer repeat.
Past(m, e) ==
    \/ m.height < e.height
    \/ m.height = e.height /\ m.round < e.round
    \/ /\ m.height = e.height /\ m.round = e.round
       /\ e.step >= IF m.type = "prevote" THEN StepPrevote ELSE StepPrecommit

\* All votes of v lie in the past of its engine.
VotesPast(v, e, vs) == \A m \in vs : m.voter = v => Past(m, e)

\* Only heights of the model are worked on.
Entered(e) == e.step # StepNewHeight => e.height <= MaxHeight

\* An engine in StepPrevote has published its prevote of the round.
HasPrevoted(v, e, vs) == e.step = StepPrevote =>
    \E x \in Blocks \cup {Nil} : MkVote("prevote", e.height, e.round, v, x) \in vs

\* The ballots of a tally were broadcast for the engine's height and round.
TalliesSent(e, vs) ==
    /\ \A t \in e.prevotes : MkVote("prevote", e.height, e.round, t[1], t[2]) \in vs
    /\ \A t \in e.precommits : MkVote("precommit", e.height, e.round, t[1], t[2]) \in vs

\* The engine's proposal was broadcast, and is for its height unless built here.
ProposalKnown(v, e, ps) == e.proposal # NoProposal =>
    e.proposal \in ps /\ (e.proposal.height = e.height \/ e.proposal.proposer = v)

\* The lock is on a block of the current height.
LockHeight(e) == e.locked # Nil => e.locked[1] = e.height

\* The non-nil precommits of v at height h.
LocksOf(v, h, vs) == {m \in vs : /\ m.voter = v /\ m.height = h
                                 /\ m.type = "precommit" /\ m.hash # Nil}

\* The lock is the hash of the latest of them.
LockIsLatest(v, e, vs) ==
    /\ e.locked = Nil => LocksOf(v, e.height, vs) = {}
    /\ e.locked # Nil => \E m \in LocksOf(v, e.height, vs) :
          m.hash = e.locked /\ \A l \in LocksOf(v, e.height, vs) : l.round <= m.round

\* Engine e of v, in its life b, agrees with the votes vs and the proposals ps.
EngOK(v, e, vs, ps, b) ==
    /\ e \in Engine /\ Entered(e)
    /\ HasPrevoted(v, e, vs) /\ TalliesSent(e, vs)
    /\ ProposalKnown(v, e, ps) /\ LockHeight(e)
    /\ b = 0 => VotesPast(v, e, vs) /\ LockIsLatest(v, e, vs)

\* What is past stays past as the engine moves on.
LEMMA PastMonotone ==
    ASSUME NEW m \in Vote, NEW e \in Engine, NEW d \in Engine, Past(m, e), Before(e, d)
    PROVE  Past(m, d)
<1>1. m.height \in Nat /\ m.round \in Nat
    BY VoteIsMkVote
<1>2. /\ e.height \in Nat /\ e.round \in Nat /\ e.step \in Nat
      /\ d.height \in Nat /\ d.round \in Nat /\ d.step \in Nat
    BY EngineFields
<1> QED BY <1>1, <1>2 DEF Past, Before, StepPrevote, StepPrecommit

\* An engine that moves on without voting stays sound.
LEMMA QuietStep ==
    ASSUME NEW v \in Validators, NEW vs \in SUBSET Vote, NEW ps, NEW b,
           NEW e, EngOK(v, e, vs, ps, b), NEW d \in Engine,
           d.height = e.height, d.locked = e.locked, Before(e, d), Entered(d),
           d.step = StepPrevote => e.step = StepPrevote /\ d.round = e.round,
           TalliesSent(d, vs), ProposalKnown(v, d, ps)
    PROVE  EngOK(v, d, vs, ps, b)
<1>1. HasPrevoted(v, d, vs)
    BY DEF EngOK, HasPrevoted
<1>2. LockHeight(d)
    BY DEF EngOK, LockHeight
<1>3. b = 0 => LockIsLatest(v, d, vs)
    BY DEF EngOK, LockIsLatest
<1>4. b = 0 => VotesPast(v, d, vs)
    BY PastMonotone DEF EngOK, VotesPast
<1> QED BY <1>1, <1>2, <1>3, <1>4 DEF EngOK

\* Following a message into a higher round keeps the engine sound.
LEMMA AdoptKeeps ==
    ASSUME NEW v \in Validators, NEW vs \in SUBSET Vote, NEW ps, NEW b,
           NEW e, EngOK(v, e, vs, ps, b), NEW r \in Rounds, e.height <= MaxHeight
    PROVE  LET d == AdoptNewer(e, r) IN
           /\ EngOK(v, d, vs, ps, b) /\ Before(e, d) /\ d.height = e.height
           /\ r <= d.round
           /\ d = e \/ (r > e.round /\ d = AdoptRound(e, r))
<1> DEFINE d == AdoptRound(e, r)
<1>1. e \in Engine
    BY DEF EngOK
<1>2. /\ d \in Engine /\ d.height = e.height /\ d.round = r /\ d.step = StepPropose
      /\ d.proposal = NoProposal /\ d.locked = e.locked
      /\ d.prevotes = {} /\ d.precommits = {}
    BY <1>1, AdoptFields
<1> HIDE DEF d
<1>3. r \in Nat /\ e.round \in Nat /\ e.height \in Nat /\ e.step \in Nat
    BY <1>1, EngineFields, TypeFacts
<1>4. CASE r > e.round
    <2>1. Before(e, d)
        BY <1>2, <1>3, <1>4 DEF Before
    <2>2. Entered(d) /\ TalliesSent(d, vs) /\ ProposalKnown(v, d, ps)
        BY <1>2, <1>3 DEF Entered, TalliesSent, ProposalKnown
    <2>3. EngOK(v, d, vs, ps, b)
        BY <1>2, <2>1, <2>2, QuietStep DEF StepPropose, StepPrevote
    <2> QED BY <2>1, <2>3, <1>2, <1>3, <1>4 DEF AdoptNewer, d
<1>5. CASE ~(r > e.round)
    BY <1>3, <1>5 DEF AdoptNewer, Before
<1> QED BY <1>4, <1>5

\* So does leaving the round without a commit.
LEMMA NextRoundKeeps ==
    ASSUME NEW v \in Validators, NEW vs \in SUBSET Vote, NEW ps, NEW b,
           NEW e, EngOK(v, e, vs, ps, b), e.round < MaxRound
    PROVE  EngOK(v, NextRound(e), vs, ps, b) /\ Before(e, NextRound(e))
<1> DEFINE d == NextRound(e)
<1>1. e \in Engine
    BY DEF EngOK
<1>2. /\ d \in Engine /\ d.height = e.height /\ d.round = e.round + 1
      /\ d.step = StepNewHeight
      /\ d.proposal = NoProposal /\ d.locked = e.locked
      /\ d.prevotes = {} /\ d.precommits = {}
    BY <1>1, NextRoundFields
<1> HIDE DEF d
<1>3. e.round \in Nat /\ e.height \in Nat /\ e.step \in Nat
    BY <1>1, EngineFields
<1>4. Before(e, d)
    BY <1>2, <1>3 DEF Before
<1>5. Entered(d) /\ TalliesSent(d, vs) /\ ProposalKnown(v, d, ps)
    BY <1>2 DEF Entered, TalliesSent, ProposalKnown
<1>6. EngOK(v, d, vs, ps, b)
    BY <1>2, <1>4, <1>5, QuietStep DEF StepNewHeight, StepPrevote
<1> QED BY <1>4, <1>6 DEF d

\* runPropose starts the round afresh.
Afresh(e) == [e EXCEPT !.step = StepPropose, !.proposal = NoProposal,
                       !.prevotes = {}, !.precommits = {}]

\* So does the start of a round in runPropose.
LEMMA AfreshKeeps ==
    ASSUME NEW v \in Validators, NEW vs \in SUBSET Vote, NEW ps, NEW b,
           NEW e, EngOK(v, e, vs, ps, b), e.height <= MaxHeight,
           e.step \in {StepNewHeight, StepPropose}
    PROVE  EngOK(v, Afresh(e), vs, ps, b) /\ Before(e, Afresh(e))
<1> DEFINE d == Afresh(e)
<1>1. e \in Engine
    BY DEF EngOK
<1>2. /\ d \in Engine /\ d.height = e.height /\ d.round = e.round
      /\ d.step = StepPropose
      /\ d.proposal = NoProposal /\ d.locked = e.locked
      /\ d.prevotes = {} /\ d.precommits = {}
    BY <1>1, StartRoundFields DEF Afresh
<1> HIDE DEF d
<1>3. e.round \in Nat /\ e.height \in Nat /\ e.step \in Nat
    BY <1>1, EngineFields
<1>4. Before(e, d)
    BY <1>2, <1>3 DEF Before, StepNewHeight, StepPropose
<1>5. Entered(d) /\ TalliesSent(d, vs) /\ ProposalKnown(v, d, ps)
    BY <1>2 DEF Entered, TalliesSent, ProposalKnown
<1>6. EngOK(v, d, vs, ps, b)
    BY <1>2, <1>4, <1>5, QuietStep DEF StepPropose, StepPrevote
<1> QED BY <1>4, <1>6 DEF d

\* So does taking a proposal for the current height.
LEMMA ProposalKeeps ==
    ASSUME NEW v \in Validators, NEW vs \in SUBSET Vote, NEW ps, NEW b,
           NEW e, EngOK(v, e, vs, ps, b),
           NEW p \in ps, p \in Proposal, p.height = e.height \/ p.proposer = v
    PROVE  LET d == [e EXCEPT !.proposal = p] IN
           /\ EngOK(v, d, vs, ps, b) /\ Before(e, d)
           /\ d.step = e.step /\ d.height = e.height /\ d.round = e.round /\ d.proposal = p
<1> DEFINE d == [e EXCEPT !.proposal = p]
<1>1. e \in Engine
    BY DEF EngOK
<1>2. /\ d \in Engine /\ d.height = e.height /\ d.round = e.round /\ d.step = e.step
      /\ d.proposal = p /\ d.locked = e.locked
      /\ d.prevotes = e.prevotes /\ d.precommits = e.precommits
    BY <1>1, ProposalFields
<1> HIDE DEF d
<1>3. e.round \in Nat /\ e.height \in Nat /\ e.step \in Nat
    BY <1>1, EngineFields
<1>4. Before(e, d)
    BY <1>2, <1>3 DEF Before
<1>5. Entered(d) /\ TalliesSent(d, vs) /\ ProposalKnown(v, d, ps)
    BY <1>2 DEF EngOK, Entered, TalliesSent, ProposalKnown
<1>6. EngOK(v, d, vs, ps, b)
    BY <1>2, <1>4, <1>5, QuietStep
<1> QED BY <1>2, <1>4, <1>6 DEF d

\* HandleVote records the ballot of m.
AddPrevote(e, m) == [e EXCEPT !.prevotes = @ \cup {<<m.voter, m.hash>>}]
AddPrecommit(e, m) == [e EXCEPT !.precommits = @ \cup {<<m.voter, m.hash>>}]

\* So does recording a vote of the current round.
LEMMA BallotKeeps ==
    ASSUME NEW v \in Validators, NEW vs \in SUBSET Vote, NEW ps, NEW b,
           NEW e, EngOK(v, e, vs, ps, b),
           NEW m \in vs, m.height = e.height, m.round = e.round
    PROVE  /\ m.type = "prevote" =>
                LET d == AddPrevote(e, m) IN
                /\ EngOK(v, d, vs, ps, b) /\ Before(e, d) /\ d.step = e.step
                /\ d.height = e.height /\ d.round = e.round
           /\ m.type = "precommit" =>
                LET d == AddPrecommit(e, m) IN
                /\ EngOK(v, d, vs, ps, b) /\ Before(e, d) /\ d.step = e.step
                /\ d.height = e.height /\ d.round = e.round
<1> DEFINE t == <<m.voter, m.hash>>
           c == [e EXCEPT !.prevotes = @ \cup {t}]
           d == [e EXCEPT !.precommits = @ \cup {t}]
<1>1. e \in Engine
    BY DEF EngOK
<1>2. /\ m.voter \in Validators /\ m.hash \in Blocks \cup {Nil}
      /\ m = MkVote(m.type, m.height, m.round, m.voter, m.hash)
    BY VoteIsMkVote
<1>3. t \in Validators \X (Blocks \cup {Nil}) /\ t[1] = m.voter /\ t[2] = m.hash
    BY <1>2
<1> HIDE DEF t
<1>4. /\ c \in Engine /\ c.height = e.height /\ c.round = e.round /\ c.step = e.step
      /\ c.proposal = e.proposal /\ c.locked = e.locked
      /\ c.prevotes = e.prevotes \cup {t} /\ c.precommits = e.precommits
      /\ d \in Engine /\ d.height = e.height /\ d.round = e.round /\ d.step = e.step
      /\ d.proposal = e.proposal /\ d.locked = e.locked
      /\ d.prevotes = e.prevotes /\ d.precommits = e.precommits \cup {t}
    BY <1>1, <1>3, BallotFields
<1> HIDE DEF c, d
<1>5. e.round \in Nat /\ e.height \in Nat /\ e.step \in Nat
    BY <1>1, EngineFields
<1>6. Before(e, c) /\ Before(e, d)
    BY <1>4, <1>5 DEF Before
<1>7. Entered(c) /\ ProposalKnown(v, c, ps) /\ Entered(d) /\ ProposalKnown(v, d, ps)
    BY <1>4 DEF EngOK, Entered, ProposalKnown
<1>8. m.type = "prevote" => EngOK(v, c, vs, ps, b)
    <2>1. m.type = "prevote" => TalliesSent(c, vs)
        BY <1>2, <1>3, <1>4 DEF EngOK, TalliesSent
    <2> QED BY <2>1, <1>4, <1>6, <1>7, QuietStep
<1>9. m.type = "precommit" => EngOK(v, d, vs, ps, b)
    <2>1. m.type = "precommit" => TalliesSent(d, vs)
        BY <1>2, <1>3, <1>4 DEF EngOK, TalliesSent
    <2> QED BY <2>1, <1>4, <1>6, <1>7, QuietStep
<1> QED BY <1>4, <1>6, <1>8, <1>9 DEF c, d, t, AddPrevote, AddPrecommit

\* So does entering StepCommit.
LEMMA StepCommitKeeps ==
    ASSUME NEW v \in Validators, NEW vs \in SUBSET Vote, NEW ps, NEW b,
           NEW e, EngOK(v, e, vs, ps, b), e.step = StepPrecommit
    PROVE  LET d == [e EXCEPT !.step = StepCommit] IN
           /\ EngOK(v, d, vs, ps, b) /\ Before(e, d)
           /\ d.step = StepCommit /\ d.height = e.height
<1> DEFINE d == [e EXCEPT !.step = StepCommit]
<1>1. e \in Engine
    BY DEF EngOK
<1>2. /\ d \in Engine /\ d.height = e.height /\ d.round = e.round /\ d.step = StepCommit
      /\ d.proposal = e.proposal /\ d.locked = e.locked
      /\ d.prevotes = e.prevotes /\ d.precommits = e.precommits
    <2>1. StepCommit \in 0..4
        BY DEF StepCommit
    <2> QED BY <1>1, <2>1, StepFields
<1> HIDE DEF d
<1>3. e.round \in Nat /\ e.height \in Nat /\ e.step \in Nat
    BY <1>1, EngineFields
<1>4. Before(e, d)
    BY <1>2, <1>3 DEF Before, StepCommit, StepPrecommit
<1>5. Entered(d) /\ TalliesSent(d, vs) /\ ProposalKnown(v, d, ps)
    BY <1>2 DEF EngOK, Entered, TalliesSent, ProposalKnown, StepNewHeight, StepPrecommit
<1>6. EngOK(v, d, vs, ps, b)
    BY <1>2, <1>4, <1>5, QuietStep DEF StepCommit, StepPrevote
<1> QED BY <1>2, <1>4, <1>6 DEF d

\* So does advanceHeightLocked.
LEMMA AdvanceKeeps ==
    ASSUME NEW v \in Validators, NEW vs \in SUBSET Vote, NEW ps, NEW b,
           NEW e, EngOK(v, e, vs, ps, b), e.height <= MaxHeight
    PROVE  /\ EngOK(v, AdvanceHeight(e), vs, ps, b) /\ Before(e, AdvanceHeight(e))
           /\ AdvanceHeight(e).height = e.height + 1
           /\ AdvanceHeight(e).step = StepNewHeight
<1> DEFINE d == StartOf(e.height + 1)
<1>1. e \in Engine
    BY DEF EngOK
<1>2. e.round \in Nat /\ e.height \in Nat /\ e.step \in Nat /\ e.height + 1 \in 1..MaxHeight + 1
    BY <1>1, EngineFields, BoundsNat
<1>3. /\ d \in Engine /\ d.height = e.height + 1 /\ d.round = 0 /\ d.step = StepNewHeight
      /\ d.proposal = NoProposal /\ d.locked = Nil
      /\ d.prevotes = {} /\ d.precommits = {}
    BY <1>2, StartFields
<1> HIDE DEF d
<1>4. Before(e, d)
    BY <1>2, <1>3 DEF Before
<1>5. /\ Entered(d) /\ TalliesSent(d, vs) /\ ProposalKnown(v, d, ps)
      /\ HasPrevoted(v, d, vs) /\ LockHeight(d)
    BY <1>3 DEF Entered, TalliesSent, ProposalKnown, HasPrevoted, LockHeight,
                StepNewHeight, StepPrevote
<1>6. b = 0 => VotesPast(v, d, vs)
    BY <1>1, <1>3, <1>4, PastMonotone DEF EngOK, VotesPast
<1>7. b = 0 => LockIsLatest(v, d, vs)
    <2> SUFFICES ASSUME b = 0, NEW m \in LocksOf(v, d.height, vs)
                 PROVE  FALSE
        BY <1>3 DEF LockIsLatest
    <2>1. m \in vs /\ m.voter = v /\ m.height = e.height + 1
        BY <1>3 DEF LocksOf
    <2>2. Past(m, e)
        BY <2>1 DEF EngOK, VotesPast
    <2> QED BY <1>2, <2>1, <2>2 DEF Past
<1>8. EngOK(v, d, vs, ps, b)
    BY <1>3, <1>5, <1>6, <1>7 DEF EngOK
<1> QED BY <1>3, <1>4, <1>8 DEF d, AdvanceHeight

\* A block hash tells the height, round, proposer and life it comes from.
LEMMA BlockHashFields ==
    ASSUME NEW p \in Proposal
    PROVE  /\ BlockHash(p) \in Blocks /\ BlockHash(p) # Nil
           /\ BlockHash(p)[1] = p.height /\ BlockHash(p)[2] = p.round
           /\ BlockHash(p)[3] = p.proposer /\ BlockHash(p)[4] = p.boot
           /\ p.height \in Heights /\ p.round \in Rounds /\ p.proposer \in Validators
           /\ p.boot \in Boots /\ p.prev \in Blocks \cup {Genesis} /\ p.prev # Nil
<1>1. /\ p.height \in Heights /\ p.round \in Rounds /\ p.proposer \in Validators
      /\ p.boot \in Boots /\ p.prev \in Blocks \cup {Genesis}
    BY DEF Proposal
<1>2. /\ BlockHash(p) \in Blocks
      /\ BlockHash(p)[1] = p.height /\ BlockHash(p)[2] = p.round
      /\ BlockHash(p)[3] = p.proposer /\ BlockHash(p)[4] = p.boot
    BY <1>1 DEF BlockHash, Blocks
<1> QED BY <1>1, <1>2, TypeFacts

\* The block hash of a vote was built for its height, or in a prevote by the voter itself.
HashHeight(m) == m.hash # Nil =>
    m.hash[1] = m.height \/ (m.type = "prevote" /\ m.voter = m.hash[3])

\* A prevote in StepPropose is the first vote of its round and keeps the engine sound.
LEMMA PrevoteKeeps ==
    ASSUME NEW v \in Validators, NEW vs \in SUBSET Vote, NEW ps, NEW b,
           NEW e, EngOK(v, e, vs, ps, b), e.step = StepPropose
    PROVE  LET x == PrevoteHash(e)
               w == MkVote("prevote", e.height, e.round, v, x)
               d == Prevoted(v, e, x) IN
           /\ x \in Blocks \cup {Nil} /\ w \in Vote /\ HashHeight(w)
           /\ EngOK(v, d, vs \cup {w}, ps, b) /\ Before(e, d) /\ d.step = StepPrevote
           /\ d.height = e.height /\ d.round = e.round
           /\ b = 0 => \A m \in vs : m.voter = v /\ m.height = e.height => m.round < e.round
<1> DEFINE x == PrevoteHash(e)
           w == MkVote("prevote", e.height, e.round, v, x)
           d == Prevoted(v, e, x)
<1>1. e \in Engine
    BY DEF EngOK
<1>2. /\ e.round \in Nat /\ e.height \in Nat /\ e.step \in Nat /\ e.round \in Rounds
      /\ e.height \in Heights /\ e.proposal \in Proposal \cup {NoProposal}
      /\ e.locked \in Blocks \cup {Nil}
    BY <1>1, EngineFields, TypeFacts DEF EngOK, Entered, StepPropose, StepNewHeight
<1>3. x \in Blocks \cup {Nil}
    BY <1>2, BlockHashFields DEF PrevoteHash
<1>4. x # Nil => x[1] = e.height \/ v = x[3]
    BY <1>2, BlockHashFields DEF PrevoteHash, EngOK, LockHeight, ProposalKnown
<1> HIDE DEF x
<1>5. /\ w.type = "prevote" /\ w.height = e.height /\ w.round = e.round
      /\ w.voter = v /\ w.hash = x /\ w \in Vote
    BY <1>2, <1>3, VoteFields
<1>6. /\ d \in Engine /\ d.height = e.height /\ d.round = e.round
      /\ d.step = StepPrevote /\ d.proposal = e.proposal /\ d.locked = e.locked
      /\ d.prevotes = e.prevotes \cup {<<v, x>>} /\ d.precommits = e.precommits
    BY <1>1, <1>3, CastFields
<1>7. HasPrevoted(v, d, vs \cup {w})
    BY <1>3, <1>6 DEF HasPrevoted
<1>8. TalliesSent(d, vs \cup {w})
    BY <1>6 DEF EngOK, TalliesSent
<1> HIDE DEF w, d
<1>9. Before(e, d)
    BY <1>2, <1>6 DEF Before, StepPropose, StepPrevote
<1>10. Entered(d) /\ ProposalKnown(v, d, ps) /\ LockHeight(d)
    BY <1>2, <1>6 DEF EngOK, Entered, ProposalKnown, LockHeight, StepPropose, StepNewHeight
<1>11. b = 0 => VotesPast(v, d, vs \cup {w})
    <2>1. Past(w, d)
        BY <1>5, <1>6 DEF Past, StepPrevote
    <2> QED BY <1>1, <1>6, <1>9, <2>1, PastMonotone DEF EngOK, VotesPast
<1>12. b = 0 => LockIsLatest(v, d, vs \cup {w})
    <2>1. LocksOf(v, e.height, vs \cup {w}) = LocksOf(v, e.height, vs)
        BY <1>5 DEF LocksOf
    <2> QED BY <1>6, <2>1 DEF EngOK, LockIsLatest
<1>13. EngOK(v, d, vs \cup {w}, ps, b)
    BY <1>6, <1>7, <1>8, <1>10, <1>11, <1>12 DEF EngOK
<1>14. b = 0 => \A m \in vs : m.voter = v /\ m.height = e.height => m.round < e.round
    BY <1>2 DEF EngOK, VotesPast, Past, StepPropose, StepPrevote, StepPrecommit
<1>15. HashHeight(w)
    BY <1>4, <1>5 DEF HashHeight
<1> QED BY <1>3, <1>5, <1>6, <1>9, <1>13, <1>14, <1>15 DEF x, w, d

\* A precommit in StepPrevote is the first of its round and makes the lock the latest.
LEMMA PrecommitKeeps ==
    ASSUME NEW v \in Validators, NEW vs \in SUBSET Vote, NEW ps, NEW b,
           NEW e, EngOK(v, e, vs, ps, b), e.step = StepPrevote,
           NEW x \in Blocks \cup {Nil}, x # Nil => x[1] = e.height
    PROVE  LET w == MkVote("precommit", e.height, e.round, v, x)
               d == Precommitted(v, e, x) IN
           /\ w \in Vote /\ HashHeight(w)
           /\ EngOK(v, d, vs \cup {w}, ps, b) /\ Before(e, d) /\ d.step = StepPrecommit
           /\ d.height = e.height /\ d.round = e.round
           /\ b = 0 => \A m \in vs : m.voter = v /\ m.height = e.height =>
                  /\ m.type = "prevote" => m.round <= e.round
                  /\ m.type = "precommit" => m.round < e.round
<1> DEFINE w == MkVote("precommit", e.height, e.round, v, x)
           d == Precommitted(v, e, x)
<1>1. e \in Engine
    BY DEF EngOK
<1>2. /\ e.round \in Nat /\ e.height \in Nat /\ e.step \in Nat /\ e.round \in Rounds
      /\ e.height \in Heights
    BY <1>1, EngineFields, TypeFacts DEF EngOK, Entered, StepPrevote, StepNewHeight
<1>5. /\ w.type = "precommit" /\ w.height = e.height /\ w.round = e.round
      /\ w.voter = v /\ w.hash = x /\ w \in Vote
    BY <1>2, VoteFields
<1>6. /\ d \in Engine /\ d.height = e.height /\ d.round = e.round
      /\ d.step = StepPrecommit /\ d.proposal = e.proposal
      /\ d.locked = IF x = Nil THEN e.locked ELSE x
      /\ d.prevotes = e.prevotes /\ d.precommits = e.precommits \cup {<<v, x>>}
    BY <1>1, CastFields
<1>8. TalliesSent(d, vs \cup {w})
    BY <1>6 DEF EngOK, TalliesSent
<1> HIDE DEF w, d
<1>9. Before(e, d)
    BY <1>2, <1>6 DEF Before, StepPrecommit, StepPrevote
<1>10. Entered(d) /\ ProposalKnown(v, d, ps) /\ LockHeight(d) /\ HasPrevoted(v, d, vs \cup {w})
    BY <1>2, <1>6 DEF EngOK, Entered, ProposalKnown, LockHeight, HasPrevoted,
                      StepPrevote, StepPrecommit, StepNewHeight
<1>11. b = 0 => VotesPast(v, d, vs \cup {w})
    <2>1. Past(w, d)
        BY <1>5, <1>6 DEF Past, StepPrecommit
    <2> QED BY <1>1, <1>6, <1>9, <2>1, PastMonotone DEF EngOK, VotesPast
<1>14. b = 0 => \A m \in vs : m.voter = v /\ m.height = e.height =>
                  /\ m.type = "prevote" => m.round <= e.round
                  /\ m.type = "precommit" => m.round < e.round
    <2>1. \A m \in vs : m.round \in Nat
        BY VoteIsMkVote
    <2> QED BY <1>2, <2>1 DEF EngOK, VotesPast, Past, StepPrevote, StepPrecommit
<1>12. b = 0 => LockIsLatest(v, d, vs \cup {w})
    <2>1. CASE x = Nil
        <3>1. LocksOf(v, e.height, vs \cup {w}) = LocksOf(v, e.height, vs)
            BY <1>5, <2>1 DEF LocksOf
        <3> QED BY <1>6, <2>1, <3>1 DEF EngOK, LockIsLatest
    <2>2. CASE x # Nil
        <3>1. w \in LocksOf(v, e.height, vs \cup {w})
            BY <1>5, <2>2 DEF LocksOf
        <3>2. b = 0 => \A l \in LocksOf(v, e.height, vs \cup {w}) : l.round <= w.round
            <4>1. \A m \in vs : m.round \in Nat
                BY VoteIsMkVote
            <4> QED BY <1>2, <1>5, <1>14, <4>1 DEF LocksOf
        <3> QED BY <1>5, <1>6, <2>2, <3>1, <3>2 DEF LockIsLatest
    <2> QED BY <2>1, <2>2
<1>13. EngOK(v, d, vs \cup {w}, ps, b)
    BY <1>6, <1>8, <1>10, <1>11, <1>12 DEF EngOK
<1>15. HashHeight(w)
    BY <1>5 DEF HashHeight
<1> QED BY <1>5, <1>6, <1>9, <1>13, <1>14, <1>15 DEF w, d

\* The votes of one validator do not disturb the engine of another.
LEMMA OthersKeep ==
    ASSUME NEW vs \in SUBSET Vote, NEW ps, NEW b, NEW u \in Validators,
           NEW e, EngOK(u, e, vs, ps, b),
           NEW ws, vs \subseteq ws, \A m \in ws \ vs : m.voter # u,
           NEW qs, ps \subseteq qs
    PROVE  EngOK(u, e, ws, qs, b)
<1>1. HasPrevoted(u, e, ws) /\ TalliesSent(e, ws) /\ ProposalKnown(u, e, qs)
    BY DEF EngOK, HasPrevoted, TalliesSent, ProposalKnown
<1>2. b = 0 => VotesPast(u, e, ws)
    BY DEF EngOK, VotesPast
<1>3. LocksOf(u, e.height, ws) = LocksOf(u, e.height, vs)
    BY DEF LocksOf
<1>4. b = 0 => LockIsLatest(u, e, ws)
    BY <1>3 DEF EngOK, LockIsLatest
<1> QED BY <1>1, <1>2, <1>4 DEF EngOK
-----------------------------------------------------------------------------
\* A quorum of at least two validators has at least two votes.
LEMMA QuorumFacts == Quorum \in Nat /\ Quorum >= 2 /\ Quorum = V!QuorumSize(Cardinality(Validators))
<1>1. Cardinality(Validators) \in Nat /\ Cardinality(Validators) >= 2
    BY SeveralValidators, FS_CardinalityType
<1> QED BY <1>1 DEF Quorum, V!QuorumSize

\* A hash reached in a tally has a quorum of voters there.
LEMMA ReachedVoters ==
    ASSUME NEW T \in SUBSET (Validators \X (Blocks \cup {Nil})), NEW x \in Reached(T)
    PROVE  /\ x \in Blocks \cup {Nil}
           /\ \E Q \in SUBSET Validators :
                 Cardinality(Q) >= Quorum /\ \A u \in Q : <<u, x>> \in T
<1> DEFINE B == {t \in T : t[2] = x}
           Q == {u \in Validators : <<u, x>> \in T}
           f == [u \in Q |-> <<u, x>>]
<1>1. Cardinality(B) >= Quorum
    BY DEF Reached
<1>2. IsFiniteSet(Q)
    BY SeveralValidators, FS_Subset
<1>3. f \in Surjection(Q, B)
    <2>1. \A u \in Q : f[u] \in B
        OBVIOUS
    <2>2. \A t \in B : t[1] \in Q /\ f[t[1]] = t
        OBVIOUS
    <2> QED BY <2>1, <2>2 DEF Surjection
<1>4. Cardinality(B) <= Cardinality(Q) /\ IsFiniteSet(B)
    <2> HIDE DEF f, B, Q
    <2> QED BY <1>2, <1>3, FS_Surjection
<1>5. Cardinality(B) \in Nat /\ Cardinality(Q) \in Nat
    BY <1>2, <1>4, FS_CardinalityType
<1>6. Cardinality(Q) >= Quorum
    <2> HIDE DEF B, Q
    <2> QED BY <1>1, <1>4, <1>5, QuorumFacts
<1>7. x \in Blocks \cup {Nil}
    BY DEF Reached
<1>8. Q \in SUBSET Validators /\ \A u \in Q : <<u, x>> \in T
    OBVIOUS
<1> HIDE DEF Q
<1> QED BY <1>6, <1>7, <1>8

\* A quorum has a member other than any given one.
LEMMA QuorumHasAnother ==
    ASSUME NEW Q \in SUBSET Validators, Cardinality(Q) >= Quorum, NEW w
    PROVE  \E u \in Q : u # w
<1> SUFFICES ASSUME Q \subseteq {w} PROVE FALSE
    OBVIOUS
<1>1. Cardinality(Q) <= Cardinality({w}) /\ Cardinality({w}) = 1 /\ IsFiniteSet(Q)
    BY FS_Subset, FS_Singleton
<1>2. Cardinality(Q) \in Nat
    BY <1>1, FS_CardinalityType
<1> QED BY <1>1, <1>2, QuorumFacts

\* A hash reached in a tally was voted by a quorum, and belongs to the engine's height.
LEMMA ReachedSent ==
    ASSUME NEW v \in Validators, NEW vs \in SUBSET Vote, NEW ps, NEW b,
           NEW e, EngOK(v, e, vs, ps, b), \A m \in vs : HashHeight(m)
    PROVE  /\ \A x \in Reached(e.prevotes) :
                 /\ x \in Blocks \cup {Nil} /\ (x # Nil => x[1] = e.height)
                 /\ \E Q \in SUBSET Validators : Cardinality(Q) >= Quorum
                       /\ \A u \in Q : MkVote("prevote", e.height, e.round, u, x) \in vs
           /\ \A x \in Reached(e.precommits) :
                 /\ x \in Blocks \cup {Nil} /\ (x # Nil => x[1] = e.height)
                 /\ \E Q \in SUBSET Validators : Cardinality(Q) >= Quorum
                       /\ \A u \in Q : MkVote("precommit", e.height, e.round, u, x) \in vs
<1>1. /\ e \in Engine /\ e.prevotes \in SUBSET (Validators \X (Blocks \cup {Nil}))
      /\ e.precommits \in SUBSET (Validators \X (Blocks \cup {Nil}))
    BY EngineFields DEF EngOK
<1>2. ASSUME NEW x \in Reached(e.prevotes)
      PROVE  /\ x \in Blocks \cup {Nil} /\ (x # Nil => x[1] = e.height)
             /\ \E Q \in SUBSET Validators : Cardinality(Q) >= Quorum
                   /\ \A u \in Q : MkVote("prevote", e.height, e.round, u, x) \in vs
    <2>1. x \in Blocks \cup {Nil}
        BY <1>1, ReachedVoters
    <2>2. PICK Q \in SUBSET Validators :
             Cardinality(Q) >= Quorum /\ \A u \in Q : <<u, x>> \in e.prevotes
        BY <1>1, ReachedVoters
    <2>3. \A u \in Q : MkVote("prevote", e.height, e.round, u, x) \in vs
        BY <2>2 DEF EngOK, TalliesSent
    <2>4. PICK u \in Q : u # x[3]
        BY <2>2, QuorumHasAnother
    <2>5. x # Nil => x[1] = e.height
        BY <2>3, <2>4, VoteFields DEF HashHeight
    <2> QED BY <2>1, <2>2, <2>3, <2>5
<1>3. ASSUME NEW x \in Reached(e.precommits)
      PROVE  /\ x \in Blocks \cup {Nil} /\ (x # Nil => x[1] = e.height)
             /\ \E Q \in SUBSET Validators : Cardinality(Q) >= Quorum
                   /\ \A u \in Q : MkVote("precommit", e.height, e.round, u, x) \in vs
    <2>1. x \in Blocks \cup {Nil}
        BY <1>1, ReachedVoters
    <2>2. PICK Q \in SUBSET Validators :
             Cardinality(Q) >= Quorum /\ \A u \in Q : <<u, x>> \in e.precommits
        BY <1>1, ReachedVoters
    <2>3. \A u \in Q : MkVote("precommit", e.height, e.round, u, x) \in vs
        BY <2>2 DEF EngOK, TalliesSent
    <2>4. PICK u \in Q : u # x[3]
        BY <2>2, QuorumHasAnother
    <2>5. x # Nil => x[1] = e.height
        BY <2>3, <2>4, VoteFields DEF HashHeight
    <2> QED BY <2>1, <2>2, <2>3, <2>5
<1> QED BY <1>2, <1>3
-----------------------------------------------------------------------------
\* What the goroutines of a node and its store know of each other.
NodeOK(e, l, h, c, t) ==
    /\ l.pc = "commit" => /\ h = "ready" /\ e.step \in {StepPropose, StepCommit}
                          /\ t >= e.height
    /\ h = "commit" => e.step = StepCommit
    /\ t > 0 => c[t] # Nil
    /\ l.pc \in {"pace", "build", "publish", "await"} => l.height \in Heights
    /\ l.pc = "publish" => l.prev # Nil

\* The base of all that follows.
BaseInv ==
    /\ TypeOK
    /\ \A m \in votes : HashHeight(m)
    /\ \A v \in Validators : EngOK(v, eng[v], votes, proposals, boots[v])
    /\ \A v \in Validators : NodeOK(eng[v], loop[v], handler[v], chain[v], tip[v])
    /\ \A v \in Validators \ Restartable : boots[v] = 0

\* A step touches the state of one node only.
Local(v) == \A u \in Validators \ {v} :
    /\ eng'[u] = eng[u] /\ loop'[u] = loop[u] /\ handler'[u] = handler[u]
    /\ chain'[u] = chain[u] /\ tip'[u] = tip[u] /\ boots'[u] = boots[u]

\* The engine before it votes: the messages of this step recorded.
Ready(v, e) == EngOK(v, e, votes, proposals, boots[v]) /\ Before(eng[v], e)

\* Move on in silence, prevote, precommit, or restart.
Voting(v) ==
    \/ /\ votes' = votes /\ boots' = boots /\ Before(eng[v], eng'[v])
       /\ EngOK(v, eng'[v], votes, proposals', boots[v])
    \/ /\ boots' = boots /\ proposals' = proposals
       /\ \E e \in Engine : Ready(v, e) /\ e.step = StepPropose /\ EnterPrevote(v, e)
    \/ /\ boots' = boots /\ proposals' = proposals
       /\ \E e \in Engine : /\ Ready(v, e) /\ e.step = StepPrevote
                            /\ \E x \in Reached(e.prevotes) \cup {Nil} : CastPrecommit(v, e, x)
    \/ /\ votes' = votes /\ v \in Restartable /\ boots'[v] # 0 /\ boots'[v] # boots[v]
       /\ EngOK(v, eng'[v], votes, proposals', boots'[v])

\* What any step of node v does.
Effect(v) ==
    /\ Local(v) /\ Voting(v) /\ proposals \subseteq proposals'
    /\ NodeOK(eng[v], loop[v], handler[v], chain[v], tip[v])'
    /\ TypeOK'

\* Before orders the engines of one life.
LEMMA BeforeTransitive ==
    ASSUME NEW c \in Engine, NEW d \in Engine, NEW e \in Engine, Before(c, d), Before(d, e)
    PROVE  Before(c, e)
<1>1. /\ e.height \in Nat /\ e.round \in Nat /\ e.step \in Nat
      /\ d.height \in Nat /\ d.round \in Nat /\ d.step \in Nat
      /\ c.height \in Nat /\ c.round \in Nat /\ c.step \in Nat
    BY EngineFields
<1> QED BY <1>1 DEF Before

\* An engine is not behind itself.
LEMMA BeforeReflexive ==
    ASSUME NEW e \in Engine PROVE Before(e, e)
BY EngineFields DEF Before

\* RunPropose only moves the loop.
LEMMA RunProposeEffect ==
    ASSUME BaseInv, NEW v \in Validators, RunPropose(v)
    PROVE  Effect(v)
<1> DEFINE e == eng[v]
           l == [pc |-> "pace", height |-> e.height, round |-> e.round, prev |-> Nil]
<1>1. e \in Engine /\ e.height \in Heights /\ e.round \in Rounds
    BY EngineFields, TypeFacts DEF BaseInv, TypeOK, RunPropose
<1>2. l \in LoopState /\ l.height \in Heights /\ l.pc = "pace"
    BY <1>1, TypeFacts DEF LoopState, Heights
<1>3. loop' = [loop EXCEPT ![v] = l]
    BY DEF RunPropose, LoopGoes
<1> HIDE DEF l
<1>4. /\ UNCHANGED <<eng, handler, lastVotes, jailed, boots, chain, tip, proposals, votes, announces>>
    BY DEF RunPropose, node, store
<1>5. TypeOK' /\ loop'[v] = l
    BY <1>2, <1>3, <1>4 DEF BaseInv, TypeOK
<1>6. Local(v)
    BY <1>3, <1>4 DEF Local, BaseInv, TypeOK
<1>7. Voting(v) /\ proposals \subseteq proposals'
    BY <1>1, <1>4, BeforeReflexive DEF Voting, BaseInv
<1>8. NodeOK(eng[v], loop[v], handler[v], chain[v], tip[v])'
    BY <1>2, <1>4, <1>5 DEF BaseInv, NodeOK
<1> QED BY <1>5, <1>6, <1>7, <1>8 DEF Effect

\* StartRound restarts the round of the engine or gives up.
LEMMA StartRoundEffect ==
    ASSUME BaseInv, NEW v \in Validators, StartRound(v)
    PROVE  Effect(v)
<1> DEFINE e == eng[v]
           l == loop[v]
           at == [l EXCEPT !.pc = IF Leader(v, l.height) = v THEN "build" ELSE "await"]
<1>1. e \in Engine /\ e.height <= MaxHeight /\ l \in LoopState /\ l.pc = "pace"
      /\ l.height \in Heights /\ EngOK(v, e, votes, proposals, boots[v])
    BY DEF BaseInv, TypeOK, StartRound, NodeOK
<1>2. UNCHANGED <<handler, lastVotes, jailed, boots, chain, tip, proposals, votes, announces>>
    BY DEF StartRound, node, store
<1>3. CASE /\ e.step \in {StepNewHeight, StepPropose}
           /\ eng' = [eng EXCEPT ![v] = Afresh(e)] /\ loop' = [loop EXCEPT ![v] = at]
    <2>1. at \in LoopState /\ at.pc \in {"build", "await"} /\ at.height = l.height
        BY <1>1 DEF LoopState
    <2> HIDE DEF at
    <2>2. Afresh(e) \in Engine /\ Before(e, Afresh(e))
          /\ EngOK(v, Afresh(e), votes, proposals, boots[v])
          /\ Afresh(e).step = StepPropose
        <3>1. Afresh(e) \in Engine /\ Afresh(e).step = StepPropose
            BY <1>1, StartRoundFields DEF Afresh
        <3> QED BY <1>1, <1>3, <3>1, AfreshKeeps DEF BaseInv, TypeOK
    <2>3. eng'[v] = Afresh(e) /\ loop'[v] = at
        BY <1>3 DEF BaseInv, TypeOK
    <2>4. TypeOK'
        BY <1>2, <1>3, <2>1, <2>2 DEF BaseInv, TypeOK
    <2>5. Local(v)
        BY <1>2, <1>3 DEF Local, BaseInv, TypeOK
    <2>6. Voting(v) /\ proposals \subseteq proposals'
        BY <1>2, <2>2, <2>3 DEF Voting
    <2>7. handler[v] = "ready"
        BY <1>3 DEF BaseInv, TypeOK, NodeOK, StepNewHeight, StepPropose, StepCommit
    <2>8. NodeOK(eng[v], loop[v], handler[v], chain[v], tip[v])'
        BY <1>1, <1>2, <2>1, <2>2, <2>3, <2>7 DEF BaseInv, NodeOK
    <2> QED BY <2>4, <2>5, <2>6, <2>8 DEF Effect
<1>4. CASE loop' = [loop EXCEPT ![v] = AtTop] /\ eng' = eng
    <2>1. AtTop \in LoopState /\ AtTop.pc = "top"
        BY TypeFacts, BoundsNat DEF AtTop, LoopState
    <2>2. loop'[v] = AtTop
        BY <1>4 DEF BaseInv, TypeOK
    <2>3. TypeOK'
        BY <1>2, <1>4, <2>1 DEF BaseInv, TypeOK
    <2>4. Local(v)
        BY <1>2, <1>4 DEF Local, BaseInv, TypeOK
    <2>5. Voting(v) /\ proposals \subseteq proposals'
        BY <1>1, <1>2, <1>4, BeforeReflexive DEF Voting
    <2>6. NodeOK(eng[v], loop[v], handler[v], chain[v], tip[v])'
        BY <1>2, <1>4, <2>1, <2>2 DEF BaseInv, NodeOK
    <2> QED BY <2>3, <2>4, <2>5, <2>6 DEF Effect
<1> QED BY <1>3, <1>4 DEF StartRound, Become, LoopGoes, Afresh

\* The tip's hash is a block or the genesis parent.
LEMMA TipHashType ==
    ASSUME BaseInv, NEW v \in Validators
    PROVE  TipHash(v) \in Blocks \cup {Genesis}
<1>1. tip[v] \in 0..MaxHeight
    BY DEF BaseInv, TypeOK
<1>2. CASE tip[v] = 0
    BY <1>2 DEF TipHash
<1>3. CASE tip[v] # 0
    <2>1. tip[v] \in Heights /\ tip[v] > 0
        BY <1>1, <1>3, BoundsNat DEF Heights
    <2>2. chain[v][tip[v]] \in Blocks \cup {Nil} /\ chain[v][tip[v]] # Nil
        BY <2>1 DEF BaseInv, TypeOK, NodeOK
    <2> QED BY <1>3, <2>2 DEF TipHash
<1> QED BY <1>2, <1>3

\* BuildProposal only moves the loop, with a parent that is no nil hash.
LEMMA BuildProposalEffect ==
    ASSUME BaseInv, NEW v \in Validators, BuildProposal(v)
    PROVE  Effect(v)
<1> DEFINE l == loop[v]
           pub == [l EXCEPT !.pc = "publish", !.prev = TipHash(v)]
           wait == [l EXCEPT !.pc = "await"]
<1>1. eng[v] \in Engine /\ l \in LoopState /\ l.pc = "build"
      /\ l.height \in Heights /\ EngOK(v, eng[v], votes, proposals, boots[v])
    BY DEF BaseInv, TypeOK, BuildProposal, NodeOK
<1>2. UNCHANGED <<eng, handler, lastVotes, jailed, boots, chain, tip, proposals, votes, announces>>
    BY DEF BuildProposal, node, store
<1>3. pub \in LoopState /\ pub.pc = "publish" /\ pub.height = l.height /\ pub.prev # Nil
    BY <1>1, TipHashType, TypeFacts DEF LoopState
<1>4. wait \in LoopState /\ wait.pc = "await" /\ wait.height = l.height
    BY <1>1 DEF LoopState
<1>5. loop' = [loop EXCEPT ![v] = pub] \/ loop' = [loop EXCEPT ![v] = wait]
    BY DEF BuildProposal, LoopGoes
<1> HIDE DEF pub, wait
<1>6. loop'[v] = pub \/ loop'[v] = wait
    BY <1>5 DEF BaseInv, TypeOK
<1>7. TypeOK'
    BY <1>2, <1>3, <1>4, <1>5 DEF BaseInv, TypeOK
<1>8. Local(v)
    BY <1>2, <1>5 DEF Local, BaseInv, TypeOK
<1>9. Voting(v) /\ proposals \subseteq proposals'
    BY <1>1, <1>2, BeforeReflexive DEF Voting
<1>10. NodeOK(eng[v], loop[v], handler[v], chain[v], tip[v])'
    BY <1>1, <1>2, <1>3, <1>4, <1>6 DEF BaseInv, NodeOK
<1> QED BY <1>7, <1>8, <1>9, <1>10 DEF Effect

\* PublishProposal gives the engine its own proposal.
LEMMA PublishProposalEffect ==
    ASSUME BaseInv, NEW v \in Validators, PublishProposal(v)
    PROVE  Effect(v)
<1> DEFINE e == eng[v]
           l == loop[v]
           p == [height |-> l.height, round |-> l.round, proposer |-> v,
                 boot |-> boots[v], prev |-> l.prev]
           d == [e EXCEPT !.proposal = p]
           wait == [l EXCEPT !.pc = "await", !.prev = Nil]
<1>1. e \in Engine /\ l \in LoopState /\ l.pc = "publish" /\ boots[v] \in Boots
      /\ l.height \in Heights /\ l.prev # Nil /\ EngOK(v, e, votes, proposals, boots[v])
    BY DEF BaseInv, TypeOK, PublishProposal, NodeOK
<1>2. UNCHANGED <<handler, lastVotes, jailed, boots, chain, tip, votes, announces>>
    BY DEF PublishProposal, node, store
<1>3. wait \in LoopState /\ wait.pc = "await" /\ wait.height = l.height
    BY <1>1 DEF LoopState
<1>4. p \in Proposal /\ p.proposer = v
    BY <1>1 DEF LoopState, Proposal
<1>5. /\ eng' = [eng EXCEPT ![v] = d] /\ loop' = [loop EXCEPT ![v] = wait]
      /\ proposals' = proposals \cup {p}
    BY DEF PublishProposal, LoopGoes, Become
<1> HIDE DEF p, wait
<1>6. EngOK(v, e, votes, proposals', boots[v])
    BY <1>1, <1>5, OthersKeep DEF BaseInv, TypeOK
<1>7. EngOK(v, d, votes, proposals', boots[v]) /\ Before(e, d) /\ d.step = e.step
      /\ d.height = e.height
    <2>1. votes \in SUBSET Vote /\ p \in proposals'
        BY <1>5 DEF BaseInv, TypeOK
    <2> HIDE DEF e
    <2> QED BY <1>4, <1>6, <2>1, ProposalKeeps
<1>8. d \in Engine
    BY <1>7 DEF EngOK
<1> HIDE DEF d
<1>9. eng'[v] = d /\ loop'[v] = wait
    BY <1>5 DEF BaseInv, TypeOK
<1>10. TypeOK'
    BY <1>2, <1>3, <1>4, <1>5, <1>8 DEF BaseInv, TypeOK
<1>11. Local(v)
    BY <1>2, <1>5 DEF Local, BaseInv, TypeOK
<1>12. Voting(v) /\ proposals \subseteq proposals'
    BY <1>2, <1>5, <1>7, <1>9 DEF Voting
<1>13. NodeOK(eng[v], loop[v], handler[v], chain[v], tip[v])'
    BY <1>1, <1>2, <1>3, <1>7, <1>9 DEF BaseInv, NodeOK
<1> QED BY <1>10, <1>11, <1>12, <1>13 DEF Effect

\* Casting a vote leaves the other nodes alone.
LEMMA CastEffect ==
    ASSUME BaseInv, NEW v \in Validators, NEW e, Ready(v, e),
           \/ e.step = StepPropose /\ EnterPrevote(v, e)
           \/ /\ e.step = StepPrevote
              /\ \E x \in Reached(e.prevotes) \cup {Nil} : CastPrecommit(v, e, x),
           boots' = boots, proposals' = proposals
    PROVE  /\ Voting(v) /\ eng' \in [Validators -> Engine] /\ votes' \in SUBSET Vote
           /\ \A u \in Validators \ {v} : eng'[u] = eng[u]
           /\ eng'[v].height = e.height /\ Before(e, eng'[v])
           /\ eng'[v].step \in {StepPrevote, StepPrecommit}
           /\ EngOK(v, eng'[v], votes', proposals, boots[v])
           /\ \A m \in votes' \ votes : m.voter = v /\ HashHeight(m)
           /\ votes \subseteq votes'
<1>1. e \in Engine /\ votes \in SUBSET Vote /\ eng \in [Validators -> Engine]
    BY DEF Ready, EngOK, BaseInv, TypeOK
<1>2. Voting(v)
    BY <1>1 DEF Voting
<1>3. CASE e.step = StepPropose /\ EnterPrevote(v, e)
    <2> DEFINE x == PrevoteHash(e)
               w == MkVote("prevote", e.height, e.round, v, x)
               d == Prevoted(v, e, x)
    <2>1. eng' = [eng EXCEPT ![v] = d] /\ votes' = votes \cup {w}
        BY <1>3 DEF EnterPrevote, Become, Prevoted
    <2>2. /\ w \in Vote /\ HashHeight(w) /\ w.voter = v
          /\ EngOK(v, d, votes \cup {w}, proposals, boots[v]) /\ Before(e, d)
          /\ d.step = StepPrevote /\ d.height = e.height
        <3>1. w.voter = v
            BY VoteFields
        <3>2. EngOK(v, e, votes, proposals, boots[v])
            BY DEF Ready
        <3> QED BY ONLY <1>1, <1>3, <3>1, <3>2, PrevoteKeeps
    <2>3. d \in Engine
        BY <2>2 DEF EngOK
    <2> HIDE DEF d, w
    <2>4. eng'[v] = d /\ \A u \in Validators \ {v} : eng'[u] = eng[u]
        BY <1>1, <2>1
    <2>5. eng' \in [Validators -> Engine]
        BY <1>1, <2>1, <2>3
    <2> QED BY <1>1, <1>2, <2>1, <2>2, <2>4, <2>5
<1>4. CASE /\ e.step = StepPrevote
           /\ \E x \in Reached(e.prevotes) \cup {Nil} : CastPrecommit(v, e, x)
    <2>1. PICK x \in Reached(e.prevotes) \cup {Nil} : CastPrecommit(v, e, x)
        BY <1>4
    <2> DEFINE w == MkVote("precommit", e.height, e.round, v, x)
               d == Precommitted(v, e, x)
    <2>2. eng' = [eng EXCEPT ![v] = d] /\ votes' = votes \cup {w}
        BY <2>1 DEF CastPrecommit, Become, Precommitted
    <2>3. x \in Blocks \cup {Nil} /\ (x # Nil => x[1] = e.height)
        <3>1. EngOK(v, e, votes, proposals, boots[v]) /\ \A m \in votes : HashHeight(m)
            BY DEF Ready, BaseInv
        <3>2. \A y \in Reached(e.prevotes) : y \in Blocks \cup {Nil} /\ (y # Nil => y[1] = e.height)
            BY <1>1, <3>1, ReachedSent
        <3> QED BY <3>2
    <2>4. /\ w \in Vote /\ HashHeight(w) /\ w.voter = v
          /\ EngOK(v, d, votes \cup {w}, proposals, boots[v]) /\ Before(e, d)
          /\ d.step = StepPrecommit /\ d.height = e.height
        <3>1. w.voter = v
            BY VoteFields
        <3>2. EngOK(v, e, votes, proposals, boots[v])
            BY DEF Ready
        <3>3. e.step = StepPrevote
            BY <1>4
        <3> QED BY ONLY <1>1, <2>3, <3>1, <3>2, <3>3, PrecommitKeeps
    <2>5. d \in Engine
        BY <2>4 DEF EngOK
    <2> HIDE DEF d, w
    <2>6. eng'[v] = d /\ \A u \in Validators \ {v} : eng'[u] = eng[u]
        BY <1>1, <2>2
    <2>7. eng' \in [Validators -> Engine]
        BY <1>1, <2>2, <2>5
    <2> QED BY <1>1, <1>2, <2>2, <2>4, <2>6, <2>7
<1> QED BY <1>3, <1>4

\* A vote in a node whose goroutines are not inside commitLocked.
LEMMA CastNodeEffect ==
    ASSUME BaseInv, NEW v \in Validators, NEW e, Ready(v, e),
           e.height = eng[v].height,
           \/ e.step = StepPropose /\ EnterPrevote(v, e)
           \/ /\ e.step = StepPrevote
              /\ \E x \in Reached(e.prevotes) \cup {Nil} : CastPrecommit(v, e, x),
           loop[v].pc # "commit", handler[v] = "ready",
           loop' = loop \/ loop' = [loop EXCEPT ![v] = AtTop],
           lastVotes' \in [Validators -> SUBSET Vote],
           jailed' \in [Validators -> SUBSET Validators],
           UNCHANGED <<handler, chain, tip, boots, proposals, announces>>
    PROVE  Effect(v)
<1>1. /\ Voting(v) /\ eng' \in [Validators -> Engine] /\ votes' \in SUBSET Vote
      /\ \A u \in Validators \ {v} : eng'[u] = eng[u]
    BY CastEffect
<1>2. AtTop \in LoopState /\ AtTop.pc = "top"
    BY TypeFacts, BoundsNat DEF AtTop, LoopState
<1>3. loop' \in [Validators -> LoopState] /\ \A u \in Validators \ {v} : loop'[u] = loop[u]
    BY <1>2 DEF BaseInv, TypeOK
<1>4. loop'[v] = loop[v] \/ loop'[v] = AtTop
    BY DEF BaseInv, TypeOK
<1>5. TypeOK'
    BY <1>1, <1>3 DEF BaseInv, TypeOK
<1>6. Local(v)
    BY <1>1, <1>3 DEF Local
<1>7. NodeOK(eng[v], loop[v], handler[v], chain[v], tip[v])'
    BY <1>2, <1>4 DEF BaseInv, NodeOK
<1> QED BY <1>1, <1>5, <1>6, <1>7 DEF Effect

\* EndPropose prevotes, unless the message goroutine did.
LEMMA EndProposeEffect ==
    ASSUME BaseInv, NEW v \in Validators, EndPropose(v)
    PROVE  Effect(v)
<1>1. UNCHANGED <<handler, lastVotes, jailed, boots, chain, tip, proposals, announces>>
      /\ loop' = [loop EXCEPT ![v] = AtTop] /\ loop[v].pc = "await"
    BY DEF EndPropose, node, store, LoopGoes
<1>2. eng[v] \in Engine /\ Ready(v, eng[v])
    BY BeforeReflexive DEF BaseInv, TypeOK, Ready
<1>3. CASE eng[v].step = StepPropose
    <2>1. EnterPrevote(v, eng[v])
        BY <1>3 DEF EndPropose
    <2>2. handler[v] = "ready"
        BY <1>3 DEF BaseInv, TypeOK, NodeOK, StepPropose, StepCommit
    <2>3. lastVotes' \in [Validators -> SUBSET Vote] /\ jailed' \in [Validators -> SUBSET Validators]
        BY <1>1 DEF BaseInv, TypeOK
    <2> QED BY <1>1, <1>2, <1>3, <2>1, <2>2, <2>3, CastNodeEffect
<1>4. CASE eng[v].step # StepPropose
    <2>1. UNCHANGED <<eng, votes>>
        BY <1>4 DEF EndPropose
    <2>2. AtTop \in LoopState /\ AtTop.pc = "top"
        BY TypeFacts, BoundsNat DEF AtTop, LoopState
    <2>3. loop'[v] = AtTop
        BY <1>1 DEF BaseInv, TypeOK
    <2>4. TypeOK'
        BY <1>1, <2>1, <2>2 DEF BaseInv, TypeOK
    <2>5. Local(v)
        BY <1>1, <2>1 DEF Local, BaseInv, TypeOK
    <2>6. Voting(v) /\ proposals \subseteq proposals'
        BY <1>1, <1>2, <2>1 DEF Voting, Ready
    <2>7. NodeOK(eng[v], loop[v], handler[v], chain[v], tip[v])'
        BY <1>1, <2>1, <2>2, <2>3 DEF BaseInv, NodeOK
    <2> QED BY <2>4, <2>5, <2>6, <2>7 DEF Effect
<1> QED BY <1>3, <1>4

\* runPrevote precommits what was reached, or nil.
LEMMA PrevoteStepEffect ==
    ASSUME BaseInv, NEW v \in Validators, PollPrevotes(v) \/ PrevoteTimeout(v)
    PROVE  Effect(v)
<1>1. UNCHANGED <<loop, handler, lastVotes, jailed, boots, chain, tip, proposals, announces>>
      /\ loop[v].pc = "top" /\ eng[v].step = StepPrevote
    BY DEF PollPrevotes, PrevoteTimeout, node, store
<1>2. eng[v] \in Engine /\ Ready(v, eng[v])
    BY BeforeReflexive DEF BaseInv, TypeOK, Ready
<1>3. \E x \in Reached(eng[v].prevotes) \cup {Nil} : CastPrecommit(v, eng[v], x)
    BY <1>1 DEF PollPrevotes, PrevoteTimeout, TryFinalizePrevotes
<1>4. handler[v] = "ready"
    BY <1>1 DEF BaseInv, TypeOK, NodeOK, StepPrevote, StepCommit
<1>5. lastVotes' \in [Validators -> SUBSET Vote] /\ jailed' \in [Validators -> SUBSET Validators]
    BY <1>1 DEF BaseInv, TypeOK
<1> QED BY <1>1, <1>2, <1>3, <1>4, <1>5, CastNodeEffect

\* SaveBlock writes one height of one store and its latest_height.
LEMMA SaveBlockFacts ==
    ASSUME TypeOK, NEW v \in Validators, NEW p \in Proposal, SaveBlock(v, p)
    PROVE  /\ chain' \in [Validators -> [Heights -> Blocks \cup {Nil}]]
           /\ tip' \in [Validators -> 0..MaxHeight]
           /\ tip'[v] = p.height /\ chain'[v][p.height] = BlockHash(p)
           /\ \A h \in Heights : h # p.height => chain'[v][h] = chain[v][h]
           /\ \A u \in Validators \ {v} : chain'[u] = chain[u] /\ tip'[u] = tip[u]
<1>1. p.height \in Heights /\ BlockHash(p) \in Blocks
    BY BlockHashFields
<1>2. p.height \in 0..MaxHeight
    BY <1>1, BoundsNat DEF Heights
<1>3. /\ chain' = [chain EXCEPT ![v] = [chain[v] EXCEPT ![p.height] = BlockHash(p)]]
      /\ tip' = [tip EXCEPT ![v] = p.height]
    BY DEF SaveBlock
<1>4. [chain[v] EXCEPT ![p.height] = BlockHash(p)] \in [Heights -> Blocks \cup {Nil}]
    BY <1>1 DEF TypeOK
<1> QED BY <1>1, <1>2, <1>3, <1>4 DEF TypeOK

\* A step that moves the engine of v without voting.
LEMMA QuietEffect ==
    ASSUME BaseInv, NEW v \in Validators,
           NEW d, Ready(v, d), eng' = [eng EXCEPT ![v] = d],
           UNCHANGED <<votes, boots, proposals>>,
           loop' \in [Validators -> LoopState], handler' \in [Validators -> {"ready", "commit"}],
           chain' \in [Validators -> [Heights -> Blocks \cup {Nil}]],
           tip' \in [Validators -> 0..MaxHeight],
           lastVotes' \in [Validators -> SUBSET Vote],
           jailed' \in [Validators -> SUBSET Validators],
           announces' \subseteq [block : Proposal, signer : Validators],
           \A u \in Validators \ {v} : /\ loop'[u] = loop[u] /\ handler'[u] = handler[u]
                                       /\ chain'[u] = chain[u] /\ tip'[u] = tip[u],
           NodeOK(d, loop'[v], handler'[v], chain'[v], tip'[v])
    PROVE  Effect(v)
<1>1. d \in Engine /\ EngOK(v, d, votes, proposals, boots[v]) /\ Before(eng[v], d)
    BY DEF Ready, EngOK
<1>2. eng' \in [Validators -> Engine] /\ eng'[v] = d
      /\ \A u \in Validators \ {v} : eng'[u] = eng[u]
    BY <1>1 DEF BaseInv, TypeOK
<1>3. TypeOK'
    BY <1>2 DEF BaseInv, TypeOK
<1>4. Local(v)
    BY <1>2 DEF Local
<1>5. Voting(v) /\ proposals \subseteq proposals'
    BY <1>1, <1>2 DEF Voting
<1>6. NodeOK(eng[v], loop[v], handler[v], chain[v], tip[v])'
    BY <1>2
<1> QED BY <1>3, <1>4, <1>5, <1>6 DEF Effect

\* What commitLocked does with the block at hand, for whichever goroutine calls it.
CommitsBlock(v, e) == /\ e.step = StepPrecommit
                      /\ \E x \in Reached(e.precommits) \ {Nil} :
                            /\ HasProposalOf(e, x) /\ SaveBlock(v, e.proposal)
                            /\ announces' = announces \cup {[block |-> e.proposal, signer |-> v]}
                            /\ Become(v, [e EXCEPT !.step = StepCommit])

\* The other outcomes of tryFinalizePrecommitsLocked.
CommitsNothing(v, e) ==
    /\ UNCHANGED <<store, announces, loop, handler>>
    /\ \/ e.step = StepPrecommit /\ Become(v, AdvanceHeight(e))
       \/ e.step = StepPrecommit /\ e.round < MaxRound /\ Become(v, NextRound(e))
       \/ Become(v, e)

\* A commit stores a known proposal that has its certificate.
LEMMA CommitsBlockFacts ==
    ASSUME BaseInv, NEW v \in Validators, NEW e, Ready(v, e), CommitsBlock(v, e)
    PROVE  /\ e.proposal \in Proposal /\ e.proposal \in proposals
           /\ e.proposal.height = e.height /\ SaveBlock(v, e.proposal)
           /\ announces' = announces \cup {[block |-> e.proposal, signer |-> v]}
           /\ announces' \subseteq [block : Proposal, signer : Validators]
           /\ Certified(e.height, BlockHash(e.proposal))
           /\ LET d == [e EXCEPT !.step = StepCommit] IN
              /\ eng' = [eng EXCEPT ![v] = d] /\ Ready(v, d)
              /\ d.step = StepCommit /\ d.height = e.height
<1>1. PICK x \in Reached(e.precommits) \ {Nil} :
         /\ HasProposalOf(e, x) /\ SaveBlock(v, e.proposal)
         /\ announces' = announces \cup {[block |-> e.proposal, signer |-> v]}
         /\ Become(v, [e EXCEPT !.step = StepCommit])
    BY DEF CommitsBlock
<1>2. e \in Engine /\ EngOK(v, e, votes, proposals, boots[v]) /\ Before(eng[v], e)
      /\ eng[v] \in Engine /\ votes \in SUBSET Vote /\ (\A m \in votes : HashHeight(m))
      /\ e.step = StepPrecommit
    BY DEF Ready, EngOK, BaseInv, TypeOK, CommitsBlock
<1>3. e.proposal \in Proposal /\ e.proposal \in proposals /\ BlockHash(e.proposal) = x
    BY <1>1, <1>2, EngineFields DEF HasProposalOf, EngOK, ProposalKnown
<1>4. /\ x[1] = e.height
      /\ \E Q \in SUBSET Validators : Cardinality(Q) >= Quorum
            /\ \A u \in Q : MkVote("precommit", e.height, e.round, u, x) \in votes
    <2>1. x \in Reached(e.precommits) /\ x # Nil
        OBVIOUS
    <2> QED BY <1>2, <2>1, ReachedSent
<1>5. e.proposal.height = e.height
    BY <1>3, <1>4, BlockHashFields
<1>6. Certified(e.height, x)
    <2> DEFINE W == {u \in Validators : MkVote("precommit", e.height, e.round, u, x) \in votes}
    <2>1. PICK Q \in SUBSET Validators : Cardinality(Q) >= Quorum
            /\ \A u \in Q : MkVote("precommit", e.height, e.round, u, x) \in votes
        BY <1>4
    <2>2. Q \subseteq W /\ W \subseteq Validators
        BY <2>1
    <2>3. IsFiniteSet(W)
        BY SeveralValidators, FS_Subset
    <2>4. Cardinality(Q) <= Cardinality(W) /\ IsFiniteSet(Q)
        <3> HIDE DEF W
        <3> QED BY <2>2, <2>3, FS_Subset
    <2>5. Cardinality(W) >= Quorum
        <3>1. Cardinality(Q) \in Nat /\ Cardinality(W) \in Nat
            BY <2>3, <2>4, FS_CardinalityType
        <3> HIDE DEF W
        <3> QED BY <2>1, <2>4, <3>1, QuorumFacts
    <2>6. e.round \in Rounds
        BY <1>2, EngineFields
    <2> QED BY <2>5, <2>6 DEF Certified
<1>7. LET d == [e EXCEPT !.step = StepCommit] IN
      /\ EngOK(v, d, votes, proposals, boots[v]) /\ Before(e, d)
      /\ d.step = StepCommit /\ d.height = e.height
    BY <1>2, StepCommitKeeps
<1>8. LET d == [e EXCEPT !.step = StepCommit] IN
      /\ eng' = [eng EXCEPT ![v] = d] /\ Ready(v, d)
      /\ d.step = StepCommit /\ d.height = e.height
    <2> DEFINE d == [e EXCEPT !.step = StepCommit]
    <2>1. eng' = [eng EXCEPT ![v] = d]
        BY <1>1 DEF Become
    <2>2. EngOK(v, d, votes, proposals, boots[v]) /\ Before(e, d)
          /\ d.step = StepCommit /\ d.height = e.height
        BY <1>7
    <2> HIDE DEF d
    <2>3. Before(eng[v], d)
        BY <1>2, <2>2, BeforeTransitive DEF EngOK
    <2>4. Ready(v, d)
        BY <2>2, <2>3 DEF Ready
    <2> QED BY <2>1, <2>2, <2>4 DEF d
<1>9. announces' \subseteq [block : Proposal, signer : Validators]
    BY <1>1, <1>3 DEF BaseInv, TypeOK
<1> QED BY <1>1, <1>3, <1>5, <1>6, <1>8, <1>9

\* Without a commit the engine stays or starts a height or a round.
LEMMA CommitsNothingFacts ==
    ASSUME BaseInv, NEW v \in Validators, NEW e, Ready(v, e), CommitsNothing(v, e)
    PROVE  \E d : /\ eng' = [eng EXCEPT ![v] = d] /\ Ready(v, d)
                  /\ d = e \/ (e.step = StepPrecommit /\ d.step = StepNewHeight)
<1>1. e \in Engine /\ EngOK(v, e, votes, proposals, boots[v]) /\ Before(eng[v], e)
      /\ eng[v] \in Engine /\ votes \in SUBSET Vote
    BY DEF Ready, EngOK, BaseInv, TypeOK
<1>2. ASSUME NEW d, EngOK(v, d, votes, proposals, boots[v]), Before(e, d) PROVE Ready(v, d)
    BY <1>1, <1>2, BeforeTransitive DEF Ready, EngOK
<1>3. CASE e.step = StepPrecommit /\ Become(v, AdvanceHeight(e))
    <2>1. e.height <= MaxHeight
        BY <1>1, <1>3 DEF EngOK, Entered, StepPrecommit, StepNewHeight
    <2>2. EngOK(v, AdvanceHeight(e), votes, proposals, boots[v]) /\ Before(e, AdvanceHeight(e))
          /\ AdvanceHeight(e).step = StepNewHeight
        BY <1>1, <2>1, AdvanceKeeps
    <2> QED BY <1>2, <1>3, <2>2 DEF Become
<1>4. CASE e.step = StepPrecommit /\ e.round < MaxRound /\ Become(v, NextRound(e))
    <2>1. EngOK(v, NextRound(e), votes, proposals, boots[v]) /\ Before(e, NextRound(e))
        BY <1>1, <1>4, NextRoundKeeps
    <2>2. NextRound(e).step = StepNewHeight
        BY <1>1, <1>4, NextRoundFields
    <2> QED BY <1>2, <1>4, <2>1, <2>2 DEF Become
<1>5. CASE Become(v, e)
    BY <1>5 DEF Become
<1> QED BY <1>3, <1>4, <1>5 DEF CommitsNothing

\* PollPrecommits commits and pauses, or commits nothing.
LEMMA PollPrecommitsForm ==
    ASSUME NEW v \in Validators, PollPrecommits(v)
    PROVE  /\ loop[v].pc = "top" /\ eng[v].step = StepPrecommit
           /\ UNCHANGED <<lastVotes, jailed, boots, proposals, votes>>
           /\ \/ /\ CommitsBlock(v, eng[v]) /\ UNCHANGED handler
                 /\ loop' = [loop EXCEPT ![v] = [AtTop EXCEPT !.pc = "commit"]]
              \/ CommitsNothing(v, eng[v])
BY DEF PollPrecommits, TryFinalizePrecommits, Commit, CommitsBlock, CommitsNothing, LoopGoes, node

\* The loop at its top and in its pause.
LEMMA AtTopFacts ==
    /\ AtTop \in LoopState /\ AtTop.pc = "top" /\ AtTop.height = 0
    /\ [AtTop EXCEPT !.pc = "commit"] \in LoopState
    /\ [AtTop EXCEPT !.pc = "commit"].pc = "commit"
<1>1. 0 \in 0..MaxHeight
    BY BoundsNat
<1> QED BY <1>1, TypeFacts DEF AtTop, LoopState

\* runPrecommit moves the engine without a vote.
LEMMA PollPrecommitsEffect ==
    ASSUME BaseInv, NEW v \in Validators, PollPrecommits(v)
    PROVE  Effect(v)
<1> DEFINE e == eng[v]
           at == [AtTop EXCEPT !.pc = "commit"]
<1>1. /\ loop[v].pc = "top" /\ e.step = StepPrecommit
      /\ UNCHANGED <<lastVotes, jailed, boots, proposals, votes>>
    BY PollPrecommitsForm
<1>2. e \in Engine /\ Ready(v, e)
    BY BeforeReflexive DEF BaseInv, TypeOK, Ready
<1>3. handler[v] = "ready"
    BY <1>1 DEF BaseInv, TypeOK, NodeOK, StepPrecommit, StepCommit
<1>4. lastVotes' \in [Validators -> SUBSET Vote] /\ jailed' \in [Validators -> SUBSET Validators]
    BY <1>1 DEF BaseInv, TypeOK
<1>5. CASE CommitsBlock(v, e) /\ UNCHANGED handler /\ loop' = [loop EXCEPT ![v] = at]
    <2> DEFINE d == [e EXCEPT !.step = StepCommit]
               p == e.proposal
    <2>1. /\ p \in Proposal /\ p.height = e.height /\ SaveBlock(v, p)
          /\ announces' \subseteq [block : Proposal, signer : Validators]
          /\ eng' = [eng EXCEPT ![v] = d] /\ Ready(v, d)
          /\ d.step = StepCommit /\ d.height = e.height
        BY <1>2, <1>5, CommitsBlockFacts
    <2>2. /\ chain' \in [Validators -> [Heights -> Blocks \cup {Nil}]]
          /\ tip' \in [Validators -> 0..MaxHeight]
          /\ tip'[v] = p.height /\ chain'[v][p.height] = BlockHash(p)
          /\ \A u \in Validators \ {v} : chain'[u] = chain[u] /\ tip'[u] = tip[u]
        BY <2>1, SaveBlockFacts DEF BaseInv
    <2>3. BlockHash(p) # Nil /\ e.height \in Nat
        BY <1>2, <2>1, BlockHashFields, EngineFields
    <2>4. /\ loop' \in [Validators -> LoopState] /\ loop'[v] = at /\ at.pc = "commit"
          /\ \A u \in Validators \ {v} : loop'[u] = loop[u]
        BY <1>5, AtTopFacts DEF BaseInv, TypeOK
    <2>5. handler' \in [Validators -> {"ready", "commit"}]
        BY <1>5 DEF BaseInv, TypeOK
    <2> HIDE DEF d, at, e, p
    <2>6. NodeOK(d, loop'[v], handler'[v], chain'[v], tip'[v])
        BY <1>3, <1>5, <2>1, <2>2, <2>3, <2>4 DEF NodeOK
    <2> QED BY <1>1, <1>4, <1>5, <2>1, <2>2, <2>4, <2>5, <2>6, QuietEffect
<1>6. CASE CommitsNothing(v, e)
    <2>1. PICK d : /\ eng' = [eng EXCEPT ![v] = d] /\ Ready(v, d)
                   /\ d = e \/ (e.step = StepPrecommit /\ d.step = StepNewHeight)
        BY <1>2, <1>6, CommitsNothingFacts
    <2>2. UNCHANGED <<chain, tip, announces, loop, handler>>
        BY <1>6 DEF CommitsNothing, store
    <2>3. NodeOK(d, loop'[v], handler'[v], chain'[v], tip'[v])
        BY <1>1, <1>3, <2>2 DEF BaseInv, NodeOK
    <2>4. /\ loop' \in [Validators -> LoopState] /\ handler' \in [Validators -> {"ready", "commit"}]
          /\ chain' \in [Validators -> [Heights -> Blocks \cup {Nil}]]
          /\ tip' \in [Validators -> 0..MaxHeight]
          /\ announces' \subseteq [block : Proposal, signer : Validators]
        BY <2>2 DEF BaseInv, TypeOK
    <2> QED BY <1>1, <1>4, <2>1, <2>2, <2>3, <2>4, QuietEffect
<1> QED BY <1>5, <1>6, PollPrecommitsForm

\* A precommit timeout leaves the round.
LEMMA PrecommitTimeoutEffect ==
    ASSUME BaseInv, NEW v \in Validators, PrecommitTimeout(v)
    PROVE  Effect(v)
<1>1. /\ loop[v].pc = "top" /\ eng[v].step = StepPrecommit
      /\ eng[v].round < MaxRound /\ eng' = [eng EXCEPT ![v] = NextRound(eng[v])]
      /\ UNCHANGED <<loop, handler, lastVotes, jailed, boots, chain, tip, proposals, votes, announces>>
    BY DEF PrecommitTimeout, node, store, Become
<1>2. eng[v] \in Engine /\ EngOK(v, eng[v], votes, proposals, boots[v]) /\ votes \in SUBSET Vote
    BY DEF BaseInv, TypeOK
<1>3. Ready(v, NextRound(eng[v]))
    BY <1>1, <1>2, NextRoundKeeps DEF Ready
<1>4. handler[v] = "ready"
    BY <1>1 DEF BaseInv, TypeOK, NodeOK, StepPrecommit, StepCommit
<1>5. NodeOK(NextRound(eng[v]), loop'[v], handler'[v], chain'[v], tip'[v])
    BY <1>1, <1>4 DEF BaseInv, NodeOK
<1>6. TypeOK /\ UNCHANGED <<loop, handler, lastVotes, jailed, chain, tip, announces>> =>
          /\ loop' \in [Validators -> LoopState] /\ handler' \in [Validators -> {"ready", "commit"}]
          /\ chain' \in [Validators -> [Heights -> Blocks \cup {Nil}]]
          /\ tip' \in [Validators -> 0..MaxHeight]
          /\ announces' \subseteq [block : Proposal, signer : Validators]
          /\ lastVotes' \in [Validators -> SUBSET Vote]
          /\ jailed' \in [Validators -> SUBSET Validators]
    BY DEF TypeOK
<1>7. TypeOK
    BY DEF BaseInv
<1> QED BY <1>1, <1>3, <1>5, <1>6, <1>7, QuietEffect

\* The loop's pause ends with the next height, even if the round was adopted meanwhile.
LEMMA LoopEndsCommitEffect ==
    ASSUME BaseInv, NEW v \in Validators, LoopEndsCommit(v)
    PROVE  Effect(v)
<1>1. /\ loop[v].pc = "commit" /\ eng' = [eng EXCEPT ![v] = AdvanceHeight(eng[v])]
      /\ loop' = [loop EXCEPT ![v] = AtTop]
      /\ UNCHANGED <<handler, lastVotes, jailed, boots, chain, tip, proposals, votes, announces>>
    BY DEF LoopEndsCommit, node, store, Become, LoopGoes
<1>2. eng[v] \in Engine /\ EngOK(v, eng[v], votes, proposals, boots[v]) /\ votes \in SUBSET Vote
    BY DEF BaseInv, TypeOK
<1>3. handler[v] = "ready" /\ eng[v].step \in {StepPropose, StepCommit}
    BY <1>1 DEF BaseInv, NodeOK
<1>4. eng[v].height <= MaxHeight
    BY <1>2, <1>3 DEF EngOK, Entered, StepPropose, StepCommit, StepNewHeight
<1>5. Ready(v, AdvanceHeight(eng[v]))
    BY <1>2, <1>4, AdvanceKeeps DEF Ready
<1>6. loop'[v] = AtTop /\ loop' \in [Validators -> LoopState]
      /\ \A u \in Validators \ {v} : loop'[u] = loop[u]
    BY <1>1, AtTopFacts DEF BaseInv, TypeOK
<1>7. NodeOK(AdvanceHeight(eng[v]), loop'[v], handler'[v], chain'[v], tip'[v])
    BY <1>1, <1>3, <1>6, AtTopFacts DEF BaseInv, NodeOK
<1>8. /\ handler' \in [Validators -> {"ready", "commit"}]
      /\ chain' \in [Validators -> [Heights -> Blocks \cup {Nil}]]
      /\ tip' \in [Validators -> 0..MaxHeight]
      /\ announces' \subseteq [block : Proposal, signer : Validators]
      /\ lastVotes' \in [Validators -> SUBSET Vote]
      /\ jailed' \in [Validators -> SUBSET Validators]
    BY <1>1 DEF BaseInv, TypeOK
<1> QED BY <1>1, <1>5, <1>6, <1>7, <1>8, QuietEffect

\* The message goroutine's pause ends with the next height.
LEMMA HandlerEndsCommitEffect ==
    ASSUME BaseInv, NEW v \in Validators, HandlerEndsCommit(v)
    PROVE  Effect(v)
<1>1. /\ handler[v] = "commit" /\ eng' = [eng EXCEPT ![v] = AdvanceHeight(eng[v])]
      /\ handler' = [handler EXCEPT ![v] = "ready"]
      /\ UNCHANGED <<loop, lastVotes, jailed, boots, chain, tip, proposals, votes, announces>>
    BY DEF HandlerEndsCommit, node, store, Become
<1>2. eng[v] \in Engine /\ EngOK(v, eng[v], votes, proposals, boots[v]) /\ votes \in SUBSET Vote
    BY DEF BaseInv, TypeOK
<1>3. loop[v].pc # "commit" /\ eng[v].step = StepCommit
    BY <1>1 DEF BaseInv, NodeOK
<1>4. eng[v].height <= MaxHeight
    BY <1>2, <1>3 DEF EngOK, Entered, StepCommit, StepNewHeight
<1>5. Ready(v, AdvanceHeight(eng[v]))
    BY <1>2, <1>4, AdvanceKeeps DEF Ready
<1>6. handler'[v] = "ready" /\ handler' \in [Validators -> {"ready", "commit"}]
      /\ \A u \in Validators \ {v} : handler'[u] = handler[u]
    BY <1>1 DEF BaseInv, TypeOK
<1>7. NodeOK(AdvanceHeight(eng[v]), loop'[v], handler'[v], chain'[v], tip'[v])
    BY <1>1, <1>3, <1>6 DEF BaseInv, NodeOK
<1>8. /\ loop' \in [Validators -> LoopState]
      /\ chain' \in [Validators -> [Heights -> Blocks \cup {Nil}]]
      /\ tip' \in [Validators -> 0..MaxHeight]
      /\ announces' \subseteq [block : Proposal, signer : Validators]
      /\ lastVotes' \in [Validators -> SUBSET Vote]
      /\ jailed' \in [Validators -> SUBSET Validators]
    BY <1>1 DEF BaseInv, TypeOK
<1> QED BY <1>1, <1>5, <1>6, <1>7, <1>8, QuietEffect

\* Following a higher round: allowed in every state a message may find the node in.
LEMMA AdoptNode ==
    ASSUME BaseInv, NEW v \in Validators, NEW r \in Rounds,
           handler[v] = "ready", eng[v].height \in Heights
    PROVE  LET e == AdoptNewer(eng[v], r) IN
           /\ Ready(v, e) /\ e \in Engine /\ e.height = eng[v].height /\ r <= e.round
           /\ e = eng[v] \/ (r > eng[v].round /\ e = AdoptRound(eng[v], r) /\ e.step = StepPropose)
           /\ loop[v].pc = "commit" =>
                  e.step \in {StepPropose, StepCommit} /\ tip[v] >= e.height
<1> DEFINE e == AdoptNewer(eng[v], r)
<1>1. eng[v] \in Engine /\ EngOK(v, eng[v], votes, proposals, boots[v]) /\ votes \in SUBSET Vote
    BY DEF BaseInv, TypeOK
<1>2. eng[v].height <= MaxHeight
    BY BoundsNat DEF Heights
<1>3. /\ EngOK(v, e, votes, proposals, boots[v]) /\ Before(eng[v], e)
      /\ e.height = eng[v].height /\ r <= e.round
      /\ e = eng[v] \/ (r > eng[v].round /\ e = AdoptRound(eng[v], r))
    BY <1>1, <1>2, AdoptKeeps
<1>4. AdoptRound(eng[v], r).step = StepPropose
    BY <1>1, AdoptFields
<1> HIDE DEF e
<1>5. e \in Engine /\ Ready(v, e)
    BY <1>3 DEF EngOK, Ready
<1>6. loop[v].pc = "commit" => eng[v].step \in {StepPropose, StepCommit} /\ tip[v] >= eng[v].height
    BY DEF BaseInv, NodeOK
<1>7. e = eng[v] \/ (r > eng[v].round /\ e = AdoptRound(eng[v], r) /\ e.step = StepPropose)
    BY <1>3, <1>4
<1>8. loop[v].pc = "commit" => e.step \in {StepPropose, StepCommit} /\ tip[v] >= e.height
    BY <1>3, <1>6, <1>7
<1> QED BY <1>3, <1>5, <1>7, <1>8 DEF e

\* The engine moved inside a message handler, nothing stored.
LEMMA HandlerQuiet ==
    ASSUME BaseInv, NEW v \in Validators, handler[v] = "ready",
           NEW d, Ready(v, d), eng' = [eng EXCEPT ![v] = d],
           UNCHANGED <<votes, boots, proposals, loop, handler, chain, tip, announces>>,
           lastVotes' \in [Validators -> SUBSET Vote],
           jailed' \in [Validators -> SUBSET Validators],
           loop[v].pc = "commit" => d.step \in {StepPropose, StepCommit} /\ tip[v] >= d.height
    PROVE  Effect(v)
<1>1. NodeOK(d, loop'[v], handler'[v], chain'[v], tip'[v])
    BY DEF BaseInv, NodeOK
<1>2. /\ loop' \in [Validators -> LoopState] /\ handler' \in [Validators -> {"ready", "commit"}]
      /\ chain' \in [Validators -> [Heights -> Blocks \cup {Nil}]]
      /\ tip' \in [Validators -> 0..MaxHeight]
      /\ announces' \subseteq [block : Proposal, signer : Validators]
    BY DEF BaseInv, TypeOK
<1> QED BY <1>1, <1>2, QuietEffect

\* HandleProposal follows the round, and may take the proposal and prevote it.
LEMMA HandleProposalEffect ==
    ASSUME BaseInv, NEW v \in Validators, NEW p \in proposals, HandleProposal(v, p)
    PROVE  Effect(v)
<1> DEFINE e == AdoptNewer(eng[v], p.round)
           d == [e EXCEPT !.proposal = p]
           accepted == Leader(v, p.height) = p.proposer /\ ValidProposal(v, p)
<1>1. /\ handler[v] = "ready" /\ p.height = eng[v].height
      /\ UNCHANGED <<loop, handler, lastVotes, jailed, boots, chain, tip, proposals, announces>>
    BY DEF HandleProposal, node, store
<1>2. p \in Proposal /\ p.height \in Heights /\ p.round \in Rounds
    BY BlockHashFields DEF BaseInv, TypeOK
<1>3. /\ Ready(v, e) /\ e \in Engine /\ e.height = eng[v].height
      /\ loop[v].pc = "commit" => e.step \in {StepPropose, StepCommit} /\ tip[v] >= e.height
    BY <1>1, <1>2, AdoptNode
<1>4. lastVotes' \in [Validators -> SUBSET Vote] /\ jailed' \in [Validators -> SUBSET Validators]
    BY <1>1 DEF BaseInv, TypeOK
<1>5. \/ eng' = [eng EXCEPT ![v] = e] /\ UNCHANGED votes
      \/ e.step = StepNewHeight /\ accepted /\ eng' = [eng EXCEPT ![v] = d] /\ UNCHANGED votes
      \/ e.step = StepPropose /\ accepted /\ EnterPrevote(v, d)
    BY DEF HandleProposal, Become
<1> HIDE DEF e
<1>6. /\ EngOK(v, d, votes, proposals, boots[v]) /\ Before(e, d)
      /\ d.step = e.step /\ d.height = e.height
    <2>1. EngOK(v, e, votes, proposals, boots[v]) /\ votes \in SUBSET Vote
        BY <1>3 DEF Ready, BaseInv, TypeOK
    <2>2. p.height = e.height
        BY <1>1, <1>3
    <2> QED BY <1>2, <2>1, <2>2, ProposalKeeps
<1> HIDE DEF d
<1>7. Ready(v, d)
    <2>1. d \in Engine /\ eng[v] \in Engine
        BY <1>6 DEF EngOK, BaseInv, TypeOK
    <2> QED BY <1>3, <1>6, <2>1, BeforeTransitive DEF Ready
<1>8. accepted => loop[v].pc # "commit"
    <2>1. accepted => p.height = tip[v] + 1
        BY DEF ValidProposal
    <2>2. tip[v] \in Nat /\ p.height \in Nat
        <3>1. tip[v] \in 0..MaxHeight
            BY DEF BaseInv, TypeOK
        <3>2. tip[v] \in Nat
            BY <3>1, BoundsNat
        <3> QED BY <1>2, <3>2, TypeFacts
    <2> HIDE DEF accepted
    <2> QED BY <1>1, <1>3, <2>1, <2>2
<1> HIDE DEF accepted
<1>9. CASE eng' = [eng EXCEPT ![v] = e] /\ UNCHANGED votes
    BY <1>1, <1>3, <1>4, <1>9, HandlerQuiet
<1>10. CASE /\ e.step = StepNewHeight /\ accepted
            /\ eng' = [eng EXCEPT ![v] = d] /\ UNCHANGED votes
    BY <1>1, <1>4, <1>7, <1>8, <1>10, HandlerQuiet
<1>11. CASE e.step = StepPropose /\ accepted /\ EnterPrevote(v, d)
    BY <1>1, <1>3, <1>4, <1>6, <1>7, <1>8, <1>11, CastNodeEffect
<1> QED BY <1>5, <1>9, <1>10, <1>11

\* The message of an outsider may move the round and nothing else.
LEMMA FollowOutsiderEffect ==
    ASSUME BaseInv, NEW v \in Validators, NEW o \in Outside, FollowOutsider(v, o[1], o[2])
    PROVE  Effect(v)
<1>1. o[1] \in Heights /\ o[2] \in Rounds
    BY OutsideType
<1>2. /\ handler[v] = "ready" /\ o[1] = eng[v].height /\ o[2] > eng[v].round
      /\ eng' = [eng EXCEPT ![v] = AdoptRound(eng[v], o[2])]
      /\ UNCHANGED <<loop, handler, lastVotes, jailed, boots, chain, tip, proposals, votes, announces>>
    BY DEF FollowOutsider, Become, node, store
<1> DEFINE e == AdoptNewer(eng[v], o[2])
<1>3. e = AdoptRound(eng[v], o[2])
    BY <1>2 DEF AdoptNewer
<1>4. /\ Ready(v, e)
      /\ loop[v].pc = "commit" => e.step \in {StepPropose, StepCommit} /\ tip[v] >= e.height
    BY <1>1, <1>2, AdoptNode
<1>5. lastVotes' \in [Validators -> SUBSET Vote] /\ jailed' \in [Validators -> SUBSET Validators]
    BY <1>2 DEF BaseInv, TypeOK
<1>6. eng' = [eng EXCEPT ![v] = e]
    BY <1>2, <1>3
<1> HIDE DEF e
<1> QED BY <1>2, <1>4, <1>5, <1>6, HandlerQuiet

\* The double-sign detection keeps the types.
LEMMA ObserveTypes ==
    ASSUME TypeOK, NEW v \in Validators, NEW m \in Vote, Observe(v, m)
    PROVE  /\ lastVotes' \in [Validators -> SUBSET Vote]
           /\ jailed' \in [Validators -> SUBSET Validators]
           /\ boots' = boots
<1>1. m.voter \in Validators
    BY VoteIsMkVote
<1> QED BY <1>1 DEF TypeOK, Observe, Jail

\* The outcomes of HandleVote.
LEMMA HandleVoteForm ==
    ASSUME NEW v \in Validators, NEW m \in votes, HandleVote(v, m)
    PROVE  LET e == AdoptNewer(eng[v], m.round)
               pv == AddPrevote(e, m)
               pc == AddPrecommit(e, m) IN
           /\ handler[v] = "ready" /\ m.height = eng[v].height /\ m.voter \notin jailed[v]
           /\ m.voter # v /\ Observe(v, m) /\ UNCHANGED proposals
           /\ \/ /\ m.type = "prevote" /\ m.round = e.round
                 /\ TryFinalizePrevotes(v, pv)
                 /\ UNCHANGED <<loop, handler, chain, tip, announces>>
              \/ /\ m.type = "precommit" /\ m.round = e.round
                 /\ CommitsBlock(v, pc) /\ UNCHANGED loop
                 /\ handler' = [handler EXCEPT ![v] = "commit"]
                 /\ UNCHANGED votes
              \/ /\ m.type = "precommit" /\ m.round = e.round
                 /\ CommitsNothing(v, pc) /\ UNCHANGED votes
              \/ /\ Become(v, e) /\ UNCHANGED <<loop, handler, chain, tip, votes, announces>>
<1> DEFINE e == AdoptNewer(eng[v], m.round)
           pv == AddPrevote(e, m)
           pc == AddPrecommit(e, m)
           atPause == handler' = [handler EXCEPT ![v] = "commit"] /\ UNCHANGED loop
<1>1. /\ handler[v] = "ready" /\ m.height = eng[v].height /\ m.voter \notin jailed[v]
      /\ m.voter # v /\ Observe(v, m) /\ UNCHANGED proposals
    BY DEF HandleVote
<1>2. \/ /\ m.type = "prevote" /\ m.round = e.round
         /\ TryFinalizePrevotes(v, pv)
         /\ UNCHANGED <<loop, handler, chain, tip, announces>>
      \/ /\ m.type = "precommit" /\ m.round = e.round
         /\ TryFinalizePrecommits(v, pc, atPause) /\ UNCHANGED votes
      \/ /\ Become(v, e) /\ UNCHANGED <<loop, handler, chain, tip, votes, announces>>
    BY DEF HandleVote, store, AddPrevote, AddPrecommit
<1> HIDE DEF pc
<1>3. TryFinalizePrecommits(v, pc, atPause) =>
         \/ /\ CommitsBlock(v, pc) /\ UNCHANGED loop
            /\ handler' = [handler EXCEPT ![v] = "commit"]
         \/ CommitsNothing(v, pc)
    BY DEF TryFinalizePrecommits, Commit, CommitsBlock, CommitsNothing
<1> HIDE DEF e, pv, atPause
<1>4. \/ /\ m.type = "prevote" /\ m.round = e.round
         /\ TryFinalizePrevotes(v, pv)
         /\ UNCHANGED <<loop, handler, chain, tip, announces>>
      \/ /\ m.type = "precommit" /\ m.round = e.round
         /\ CommitsBlock(v, pc) /\ UNCHANGED loop
         /\ handler' = [handler EXCEPT ![v] = "commit"]
         /\ UNCHANGED votes
      \/ /\ m.type = "precommit" /\ m.round = e.round
         /\ CommitsNothing(v, pc) /\ UNCHANGED votes
      \/ /\ Become(v, e) /\ UNCHANGED <<loop, handler, chain, tip, votes, announces>>
    BY <1>2, <1>3
<1> QED BY <1>1, <1>4 DEF e, pv, pc

\* HandleVote follows the round, counts the vote and may precommit or commit.
LEMMA HandleVoteEffect ==
    ASSUME BaseInv, NEW v \in Validators, NEW m \in votes, HandleVote(v, m)
    PROVE  Effect(v)
<1> DEFINE e == AdoptNewer(eng[v], m.round)
           pv == AddPrevote(e, m)
           pc == AddPrecommit(e, m)
<1>1. /\ handler[v] = "ready" /\ m.height = eng[v].height
      /\ Observe(v, m) /\ UNCHANGED proposals
    BY HandleVoteForm
<1>2. m \in Vote /\ m.height \in Heights /\ m.round \in Rounds
    BY VoteIsMkVote DEF BaseInv, TypeOK
<1>3. /\ Ready(v, e) /\ e \in Engine /\ e.height = eng[v].height
      /\ loop[v].pc = "commit" => e.step \in {StepPropose, StepCommit} /\ tip[v] >= e.height
    BY <1>1, <1>2, AdoptNode
<1>4. /\ lastVotes' \in [Validators -> SUBSET Vote] /\ jailed' \in [Validators -> SUBSET Validators]
      /\ boots' = boots
    BY <1>1, <1>2, ObserveTypes DEF BaseInv
<1>5. \/ /\ m.type = "prevote" /\ m.round = e.round
         /\ TryFinalizePrevotes(v, pv)
         /\ UNCHANGED <<loop, handler, chain, tip, announces>>
      \/ /\ m.type = "precommit" /\ m.round = e.round
         /\ CommitsBlock(v, pc) /\ UNCHANGED loop
         /\ handler' = [handler EXCEPT ![v] = "commit"]
         /\ UNCHANGED votes
      \/ /\ m.type = "precommit" /\ m.round = e.round
         /\ CommitsNothing(v, pc) /\ UNCHANGED votes
      \/ /\ Become(v, e) /\ UNCHANGED <<loop, handler, chain, tip, votes, announces>>
    BY HandleVoteForm
<1> HIDE DEF e
<1>6. EngOK(v, e, votes, proposals, boots[v]) /\ votes \in SUBSET Vote /\ Before(eng[v], e)
      /\ eng[v] \in Engine
    BY <1>3 DEF Ready, BaseInv, TypeOK
<1>7. m.type = "prevote" /\ m.round = e.round =>
        /\ EngOK(v, pv, votes, proposals, boots[v]) /\ Before(e, pv) /\ pv.step = e.step
        /\ pv.height = e.height
    <2>1. m \in votes /\ m.height = e.height
        BY <1>1, <1>3
    <2> QED BY ONLY <1>6, <2>1, v \in Validators, BallotKeeps
<1>8. m.type = "precommit" /\ m.round = e.round =>
        /\ EngOK(v, pc, votes, proposals, boots[v]) /\ Before(e, pc) /\ pc.step = e.step
        /\ pc.height = e.height
    <2>1. m \in votes /\ m.height = e.height
        BY <1>1, <1>3
    <2> QED BY ONLY <1>6, <2>1, v \in Validators, BallotKeeps
<1> HIDE DEF pv, pc
<1>9. /\ m.type = "prevote" /\ m.round = e.round => Ready(v, pv)
      /\ m.type = "precommit" /\ m.round = e.round => Ready(v, pc)
    BY <1>3, <1>6, <1>7, <1>8, BeforeTransitive DEF Ready, EngOK
<1>10. CASE Become(v, e) /\ UNCHANGED <<loop, handler, chain, tip, votes, announces>>
    BY <1>1, <1>3, <1>4, <1>10, HandlerQuiet DEF Become
<1>11. CASE /\ m.type = "prevote" /\ m.round = e.round
            /\ TryFinalizePrevotes(v, pv)
            /\ UNCHANGED <<loop, handler, chain, tip, announces>>
    <2>1. CASE Become(v, pv) /\ UNCHANGED votes
        BY <1>1, <1>3, <1>4, <1>7, <1>9, <1>11, <2>1, HandlerQuiet DEF Become
    <2>2. CASE pv.step = StepPrevote /\ \E x \in Reached(pv.prevotes) : CastPrecommit(v, pv, x)
        <3>1. \E x \in Reached(pv.prevotes) \cup {Nil} : CastPrecommit(v, pv, x)
            BY <2>2
        <3>2. loop[v].pc # "commit"
            BY <1>3, <1>7, <1>11, <2>2 DEF StepPropose, StepPrevote, StepCommit
        <3>3. Ready(v, pv) /\ pv.height = eng[v].height /\ pv.step = StepPrevote
            BY <1>3, <1>7, <1>9, <1>11, <2>2
        <3>4. UNCHANGED <<handler, chain, tip, boots, proposals, announces>> /\ loop' = loop
            BY <1>1, <1>4, <1>11
        <3> QED BY <1>1, <1>4, <3>1, <3>2, <3>3, <3>4, CastNodeEffect
    <2> QED BY <1>11, <2>1, <2>2 DEF TryFinalizePrevotes
<1>12. CASE /\ m.type = "precommit" /\ m.round = e.round
            /\ CommitsBlock(v, pc) /\ UNCHANGED loop
            /\ handler' = [handler EXCEPT ![v] = "commit"]
            /\ UNCHANGED votes
    <2> DEFINE d == [pc EXCEPT !.step = StepCommit]
               p == pc.proposal
    <2>1. /\ p \in Proposal /\ p.height = pc.height /\ SaveBlock(v, p)
          /\ announces' \subseteq [block : Proposal, signer : Validators]
          /\ eng' = [eng EXCEPT ![v] = d] /\ Ready(v, d)
          /\ d.step = StepCommit /\ d.height = pc.height
        BY <1>9, <1>12, CommitsBlockFacts
    <2>2. /\ chain' \in [Validators -> [Heights -> Blocks \cup {Nil}]]
          /\ tip' \in [Validators -> 0..MaxHeight]
          /\ tip'[v] = p.height /\ chain'[v][p.height] = BlockHash(p)
          /\ \A u \in Validators \ {v} : chain'[u] = chain[u] /\ tip'[u] = tip[u]
        BY <2>1, SaveBlockFacts DEF BaseInv
    <2>3. BlockHash(p) # Nil
        BY <2>1, BlockHashFields
    <2>4. /\ loop' \in [Validators -> LoopState]
          /\ \A u \in Validators \ {v} : loop'[u] = loop[u] /\ handler'[u] = handler[u]
          /\ handler' \in [Validators -> {"ready", "commit"}]
        BY <1>12 DEF BaseInv, TypeOK
    <2>5. loop[v].pc # "commit"
        BY <1>3, <1>8, <1>12 DEF CommitsBlock, StepPropose, StepPrecommit, StepCommit
    <2> HIDE DEF d, p
    <2>6. NodeOK(d, loop'[v], handler'[v], chain'[v], tip'[v])
        BY <1>12, <2>1, <2>2, <2>3, <2>5 DEF BaseInv, NodeOK
    <2> QED BY <1>1, <1>4, <1>12, <2>1, <2>2, <2>4, <2>6, QuietEffect
<1>13. CASE /\ m.type = "precommit" /\ m.round = e.round
            /\ CommitsNothing(v, pc) /\ UNCHANGED votes
    <2>1. PICK d : /\ eng' = [eng EXCEPT ![v] = d] /\ Ready(v, d)
                   /\ d = pc \/ (pc.step = StepPrecommit /\ d.step = StepNewHeight)
        BY <1>9, <1>13, CommitsNothingFacts
    <2>2. UNCHANGED <<chain, tip, announces, loop, handler>>
        BY <1>13 DEF CommitsNothing, store
    <2>3. loop[v].pc = "commit" => d.step \in {StepPropose, StepCommit} /\ tip[v] >= d.height
        <3>1. loop[v].pc = "commit" => pc.step \in {StepPropose, StepCommit} /\ tip[v] >= pc.height
            BY <1>3, <1>8, <1>13
        <3> QED BY <2>1, <3>1 DEF StepPropose, StepPrecommit, StepCommit
    <2> QED BY <1>1, <1>4, <1>13, <2>1, <2>2, <2>3, HandlerQuiet
<1> QED BY <1>5, <1>10, <1>11, <1>12, <1>13

\* GossipBlock writes the store behind the engine's back.
LEMMA GossipBlockEffect ==
    ASSUME BaseInv, NEW v \in Validators, NEW a \in announces, GossipBlock(v, a)
    PROVE  Effect(v)
<1> DEFINE p == a.block
<1>1. p \in Proposal
    BY DEF BaseInv, TypeOK
<1>2. /\ SaveBlock(v, p) /\ p.height = tip[v] + 1
      /\ UNCHANGED <<eng, loop, handler, lastVotes, jailed, boots, proposals, votes, announces>>
    BY DEF GossipBlock, node
<1>3. /\ chain' \in [Validators -> [Heights -> Blocks \cup {Nil}]]
      /\ tip' \in [Validators -> 0..MaxHeight]
      /\ tip'[v] = p.height /\ chain'[v][p.height] = BlockHash(p)
      /\ \A u \in Validators \ {v} : chain'[u] = chain[u] /\ tip'[u] = tip[u]
    BY <1>1, <1>2, SaveBlockFacts DEF BaseInv
<1>4. BlockHash(p) # Nil
    BY <1>1, BlockHashFields
<1> HIDE DEF p
<1>5. TypeOK'
    BY <1>2, <1>3 DEF BaseInv, TypeOK
<1>6. Local(v)
    BY <1>2, <1>3 DEF Local
<1>7. eng[v] \in Engine /\ tip[v] \in Nat /\ eng[v].height \in Nat
    <2>1. eng[v] \in Engine /\ tip[v] \in 0..MaxHeight
        BY DEF BaseInv, TypeOK
    <2> QED BY <2>1, BoundsNat, EngineFields
<1>8. Voting(v) /\ proposals \subseteq proposals'
    BY <1>2, <1>7, BeforeReflexive DEF Voting, BaseInv
<1>9. NodeOK(eng[v], loop[v], handler[v], chain[v], tip[v])'
    BY <1>2, <1>3, <1>4, <1>7 DEF BaseInv, NodeOK
<1> QED BY <1>5, <1>6, <1>8, <1>9 DEF Effect

\* A restart forgets all but the store.
LEMMA RestartEffect ==
    ASSUME BaseInv, NEW v \in Validators, Restart(v)
    PROVE  Effect(v)
<1> DEFINE d == StartOf(tip[v] + 1)
<1>1. /\ v \in Restartable /\ boots[v] < MaxRestarts
      /\ boots' = [boots EXCEPT ![v] = boots[v] + 1]
      /\ eng' = [eng EXCEPT ![v] = d]
      /\ lastVotes' = [lastVotes EXCEPT ![v] = {}]
      /\ loop' = [loop EXCEPT ![v] = AtTop]
      /\ handler' = [handler EXCEPT ![v] = "ready"]
      /\ UNCHANGED <<chain, tip, jailed, proposals, votes, announces>>
    BY DEF Restart, Become, LoopGoes, store
<1>2. tip[v] \in 0..MaxHeight /\ boots[v] \in Boots /\ votes \in SUBSET Vote
    BY DEF BaseInv, TypeOK
<1>3. tip[v] + 1 \in 1..MaxHeight + 1
    BY <1>2, BoundsNat
<1>4. boots[v] + 1 \in Boots /\ boots[v] + 1 # 0 /\ boots[v] + 1 # boots[v]
    BY <1>1, <1>2, BoundsNat DEF Boots
<1>5. /\ d \in Engine /\ d.step = StepNewHeight /\ d.proposal = NoProposal /\ d.locked = Nil
      /\ d.prevotes = {} /\ d.precommits = {}
    BY <1>3, StartFields
<1> HIDE DEF d
<1>6. eng'[v] = d /\ boots'[v] = boots[v] + 1 /\ loop'[v] = AtTop /\ handler'[v] = "ready"
    BY <1>1 DEF BaseInv, TypeOK
<1>7. EngOK(v, d, votes, proposals, boots'[v])
    BY <1>4, <1>5, <1>6 DEF EngOK, Entered, HasPrevoted, TalliesSent, ProposalKnown, LockHeight,
                            StepNewHeight, StepPrevote
<1>8. TypeOK'
    BY <1>1, <1>4, <1>5, AtTopFacts DEF BaseInv, TypeOK
<1>9. Local(v)
    BY <1>1 DEF Local, BaseInv, TypeOK
<1>10. Voting(v) /\ proposals \subseteq proposals'
    BY <1>1, <1>4, <1>6, <1>7 DEF Voting
<1>11. NodeOK(eng[v], loop[v], handler[v], chain[v], tip[v])'
    BY <1>1, <1>6, AtTopFacts DEF BaseInv, NodeOK
<1> QED BY <1>8, <1>9, <1>10, <1>11 DEF Effect

\* A jail record that goes touches nothing else here.
LEMMA UnjailEffect ==
    ASSUME BaseInv, NEW v \in Validators, NEW u \in Validators, Unjail(v, u)
    PROVE  Effect(v)
<1>1. /\ jailed' = [jailed EXCEPT ![v] = @ \ {u}]
      /\ UNCHANGED <<eng, lastVotes, loop, handler, chain, tip, boots, proposals, votes, announces>>
    BY DEF Unjail, store
<1>2. TypeOK'
    BY <1>1 DEF BaseInv, TypeOK
<1>3. Local(v)
    BY <1>1 DEF Local
<1>4. eng[v] \in Engine
    BY DEF BaseInv, TypeOK
<1>5. Voting(v) /\ proposals \subseteq proposals'
    BY <1>1, <1>4, BeforeReflexive DEF Voting, BaseInv
<1>6. NodeOK(eng[v], loop[v], handler[v], chain[v], tip[v])'
    BY <1>1 DEF BaseInv, NodeOK
<1> QED BY <1>2, <1>3, <1>5, <1>6 DEF Effect
-----------------------------------------------------------------------------
\* The engines start sound.
LEMMA InitBase == Init => BaseInv
<1> SUFFICES ASSUME Init PROVE BaseInv
    OBVIOUS
<1>1. 1 \in 1..MaxHeight + 1 /\ 0 \in 0..MaxHeight
    BY BoundsNat
<1>2. /\ StartOf(1) \in Engine /\ StartOf(1).step = StepNewHeight
      /\ StartOf(1).proposal = NoProposal /\ StartOf(1).locked = Nil
      /\ StartOf(1).prevotes = {} /\ StartOf(1).precommits = {}
    BY <1>1, StartFields
<1>3. TypeOK
    <2>1. [h \in Heights |-> Nil] \in [Heights -> Blocks \cup {Nil}]
        OBVIOUS
    <2> QED BY <1>1, <1>2, <2>1, AtTopFacts, TypeFacts DEF Init, TypeOK
<1>4. \A v \in Validators : EngOK(v, eng[v], votes, proposals, boots[v])
    BY <1>2 DEF Init, EngOK, Entered, HasPrevoted, TalliesSent, ProposalKnown, LockHeight,
                VotesPast, LockIsLatest, LocksOf, StepNewHeight, StepPrevote
<1>5. \A v \in Validators : NodeOK(eng[v], loop[v], handler[v], chain[v], tip[v])
    BY AtTopFacts DEF Init, NodeOK
<1> QED BY <1>3, <1>4, <1>5, RestartableType DEF Init, BaseInv

\* Every step is one of the effects above.
LEMMA NextEffect ==
    ASSUME BaseInv, Next
    PROVE  (\E v \in Validators : Effect(v)) \/ UNCHANGED vars
<1>1. CASE \E v \in Validators : Loop(v)
    BY <1>1, RunProposeEffect, StartRoundEffect, BuildProposalEffect, PublishProposalEffect,
       EndProposeEffect, PrevoteStepEffect, PollPrecommitsEffect, PrecommitTimeoutEffect,
       LoopEndsCommitEffect DEF Loop
<1>2. CASE \E v \in Validators : HandlerEndsCommit(v)
    BY <1>2, HandlerEndsCommitEffect
<1>3. CASE \E v \in Validators : Receive(v)
    BY <1>3, HandleProposalEffect, HandleVoteEffect, FollowOutsiderEffect, GossipBlockEffect DEF Receive
<1>4. CASE \E v \in Validators : Restart(v)
    BY <1>4, RestartEffect
<1>5. CASE \E v, u \in Validators : Unjail(v, u)
    BY <1>5, UnjailEffect
<1>6. CASE Finished
    BY <1>6 DEF Finished
<1> QED BY <1>1, <1>2, <1>3, <1>4, <1>5, <1>6 DEF Next

\* The votes a step adds are the acting validator's, and its engine is sound after it.
LEMMA VotingOutcome ==
    ASSUME BaseInv, NEW v \in Validators, Effect(v)
    PROVE  /\ EngOK(v, eng'[v], votes', proposals', boots'[v])
           /\ votes \subseteq votes'
           /\ \A m \in votes' \ votes : m.voter = v /\ HashHeight(m)
           /\ boots'[v] = boots[v] => Before(eng[v], eng'[v])
           /\ boots'[v] # boots[v] => v \in Restartable
<1>1. CASE /\ votes' = votes /\ boots' = boots /\ Before(eng[v], eng'[v])
           /\ EngOK(v, eng'[v], votes, proposals', boots[v])
    BY <1>1
<1>2. CASE /\ votes' = votes /\ v \in Restartable /\ boots'[v] # 0 /\ boots'[v] # boots[v]
           /\ EngOK(v, eng'[v], votes, proposals', boots'[v])
    BY <1>2
<1>3. CASE /\ boots' = boots /\ proposals' = proposals
           /\ \E e \in Engine :
                /\ Ready(v, e)
                /\ \/ e.step = StepPropose /\ EnterPrevote(v, e)
                   \/ /\ e.step = StepPrevote
                      /\ \E x \in Reached(e.prevotes) \cup {Nil} : CastPrecommit(v, e, x)
    <2>1. PICK e \in Engine :
                /\ Ready(v, e)
                /\ \/ e.step = StepPropose /\ EnterPrevote(v, e)
                   \/ /\ e.step = StepPrevote
                      /\ \E x \in Reached(e.prevotes) \cup {Nil} : CastPrecommit(v, e, x)
        BY <1>3
    <2>2. /\ EngOK(v, eng'[v], votes', proposals, boots[v]) /\ Before(e, eng'[v])
          /\ \A m \in votes' \ votes : m.voter = v /\ HashHeight(m)
          /\ votes \subseteq votes'
        BY <1>3, <2>1, CastEffect
    <2>3. Before(eng[v], e) /\ eng[v] \in Engine /\ eng'[v] \in Engine
        BY <2>1, <2>2 DEF Ready, BaseInv, TypeOK, EngOK
    <2>4. Before(eng[v], eng'[v])
        BY <2>2, <2>3, BeforeTransitive
    <2> QED BY <1>3, <2>2, <2>4
<1> QED BY <1>1, <1>2, <1>3 DEF Effect, Voting

\* Every step keeps them so.
LEMMA NextBase == BaseInv /\ [Next]_vars => BaseInv'
<1> SUFFICES ASSUME BaseInv, [Next]_vars PROVE BaseInv'
    OBVIOUS
<1>1. CASE UNCHANGED vars
    BY <1>1 DEF vars, BaseInv, TypeOK
<1>2. CASE \E v \in Validators : Effect(v)
    <2>1. PICK v \in Validators : Effect(v)
        BY <1>2
    <2>2. /\ Local(v) /\ TypeOK' /\ proposals \subseteq proposals'
          /\ NodeOK(eng'[v], loop'[v], handler'[v], chain'[v], tip'[v])
        BY <2>1 DEF Effect
    <2>3. /\ EngOK(v, eng'[v], votes', proposals', boots'[v])
          /\ votes \subseteq votes'
          /\ \A m \in votes' \ votes : m.voter = v /\ HashHeight(m)
          /\ boots'[v] # boots[v] => v \in Restartable
        BY <2>1, VotingOutcome
    <2>4. votes \in SUBSET Vote
        BY DEF BaseInv, TypeOK
    <2>5. \A u \in Validators : EngOK(u, eng'[u], votes', proposals', boots'[u])
        <3> SUFFICES ASSUME NEW u \in Validators, u # v
                     PROVE  EngOK(u, eng'[u], votes', proposals', boots'[u])
            BY <2>3
        <3>1. eng'[u] = eng[u] /\ boots'[u] = boots[u]
            BY <2>2 DEF Local
        <3>2. EngOK(u, eng[u], votes, proposals, boots[u])
            BY DEF BaseInv
        <3>3. EngOK(u, eng[u], votes', proposals', boots[u])
            BY <2>2, <2>3, <2>4, <3>2, OthersKeep
        <3> QED BY <3>1, <3>3
    <2>6. \A u \in Validators : NodeOK(eng'[u], loop'[u], handler'[u], chain'[u], tip'[u])
        BY <2>2 DEF Local, BaseInv
    <2>7. \A m \in votes' : HashHeight(m)
        BY <2>3 DEF BaseInv
    <2>8. \A u \in Validators \ Restartable : boots'[u] = 0
        BY <2>2, <2>3 DEF Local, BaseInv
    <2> QED BY <2>2, <2>5, <2>6, <2>7, <2>8 DEF BaseInv
<1> QED BY <1>1, <1>2, NextEffect

(***************************************************************************)
(* Every engine agrees with the votes and proposals that were broadcast,   *)
(* and the goroutines of a node with each other and with the store, under  *)
(* every interleaving of loop(), the message handlers and restarts.        *)
(***************************************************************************)
THEOREM BaseInvHolds == Spec => []BaseInv
BY InitBase, NextBase, PTL DEF Spec

(***************************************************************************)
(* Every variable keeps its type.                                          *)
(***************************************************************************)
THEOREM TypeCorrect == Spec => []TypeOK
<1>1. BaseInv => TypeOK
    BY DEF BaseInv
<1> QED BY <1>1, BaseInvHolds, PTL

(***************************************************************************)
(* commitLocked gives up e.mu for the block interval, yet loop() and       *)
(* HandleVote are never both in it: OneCommitAtATime.                      *)
(***************************************************************************)
THEOREM OneCommitHolds == Spec => []OneCommitAtATime
<1>1. BaseInv => OneCommitAtATime
    BY DEF BaseInv, NodeOK, OneCommitAtATime
<1> QED BY <1>1, BaseInvHolds, PTL

(***************************************************************************)
(* Whichever goroutine moves an engine, its height, round and step never   *)
(* go back short of a restart: NeverGoesBack.                              *)
(***************************************************************************)
THEOREM NeverGoesBackHolds == Spec => NeverGoesBack
<1>1. BaseInv /\ [Next]_vars =>
        [\A v \in Validators : boots'[v] = boots[v] => Before(eng[v], eng'[v])]_vars
    <2> SUFFICES ASSUME BaseInv, Next, ~UNCHANGED vars, NEW u \in Validators,
                        boots'[u] = boots[u]
                 PROVE  Before(eng[u], eng'[u])
        OBVIOUS
    <2>1. PICK v \in Validators : Effect(v)
        BY NextEffect
    <2>2. CASE u = v
        BY <2>1, <2>2, VotingOutcome
    <2>3. CASE u # v
        <3>1. eng'[u] = eng[u] /\ eng[u] \in Engine
            BY <2>1, <2>3 DEF Effect, Local, BaseInv, TypeOK
        <3> QED BY <3>1, BeforeReflexive
    <2> QED BY <2>2, <2>3
<1> QED BY <1>1, BaseInvHolds, PTL DEF Spec, NeverGoesBack
-----------------------------------------------------------------------------
\* The votes of the validators whose process never restarts.
Steady == {m \in votes : m.voter \notin Restartable}

\* The operators of BFTVoting on these votes, in the terms of BFTEngine.
LEMMA SteadyVotes ==
    /\ \A t, h, r, v, x : V!MkVote(t, h, r, v, x) = MkVote(t, h, r, v, x)
    /\ \A t, v, h : V!RoundsVoted(t, v, h) =
          {m.round : m \in {k \in Steady : k.type = t /\ k.voter = v /\ k.height = h}}
    /\ \A v, h : v \notin Restartable => V!Locks(v, h) = LocksOf(v, h, votes)
    /\ V!Honest = Validators \ Restartable
BY DEF V!MkVote, MkVote, V!RoundsVoted, Steady, V!Locks, LocksOf, V!Honest

\* The voters of a quorum are a quorum of BFTVoting.
LEMMA QuorumsOfV ==
    ASSUME NEW Q \in SUBSET Validators, Cardinality(Q) >= Quorum
    PROVE  Q \in V!Quorums
<1>1. V!Cardinality(Q) = Cardinality(Q) /\ V!Cardinality(Validators) = Cardinality(Validators)
    BY DEF V!Cardinality, Cardinality
<1> QED BY <1>1 DEF V!Quorums, Quorum

\* A prevote of a validator that never restarts is a Prevote of BFTVoting.
LEMMA PrevoteIsVoting ==
    ASSUME BaseInv, NEW v \in Validators \ Restartable, NEW e \in Engine, Ready(v, e),
           e.step = StepPropose, EnterPrevote(v, e)
    PROVE  V!Next
<1> DEFINE x == PrevoteHash(e)
           w == MkVote("prevote", e.height, e.round, v, x)
<1>1. /\ EngOK(v, e, votes, proposals, boots[v]) /\ votes \in SUBSET Vote /\ boots[v] = 0
      /\ votes' = votes \cup {w}
    BY DEF Ready, BaseInv, TypeOK, EnterPrevote
<1>2. /\ x \in Blocks \cup {Nil}
      /\ \A m \in votes : m.voter = v /\ m.height = e.height => m.round < e.round
    BY <1>1, PrevoteKeeps
<1>3. e.round \in Rounds /\ e.height \in Heights
    BY <1>1, EngineFields, TypeFacts DEF EngOK, Entered, StepPropose, StepNewHeight
<1>4. V!MayPrevote(v, e.height, e.round)
    BY <1>2, SteadyVotes DEF V!MayPrevote, Steady
<1>5. V!PrevoteRule(v, e.height, x)
    <2> SUFFICES ASSUME x # Nil
                 PROVE  V!Locks(v, e.height) = {} \/ V!LockedOn(v, e.height, x)
        BY DEF V!PrevoteRule
    <2>1. V!Locks(v, e.height) = LocksOf(v, e.height, votes)
        BY SteadyVotes
    <2>2. LockIsLatest(v, e, votes)
        BY <1>1 DEF EngOK
    <2>3. e.locked # Nil => x = e.locked
        BY DEF PrevoteHash
    <2> QED BY <2>1, <2>2, <2>3 DEF LockIsLatest, V!LockedOn
<1>6. {m \in votes' : m.voter \notin Restartable} = Steady \cup {V!MkVote("prevote", e.height, e.round, v, x)}
    BY <1>1, SteadyVotes, VoteFields DEF Steady
<1>7. V!Prevote(v, e.height, e.round, x)
    BY <1>4, <1>5, <1>6 DEF V!Prevote, Steady
<1> QED BY <1>2, <1>3, <1>7, SteadyVotes DEF V!Next

\* A precommit of a validator that never restarts is a Precommit of BFTVoting.
LEMMA PrecommitIsVoting ==
    ASSUME BaseInv, NEW v \in Validators \ Restartable, NEW e \in Engine, Ready(v, e),
           e.step = StepPrevote, NEW x \in Reached(e.prevotes) \cup {Nil}, CastPrecommit(v, e, x)
    PROVE  V!Next
<1> DEFINE w == MkVote("precommit", e.height, e.round, v, x)
<1>1. /\ EngOK(v, e, votes, proposals, boots[v]) /\ votes \in SUBSET Vote /\ boots[v] = 0
      /\ votes' = votes \cup {w} /\ \A m \in votes : HashHeight(m)
    BY DEF Ready, BaseInv, TypeOK, CastPrecommit
<1>2. /\ x \in Blocks \cup {Nil} /\ (x # Nil => x[1] = e.height)
      /\ x # Nil => \E Q \in SUBSET Validators : Cardinality(Q) >= Quorum
            /\ \A u \in Q : MkVote("prevote", e.height, e.round, u, x) \in votes
    <2>1. \A y \in Reached(e.prevotes) :
             /\ y \in Blocks \cup {Nil} /\ (y # Nil => y[1] = e.height)
             /\ \E Q \in SUBSET Validators : Cardinality(Q) >= Quorum
                   /\ \A u \in Q : MkVote("prevote", e.height, e.round, u, y) \in votes
        BY <1>1, ReachedSent
    <2>2. CASE x = Nil
        BY <2>2
    <2>3. CASE x \in Reached(e.prevotes)
        BY <2>1, <2>3
    <2> QED BY <2>2, <2>3
<1>3. e.round \in Rounds /\ e.height \in Heights /\ e.round \in Nat
    BY <1>1, EngineFields, TypeFacts DEF EngOK, Entered, StepPrevote, StepNewHeight
<1>4. \A m \in votes : m.voter = v /\ m.height = e.height =>
          /\ m.type = "prevote" => m.round <= e.round
          /\ m.type = "precommit" => m.round < e.round
    BY <1>1, <1>2, PrecommitKeeps
<1>5. V!MayPrecommit(v, e.height, e.round)
    <2>1. PICK y \in Blocks \cup {Nil} : MkVote("prevote", e.height, e.round, v, y) \in votes
        BY <1>1 DEF EngOK, HasPrevoted
    <2>2. e.round \in V!RoundsVoted("prevote", v, e.height)
        <3> DEFINE k == MkVote("prevote", e.height, e.round, v, y)
        <3>1. k.type = "prevote" /\ k.voter = v /\ k.height = e.height /\ k.round = e.round
            BY VoteFields
        <3>2. k \in votes
            BY <2>1
        <3> HIDE DEF k
        <3> QED BY <3>1, <3>2, SteadyVotes DEF Steady
    <2> QED BY <1>4, <2>2, SteadyVotes DEF V!MayPrecommit, Steady
<1>6. x # Nil => V!HasQuorum("prevote", e.height, e.round, x)
    <2> SUFFICES ASSUME x # Nil PROVE V!HasQuorum("prevote", e.height, e.round, x)
        OBVIOUS
    <2>1. PICK Q \in SUBSET Validators : Cardinality(Q) >= Quorum
            /\ \A u \in Q : MkVote("prevote", e.height, e.round, u, x) \in votes
        BY <1>2
    <2>2. Q \in V!Quorums
        BY <2>1, QuorumsOfV
    <2>3. \A u \in Q \ Restartable :
             V!MkVote("prevote", e.height, e.round, u, x) \in {m \in votes : m.voter \notin Restartable}
        BY <2>1, SteadyVotes, VoteFields
    <2> QED BY <2>2, <2>3 DEF V!HasQuorum
<1>7. {m \in votes' : m.voter \notin Restartable} = Steady \cup {V!MkVote("precommit", e.height, e.round, v, x)}
    BY <1>1, SteadyVotes, VoteFields DEF Steady
<1>8. V!Precommit(v, e.height, e.round, x)
    BY <1>5, <1>6, <1>7 DEF V!Precommit, Steady
<1> QED BY <1>2, <1>3, <1>8, SteadyVotes DEF V!Next

(***************************************************************************)
(* The engines implement BFTVoting: every vote of enterPrevoteLocked and   *)
(* tryFinalizePrevotesLocked, cast by loop() or by a message handler of a  *)
(* validator that never restarts, is one the voting rules allow.           *)
(***************************************************************************)
THEOREM EngineImplementsVoting == Spec => ImplementsVoting
<1>1. Init => V!Init
    BY DEF Init, V!Init
<1>2. BaseInv /\ [Next]_vars => [V!Next]_{m \in votes : m.voter \notin Restartable}
    <2> SUFFICES ASSUME BaseInv, Next, ~UNCHANGED vars,
                        {m \in votes : m.voter \notin Restartable}'
                            # {m \in votes : m.voter \notin Restartable}
                 PROVE  V!Next
        BY DEF vars
    <2>1. PICK v \in Validators : Effect(v)
        BY NextEffect
    <2>2. v \notin Restartable
        BY <2>1, VotingOutcome
    <2>3. CASE \E e \in Engine : Ready(v, e) /\ e.step = StepPropose /\ EnterPrevote(v, e)
        BY <2>2, <2>3, PrevoteIsVoting
    <2>4. CASE \E e \in Engine :
                 /\ Ready(v, e) /\ e.step = StepPrevote
                 /\ \E x \in Reached(e.prevotes) \cup {Nil} : CastPrecommit(v, e, x)
        BY <2>2, <2>4, PrecommitIsVoting
    <2> QED BY <2>1, <2>3, <2>4 DEF Effect, Voting
<1> QED BY <1>1, <1>2, BaseInvHolds, PTL DEF Spec, ImplementsVoting, V!Spec
-----------------------------------------------------------------------------
\* Two votes of one slot of one round.
SameRound(m, k) == SameSlot(m, k) /\ m.height = k.height /\ m.round = k.round

\* What is remembered was sent, and two hashes in one round take a restart.
JailInv ==
    /\ \A v \in Validators : lastVotes[v] \subseteq votes
    /\ \A m, k \in votes : SameRound(m, k) /\ boots[m.voter] = 0 => m.hash = k.hash
    /\ OnlyRestartedJailed

\* A vote cast now is the first of its slot and round in this life of the voter.
LEMMA FreshRound ==
    ASSUME NEW v, NEW vs \in SUBSET Vote, NEW e \in Engine, VotesPast(v, e, vs)
    PROVE  /\ e.step = StepPropose =>
                \A m \in vs : m.voter = v /\ m.height = e.height => m.round < e.round
           /\ e.step = StepPrevote =>
                \A m \in vs : m.voter = v /\ m.height = e.height /\ m.type = "precommit" =>
                                 m.round < e.round
<1>1. e.round \in Nat /\ e.height \in Nat
    BY EngineFields
<1> QED BY <1>1 DEF VotesPast, Past, StepPropose, StepPrevote, StepPrecommit

\* A step adds at most one vote, and without a restart it conflicts with none.
LEMMA VotingFresh ==
    ASSUME BaseInv, NEW v \in Validators, Effect(v)
    PROVE  \E w : /\ votes' = votes \/ votes' = votes \cup {w}
                  /\ boots[v] = 0 => \A k \in votes : w.voter = v /\ ~SameRound(k, w)
<1>2. votes \in SUBSET Vote /\ \A m \in votes : HashHeight(m)
    BY DEF BaseInv, TypeOK
<1>3. ASSUME NEW e \in Engine, Ready(v, e), e.step = StepPropose, EnterPrevote(v, e)
      PROVE  \E w : /\ votes' = votes \cup {w}
                    /\ boots[v] = 0 => \A k \in votes : w.voter = v /\ ~SameRound(k, w)
    <2> DEFINE w == MkVote("prevote", e.height, e.round, v, PrevoteHash(e))
    <2>1. votes' = votes \cup {w}
        BY <1>3 DEF EnterPrevote
    <2>2. w.voter = v /\ w.height = e.height /\ w.round = e.round /\ e.round \in Nat
        BY VoteFields, EngineFields
    <2>3. boots[v] = 0 => \A m \in votes : m.voter = v /\ m.height = e.height => m.round < e.round
        <3>1. boots[v] = 0 => VotesPast(v, e, votes)
            BY <1>3 DEF Ready, EngOK
        <3> HIDE DEF w
        <3> QED BY <1>2, <1>3, <3>1, FreshRound
    <2> HIDE DEF w
    <2> QED BY <2>1, <2>2, <2>3 DEF SameRound, SameSlot
<1>4. ASSUME NEW e \in Engine, Ready(v, e), e.step = StepPrevote,
             NEW x \in Reached(e.prevotes) \cup {Nil}, CastPrecommit(v, e, x)
      PROVE  \E w : /\ votes' = votes \cup {w}
                    /\ boots[v] = 0 => \A k \in votes : w.voter = v /\ ~SameRound(k, w)
    <2> DEFINE w == MkVote("precommit", e.height, e.round, v, x)
    <2>1. votes' = votes \cup {w}
        BY <1>4 DEF CastPrecommit
    <2>2. w.voter = v /\ w.height = e.height /\ w.round = e.round /\ e.round \in Nat
          /\ w.type = "precommit"
        BY VoteFields, EngineFields
    <2>3. boots[v] = 0 => \A m \in votes :
              m.voter = v /\ m.height = e.height /\ m.type = "precommit" => m.round < e.round
        <3>1. boots[v] = 0 => VotesPast(v, e, votes)
            BY <1>4 DEF Ready, EngOK
        <3> HIDE DEF w
        <3> QED BY <1>2, <1>4, <3>1, FreshRound
    <2> HIDE DEF w
    <2> QED BY <2>1, <2>2, <2>3 DEF SameRound, SameSlot
<1>5. CASE votes' # votes
    <2>1. \/ \E e \in Engine : Ready(v, e) /\ e.step = StepPropose /\ EnterPrevote(v, e)
          \/ \E e \in Engine : /\ Ready(v, e) /\ e.step = StepPrevote
                               /\ \E x \in Reached(e.prevotes) \cup {Nil} : CastPrecommit(v, e, x)
        BY <1>5 DEF Effect, Voting
    <2> QED BY <1>3, <1>4, <2>1
<1>6. CASE votes' = votes
    <2> DEFINE w == MkVote("none", 0, 0, v, Nil)
    <2>1. w.voter = v /\ w.type = "none"
        BY VoteFields
    <2>2. \A k \in votes : k.type # "none"
        BY <1>2, VoteIsMkVote
    <2> HIDE DEF w
    <2> QED BY <1>6, <2>1, <2>2 DEF SameRound, SameSlot
<1> QED BY <1>5, <1>6

\* What a step does with the records of double signing.
LEMMA RecordsForm ==
    ASSUME Next
    PROVE  \/ UNCHANGED <<lastVotes, jailed, boots>>
           \/ \E v \in Validators, m \in votes : Observe(v, m) /\ HandleVote(v, m)
           \/ \E v \in Validators : Restart(v)
           \/ \E v, u \in Validators : Unjail(v, u)
<1>1. CASE \E v \in Validators : Loop(v) \/ HandlerEndsCommit(v)
    BY <1>1 DEF Loop, RunPropose, StartRound, BuildProposal, PublishProposal, EndPropose,
                PollPrevotes, PrevoteTimeout, PollPrecommits, PrecommitTimeout, LoopEndsCommit,
                HandlerEndsCommit, node
<1>2. CASE \E v \in Validators : Receive(v)
    <2>1. PICK v \in Validators : Receive(v)
        BY <1>2
    <2>2. CASE \E p \in proposals : HandleProposal(v, p)
        BY <2>2 DEF HandleProposal, node
    <2>3. CASE \/ \E a \in announces : GossipBlock(v, a)
               \/ \E o \in Outside : FollowOutsider(v, o[1], o[2])
        BY <2>3 DEF GossipBlock, FollowOutsider, node
    <2>4. CASE \E m \in votes : HandleVote(v, m)
        BY <2>4, HandleVoteForm
    <2> QED BY <2>1, <2>2, <2>3, <2>4 DEF Receive
<1>3. CASE Finished
    BY <1>3 DEF Finished, vars
<1> QED BY <1>1, <1>2, <1>3 DEF Next

\* JailInv is inductive on top of BaseInv.
LEMMA JailStep == BaseInv /\ BaseInv' /\ JailInv /\ [Next]_vars => JailInv'
<1> SUFFICES ASSUME BaseInv, BaseInv', JailInv, [Next]_vars PROVE JailInv'
    OBVIOUS
<1>1. CASE UNCHANGED vars
    BY <1>1 DEF vars, JailInv, OnlyRestartedJailed
<1>2. CASE Next /\ ~UNCHANGED vars
    <2>1. PICK v \in Validators : Effect(v)
        BY <1>2, NextEffect
    <2>2. PICK w : /\ votes' = votes \/ votes' = votes \cup {w}
                   /\ boots[v] = 0 => \A k \in votes : w.voter = v /\ ~SameRound(k, w)
        BY <2>1, VotingFresh
    <2>3. /\ boots \in [Validators -> Nat] /\ votes \in SUBSET Vote /\ boots' \in [Validators -> Nat]
          /\ jailed \in [Validators -> SUBSET Validators]
          /\ lastVotes \in [Validators -> SUBSET Vote]
        BY TypeFacts DEF BaseInv, TypeOK
    <2>4. \A u \in Validators : boots[u] > 0 => boots'[u] > 0
        <3>1. CASE \E u \in Validators : Restart(u)
            BY <2>3, <3>1 DEF Restart
        <3>2. CASE boots' = boots
            BY <3>2
        <3> QED BY <1>2, <3>1, <3>2, RecordsForm DEF Observe, Unjail
    <2>5. \A u \in Validators : lastVotes'[u] \subseteq votes'
        <3>1. CASE UNCHANGED lastVotes
            BY <2>2, <3>1 DEF JailInv
        <3>2. CASE \E u \in Validators, m \in votes : Observe(u, m)
            BY <2>2, <2>3, <3>2 DEF JailInv, Observe
        <3>3. CASE \E u \in Validators : Restart(u)
            BY <2>2, <2>3, <3>3 DEF JailInv, Restart
        <3> QED BY <1>2, <3>1, <3>2, <3>3, RecordsForm DEF Unjail
    <2>6. \A m, k \in votes' : SameRound(m, k) /\ boots'[m.voter] = 0 => m.hash = k.hash
        <3> SUFFICES ASSUME NEW m \in votes', NEW k \in votes', SameRound(m, k), boots'[m.voter] = 0
                     PROVE  m.hash = k.hash
            OBVIOUS
        <3>1. m.voter \in Validators /\ k.voter = m.voter /\ SameRound(k, m)
            <4>1. m \in Vote
                BY DEF BaseInv, TypeOK
            <4> QED BY <4>1, VoteIsMkVote DEF SameRound, SameSlot
        <3>2. boots[m.voter] = 0
            BY <2>3, <2>4, <3>1
        <3>3. CASE m \in votes /\ k \in votes
            BY <3>2, <3>3 DEF JailInv
        <3>4. CASE m \notin votes \/ k \notin votes
            <4>1. \A y \in votes' \ votes : y.voter = v /\ y = w
                BY <2>1, <2>2, VotingOutcome
            <4> QED BY <2>2, <3>1, <3>2, <3>4, <4>1
        <3> QED BY <3>3, <3>4
    <2>7. OnlyRestartedJailed'
        <3>1. CASE UNCHANGED <<jailed, boots>>
            BY <3>1 DEF JailInv, OnlyRestartedJailed
        <3>2. CASE \E u \in Validators : Restart(u)
            BY <2>4, <3>2, RestartableType DEF JailInv, OnlyRestartedJailed, Restart
        <3>3. CASE \E x, u \in Validators : Unjail(x, u)
            BY <2>3, <3>3 DEF JailInv, OnlyRestartedJailed, Unjail
        <3>4. CASE \E u \in Validators, m \in votes : Observe(u, m)
            <4>1. PICK u \in Validators, m \in votes : Observe(u, m)
                BY <3>4
            <4>2. boots' = boots /\ m.voter \in Validators
                BY <2>3, <4>1, VoteIsMkVote DEF Observe
            <4>3. CASE UNCHANGED jailed
                BY <4>2, <4>3 DEF JailInv, OnlyRestartedJailed
            <4>4. CASE DoubleSigns(u, m) /\ jailed' = [jailed EXCEPT ![u] = @ \cup {m.voter}]
                <5>1. PICK k \in votes : SameRound(m, k) /\ k.hash # m.hash
                    BY <4>4 DEF DoubleSigns, JailInv, SameRound
                <5>2. boots[m.voter] # 0
                    BY <5>1 DEF JailInv
                <5>3. m.voter \in Restartable /\ boots[m.voter] > 0
                    BY <2>3, <4>2, <5>2 DEF BaseInv
                <5> QED BY <2>3, <4>2, <4>4, <5>3 DEF JailInv, OnlyRestartedJailed
            <4> QED BY <4>1, <4>3, <4>4 DEF Observe, Jail
        <3> QED BY <1>2, <3>1, <3>2, <3>3, <3>4, RecordsForm
    <2> QED BY <2>5, <2>6, <2>7 DEF JailInv
<1> QED BY <1>1, <1>2

(***************************************************************************)
(* HandleVote's double-sign detection jails only validators that were      *)
(* restarted: OnlyRestartedJailed.                                         *)
(***************************************************************************)
THEOREM JailHolds == Spec => []OnlyRestartedJailed
<1>1. Init => JailInv
    BY DEF Init, JailInv, OnlyRestartedJailed
<1>2. JailInv => OnlyRestartedJailed
    BY DEF JailInv
<1> QED BY <1>1, <1>2, JailStep, BaseInvHolds, PTL DEF Spec
-----------------------------------------------------------------------------
\* The proposal p of this life of its proposer lies behind the proposer's engine e and loop l.
Built(p, e, l) ==
    \/ p.height < e.height
    \/ p.height = e.height /\ p.round < e.round
    \/ /\ p.height = e.height /\ p.round = e.round
       /\ e.step >= StepPrevote \/ (e.step = StepPropose /\ l.pc = "await")

\* The round runPropose works for is not ahead of the engine.
NotAhead(e, l) ==
    \/ l.height < e.height
    \/ l.height = e.height /\ l.round < e.round
    \/ l.height = e.height /\ l.round = e.round /\ (l.pc = "pace" \/ e.step >= StepPropose)

\* No proposal of this life is at or ahead of the round runPropose works for.
BuildInv ==
    /\ \A p \in proposals :
          /\ p.boot <= boots[p.proposer]
          /\ p.boot = boots[p.proposer] => Built(p, eng[p.proposer], loop[p.proposer])
    /\ \A v \in Validators : loop[v].pc \in {"pace", "build", "publish"} =>
          /\ NotAhead(eng[v], loop[v])
          /\ \A p \in proposals : BlockHash(p) # <<loop[v].height, loop[v].round, v, boots[v]>>

\* What lies behind an engine stays behind it.
LEMMA BuiltForward ==
    ASSUME NEW p \in Proposal, NEW e \in Engine, NEW d \in Engine, NEW l, NEW k,
           Built(p, e, l), Before(e, d),
           l.pc = "await" /\ e.step = StepPropose => k.pc = "await" \/ d.step >= StepPrevote
    PROVE  Built(p, d, k)
<1>1. /\ e.height \in Nat /\ e.round \in Nat /\ e.step \in Nat
      /\ d.height \in Nat /\ d.round \in Nat /\ d.step \in Nat
    BY EngineFields
<1>2. p.height \in Nat /\ p.round \in Nat
    BY BlockHashFields, TypeFacts
<1> QED BY <1>1, <1>2 DEF Built, Before, StepPropose, StepPrevote

\* So does the round of runPropose.
LEMMA NotAheadForward ==
    ASSUME NEW l \in LoopState, NEW e \in Engine, NEW d \in Engine,
           NotAhead(e, l), Before(e, d)
    PROVE  NotAhead(d, l)
<1>1. /\ e.height \in Nat /\ e.round \in Nat /\ e.step \in Nat
      /\ d.height \in Nat /\ d.round \in Nat /\ d.step \in Nat
    BY EngineFields
<1>2. l.height \in Nat /\ l.round \in Nat
    <2>1. l.height \in 0..MaxHeight /\ l.round \in Rounds
        BY DEF LoopState
    <2>2. 0..MaxHeight \subseteq Nat
        BY BoundsNat
    <2> QED BY <2>1, <2>2, TypeFacts
<1> QED BY <1>1, <1>2 DEF NotAhead, Before, StepPropose

\* Steps that publish no proposal and leave no new round in the hands of runPropose.
LEMMA BuildKeeps ==
    ASSUME BaseInv, BuildInv, NEW v \in Validators, Effect(v),
           proposals' = proposals, boots' = boots,
           \/ loop'[v] = loop[v]
           \/ /\ loop'[v].pc \in {"top", "commit"}
              /\ loop[v].pc = "await" /\ eng[v].step = StepPropose => eng'[v].step >= StepPrevote
    PROVE  BuildInv'
<1>1. /\ \A u \in Validators : eng[u] \in Engine /\ eng'[u] \in Engine /\ loop[u] \in LoopState
      /\ \A p \in proposals : p \in Proposal /\ p.proposer \in Validators
    BY BlockHashFields DEF BaseInv, Effect, TypeOK
<1>2. \A u \in Validators : u # v => eng'[u] = eng[u] /\ loop'[u] = loop[u]
    BY DEF Effect, Local
<1>3. \A u \in Validators : Before(eng[u], eng'[u])
    BY <1>1, <1>2, VotingOutcome, BeforeReflexive
<1>4. ASSUME NEW p \in proposals, p.boot = boots[p.proposer]
      PROVE  Built(p, eng'[p.proposer], loop'[p.proposer])
    <2> DEFINE u == p.proposer
    <2>1. u \in Validators /\ Built(p, eng[u], loop[u])
        BY <1>1, <1>4 DEF BuildInv
    <2>2. loop[u].pc = "await" /\ eng[u].step = StepPropose =>
              loop'[u].pc = "await" \/ eng'[u].step >= StepPrevote
        BY <1>2, <2>1
    <2>3. p \in Proposal /\ eng[u] \in Engine /\ eng'[u] \in Engine /\ Before(eng[u], eng'[u])
        BY <1>1, <1>3, <2>1
    <2> HIDE DEF u
    <2>4. Built(p, eng'[u], loop'[u])
        BY ONLY <2>1, <2>2, <2>3, BuiltForward
    <2> QED BY <2>4 DEF u
<1>5. ASSUME NEW u \in Validators, loop'[u].pc \in {"pace", "build", "publish"}
      PROVE  /\ NotAhead(eng'[u], loop'[u])
             /\ \A p \in proposals : BlockHash(p) # <<loop'[u].height, loop'[u].round, u, boots[u]>>
    <2>1. loop'[u] = loop[u]
        BY <1>2, <1>5
    <2> QED BY <1>1, <1>3, <1>5, <2>1, NotAheadForward DEF BuildInv
<1> QED BY <1>4, <1>5 DEF BuildInv

\* A restart begins a new life, in which nothing was proposed.
LEMMA RestartBuild ==
    ASSUME BaseInv, BuildInv, NEW v \in Validators, Restart(v)
    PROVE  BuildInv'
<1>1. /\ proposals' = proposals /\ boots' = [boots EXCEPT ![v] = boots[v] + 1]
      /\ eng' = [eng EXCEPT ![v] = StartOf(tip[v] + 1)] /\ loop' = [loop EXCEPT ![v] = AtTop]
    BY DEF Restart, Become, LoopGoes
<1>2. /\ \A u \in Validators : u # v => boots'[u] = boots[u] /\ eng'[u] = eng[u] /\ loop'[u] = loop[u]
      /\ boots'[v] = boots[v] + 1 /\ loop'[v].pc = "top"
    BY <1>1, AtTopFacts DEF BaseInv, TypeOK
<1>3. /\ \A p \in proposals : p.proposer \in Validators /\ p.boot \in Nat
      /\ \A u \in Validators : boots[u] \in Nat
    BY BlockHashFields, TypeFacts DEF BaseInv, TypeOK
<1>4. ASSUME NEW p \in proposals
      PROVE  /\ p.boot <= boots'[p.proposer]
             /\ p.boot = boots'[p.proposer] => Built(p, eng'[p.proposer], loop'[p.proposer])
    BY <1>2, <1>3 DEF BuildInv
<1>5. \A u \in Validators : loop'[u].pc \in {"pace", "build", "publish"} =>
          /\ NotAhead(eng'[u], loop'[u])
          /\ \A p \in proposals : BlockHash(p) # <<loop'[u].height, loop'[u].round, u, boots'[u]>>
    BY <1>2 DEF BuildInv
<1> QED BY <1>1, <1>4, <1>5 DEF BuildInv

\* A round read at the top of the loop has no proposal of this life.
LEMMA RunProposeBuild ==
    ASSUME BaseInv, BuildInv, NEW v \in Validators, RunPropose(v)
    PROVE  BuildInv'
<1> DEFINE e == eng[v]
           l == [pc |-> "pace", height |-> e.height, round |-> e.round, prev |-> Nil]
<1>1. /\ loop[v].pc = "top" /\ e.step \in {StepNewHeight, StepPropose}
      /\ loop' = [loop EXCEPT ![v] = l] /\ UNCHANGED <<eng, boots, proposals>>
    BY DEF RunPropose, LoopGoes, node
<1>2. l.pc = "pace" /\ l.height = e.height /\ l.round = e.round
    OBVIOUS
<1> HIDE DEF l
<1>3. loop'[v] = l /\ \A u \in Validators : u # v => loop'[u] = loop[u]
    BY <1>1 DEF BaseInv, TypeOK
<1>4. \A p \in proposals : p \in Proposal /\ p.proposer \in Validators
    BY BlockHashFields DEF BaseInv, TypeOK
<1>5. ASSUME NEW p \in proposals, p.boot = boots[p.proposer]
      PROVE  Built(p, eng[p.proposer], loop'[p.proposer])
    BY <1>1, <1>3, <1>4, <1>5 DEF BuildInv, Built
<1>6. ASSUME NEW p \in proposals, BlockHash(p) = <<e.height, e.round, v, boots[v]>>
      PROVE  FALSE
    <2>1. p.height = e.height /\ p.round = e.round /\ p.proposer = v /\ p.boot = boots[v]
        BY <1>6 DEF BlockHash
    <2>2. Built(p, e, loop[v])
        BY <2>1 DEF BuildInv
    <2>3. e.height \in Nat /\ e.round \in Nat
        BY EngineFields DEF BaseInv, TypeOK
    <2> QED BY <1>1, <2>1, <2>2, <2>3 DEF Built, StepNewHeight, StepPropose, StepPrevote
<1>7. NotAhead(e, l)
    BY <1>2 DEF NotAhead
<1> QED BY <1>1, <1>2, <1>3, <1>5, <1>6, <1>7 DEF BuildInv

\* Starting the round publishes nothing.
LEMMA StartRoundBuild ==
    ASSUME BaseInv, BuildInv, NEW v \in Validators, StartRound(v)
    PROVE  BuildInv'
<1> DEFINE e == eng[v]
           l == loop[v]
           at == [l EXCEPT !.pc = IF Leader(v, l.height) = v THEN "build" ELSE "await"]
<1>1. Effect(v) /\ l.pc = "pace" /\ UNCHANGED <<boots, proposals>>
    BY StartRoundEffect DEF StartRound, node
<1>2. CASE loop' = [loop EXCEPT ![v] = AtTop] /\ eng' = eng
    <2>1. loop'[v].pc = "top"
        BY <1>2, AtTopFacts DEF BaseInv, TypeOK
    <2> QED BY <1>1, <2>1, BuildKeeps
<1>3. CASE /\ e.step \in {StepNewHeight, StepPropose}
           /\ eng' = [eng EXCEPT ![v] = Afresh(e)] /\ loop' = [loop EXCEPT ![v] = at]
    <2>1. at.pc \in {"build", "await"} /\ at.height = l.height /\ at.round = l.round
        BY DEF BaseInv, TypeOK, LoopState
    <2> HIDE DEF at
    <2>2. loop'[v] = at /\ eng'[v] = Afresh(e)
          /\ \A u \in Validators : u # v => loop'[u] = loop[u] /\ eng'[u] = eng[u]
        BY <1>3 DEF BaseInv, TypeOK
    <2>3. /\ Afresh(e).height = e.height /\ Afresh(e).round = e.round /\ Afresh(e).step = StepPropose
          /\ e.height \in Nat /\ e.round \in Nat
        BY StartRoundFields, EngineFields DEF BaseInv, TypeOK, Afresh
    <2>4. \A p \in proposals : p \in Proposal /\ p.proposer \in Validators
        BY BlockHashFields DEF BaseInv, TypeOK
    <2>5. ASSUME NEW p \in proposals, p.boot = boots[p.proposer]
          PROVE  Built(p, eng'[p.proposer], loop'[p.proposer])
        <3>1. CASE p.proposer = v
            <4>1. Built(p, e, l)
                BY <2>5, <3>1 DEF BuildInv
            <4> QED BY <1>1, <1>3, <2>2, <2>3, <3>1, <4>1
                    DEF Built, StepNewHeight, StepPropose, StepPrevote
        <3>2. CASE p.proposer # v
            BY <2>2, <2>4, <2>5, <3>2 DEF BuildInv
        <3> QED BY <3>1, <3>2
    <2>6. NotAhead(Afresh(e), at)
        <3>1. NotAhead(e, l)
            BY <1>1 DEF BuildInv
        <3> QED BY <2>1, <2>3, <3>1 DEF NotAhead, StepPropose
    <2>7. \A p \in proposals : BlockHash(p) # <<at.height, at.round, v, boots[v]>>
        BY <1>1, <2>1 DEF BuildInv
    <2> QED BY <1>1, <2>2, <2>5, <2>6, <2>7 DEF BuildInv
<1> QED BY <1>2, <1>3 DEF StartRound, Become, LoopGoes, Afresh

\* Nor does building.
LEMMA BuildProposalBuild ==
    ASSUME BaseInv, BuildInv, NEW v \in Validators, BuildProposal(v)
    PROVE  BuildInv'
<1> DEFINE l == loop[v]
           pub == [l EXCEPT !.pc = "publish", !.prev = TipHash(v)]
           wait == [l EXCEPT !.pc = "await"]
<1>1. l.pc = "build" /\ UNCHANGED <<eng, boots, proposals>>
    BY DEF BuildProposal, node
<1>2. /\ pub.pc = "publish" /\ pub.height = l.height /\ pub.round = l.round
      /\ wait.pc = "await" /\ wait.height = l.height /\ wait.round = l.round
    BY DEF BaseInv, TypeOK, LoopState
<1>3. loop' = [loop EXCEPT ![v] = pub] \/ loop' = [loop EXCEPT ![v] = wait]
    BY DEF BuildProposal, LoopGoes
<1> HIDE DEF pub, wait
<1>4. /\ loop'[v].pc \in {"publish", "await"}
      /\ loop'[v].height = l.height /\ loop'[v].round = l.round
      /\ \A u \in Validators : u # v => loop'[u] = loop[u]
    BY <1>2, <1>3 DEF BaseInv, TypeOK
<1>5. \A p \in proposals : p \in Proposal /\ p.proposer \in Validators
    BY BlockHashFields DEF BaseInv, TypeOK
<1>6. ASSUME NEW p \in proposals, p.boot = boots[p.proposer]
      PROVE  Built(p, eng[p.proposer], loop'[p.proposer])
    BY <1>1, <1>4, <1>5, <1>6 DEF BuildInv, Built
<1>7. NotAhead(eng[v], loop'[v])
    BY <1>1, <1>4 DEF BuildInv, NotAhead
<1>8. \A p \in proposals : BlockHash(p) # <<l.height, l.round, v, boots[v]>>
    BY <1>1 DEF BuildInv
<1> QED BY <1>1, <1>4, <1>6, <1>7, <1>8 DEF BuildInv

\* Publishing leaves the loop waiting in the very round.
LEMMA PublishProposalBuild ==
    ASSUME BaseInv, BuildInv, NEW v \in Validators, PublishProposal(v)
    PROVE  BuildInv'
<1> DEFINE e == eng[v]
           l == loop[v]
           q == [height |-> l.height, round |-> l.round, proposer |-> v,
                 boot |-> boots[v], prev |-> l.prev]
           d == [e EXCEPT !.proposal = q]
           wait == [l EXCEPT !.pc = "await", !.prev = Nil]
<1>1. /\ l.pc = "publish" /\ boots' = boots
      /\ eng' = [eng EXCEPT ![v] = d] /\ loop' = [loop EXCEPT ![v] = wait]
      /\ proposals' = proposals \cup {q}
    BY DEF PublishProposal, LoopGoes, Become, node
<1>2. wait.pc = "await"
    BY DEF BaseInv, TypeOK, LoopState
<1>3. q.height = l.height /\ q.round = l.round /\ q.proposer = v /\ q.boot = boots[v]
    OBVIOUS
<1>4. d.height = e.height /\ d.round = e.round /\ d.step = e.step
      /\ e.height \in Nat /\ e.round \in Nat /\ e.step \in Nat
    BY EngineFields DEF BaseInv, TypeOK, Engine
<1> HIDE DEF q, d, wait
<1>5. /\ eng'[v] = d /\ loop'[v] = wait
      /\ \A u \in Validators : u # v => loop'[u] = loop[u] /\ eng'[u] = eng[u]
    BY <1>1 DEF BaseInv, TypeOK
<1>6. \A p \in proposals : p \in Proposal /\ p.proposer \in Validators
    BY BlockHashFields DEF BaseInv, TypeOK
<1>7. Built(q, d, wait)
    <2>1. NotAhead(e, l)
        BY <1>1 DEF BuildInv
    <2> QED BY <1>1, <1>2, <1>3, <1>4, <2>1 DEF NotAhead, Built, StepPropose, StepPrevote
<1>8. ASSUME NEW p \in proposals'
      PROVE  /\ p.boot <= boots[p.proposer]
             /\ p.boot = boots[p.proposer] => Built(p, eng'[p.proposer], loop'[p.proposer])
    <2>1. CASE p = q
        <3>1. boots[v] \in Nat
            BY TypeFacts DEF BaseInv, TypeOK
        <3> QED BY <1>3, <1>5, <1>7, <2>1, <3>1
    <2>2. CASE p \in proposals /\ p.proposer = v
        BY <1>2, <1>4, <1>5, <2>2 DEF BuildInv, Built
    <2>3. CASE p \in proposals /\ p.proposer # v
        BY <1>5, <1>6, <2>3 DEF BuildInv
    <2> QED BY <1>1, <2>1, <2>2, <2>3
<1>9. ASSUME NEW u \in Validators, loop'[u].pc \in {"pace", "build", "publish"}
      PROVE  /\ NotAhead(eng'[u], loop'[u])
             /\ \A p \in proposals' : BlockHash(p) # <<loop'[u].height, loop'[u].round, u, boots[u]>>
    <2>1. u # v
        BY <1>2, <1>5, <1>9
    <2>2. loop'[u] = loop[u] /\ eng'[u] = eng[u]
        BY <1>5, <2>1
    <2>3. BlockHash(q) # <<loop[u].height, loop[u].round, u, boots[u]>>
        BY <1>3, <2>1 DEF BlockHash
    <2> QED BY <1>1, <1>9, <2>2, <2>3 DEF BuildInv
<1> QED BY <1>1, <1>8, <1>9 DEF BuildInv

\* The wait ends in StepPrevote or later.
LEMMA EndProposeBuild ==
    ASSUME BaseInv, BuildInv, NEW v \in Validators, EndPropose(v)
    PROVE  BuildInv'
<1>1. /\ UNCHANGED <<boots, proposals>> /\ loop' = [loop EXCEPT ![v] = AtTop]
      /\ eng[v].step = StepPropose => EnterPrevote(v, eng[v])
    BY DEF EndPropose, LoopGoes, node
<1>2. loop'[v].pc = "top"
    BY <1>1, AtTopFacts DEF BaseInv, TypeOK
<1>3. eng[v].step = StepPropose => eng'[v].step >= StepPrevote
    <2>1. Ready(v, eng[v])
        BY BeforeReflexive DEF BaseInv, TypeOK, Ready
    <2>2. eng[v].step = StepPropose => eng'[v].step \in {StepPrevote, StepPrecommit}
        BY <1>1, <2>1, CastEffect
    <2> QED BY <2>2 DEF StepPrevote, StepPrecommit
<1>4. Effect(v)
    BY EndProposeEffect
<1> QED BY <1>1, <1>2, <1>3, <1>4, BuildKeeps

\* The steps at the top of the loop and the end of the loop's pause.
LEMMA LoopRestBuild ==
    ASSUME BaseInv, BuildInv, NEW v \in Validators,
           \/ PollPrevotes(v) \/ PrevoteTimeout(v) \/ PollPrecommits(v)
           \/ PrecommitTimeout(v) \/ LoopEndsCommit(v)
    PROVE  BuildInv'
<1>1. Effect(v)
    BY PrevoteStepEffect, PollPrecommitsEffect, PrecommitTimeoutEffect, LoopEndsCommitEffect
<1>2. /\ UNCHANGED <<boots, proposals>> /\ loop[v].pc \in {"top", "commit"}
      /\ \/ loop' = loop \/ loop' = [loop EXCEPT ![v] = AtTop]
         \/ loop' = [loop EXCEPT ![v] = [AtTop EXCEPT !.pc = "commit"]]
    <2>1. CASE PollPrecommits(v)
        BY <2>1, PollPrecommitsForm DEF CommitsNothing
    <2>2. CASE PollPrevotes(v) \/ PrevoteTimeout(v) \/ PrecommitTimeout(v) \/ LoopEndsCommit(v)
        BY <2>2 DEF PollPrevotes, PrevoteTimeout, PrecommitTimeout, LoopEndsCommit, LoopGoes, node
    <2> QED BY <2>1, <2>2
<1>3. loop'[v] = loop[v] \/ loop'[v].pc \in {"top", "commit"}
    BY <1>2, AtTopFacts DEF BaseInv, TypeOK
<1> QED BY <1>1, <1>2, <1>3, BuildKeeps

\* The message goroutines leave loop() where it is.
LEMMA HandlersBuild ==
    ASSUME BaseInv, BuildInv, NEW v \in Validators,
           \/ HandlerEndsCommit(v) \/ Receive(v) \/ \E u \in Validators : Unjail(v, u)
    PROVE  BuildInv'
<1>1. Effect(v)
    BY HandlerEndsCommitEffect, HandleProposalEffect, HandleVoteEffect, FollowOutsiderEffect,
       GossipBlockEffect, UnjailEffect DEF Receive
<1>2. UNCHANGED <<boots, proposals, loop>>
    <2>1. CASE \E m \in votes : HandleVote(v, m)
        <3>1. PICK m \in votes : HandleVote(v, m)
            BY <2>1
        <3>2. UNCHANGED <<boots, proposals>>
            BY <3>1 DEF HandleVote, Observe
        <3>3. UNCHANGED loop
            BY <3>1, HandleVoteForm DEF CommitsNothing
        <3> QED BY <3>2, <3>3
    <2>2. CASE \E p \in proposals : HandleProposal(v, p)
        BY <2>2 DEF HandleProposal, node
    <2>3. CASE \/ \E a \in announces : GossipBlock(v, a)
               \/ \E o \in Outside : FollowOutsider(v, o[1], o[2])
        BY <2>3 DEF GossipBlock, FollowOutsider, node
    <2>4. CASE HandlerEndsCommit(v) \/ \E u \in Validators : Unjail(v, u)
        BY <2>4 DEF HandlerEndsCommit, Unjail, node
    <2> QED BY <2>1, <2>2, <2>3, <2>4 DEF Receive
<1> QED BY <1>1, <1>2, BuildKeeps

\* BuildInv is inductive on top of BaseInv.
LEMMA BuildStep == BaseInv /\ BuildInv /\ [Next]_vars => BuildInv'
<1> SUFFICES ASSUME BaseInv, BuildInv, [Next]_vars PROVE BuildInv'
    OBVIOUS
<1>1. CASE \E v \in Validators : Loop(v)
    BY <1>1, RunProposeBuild, StartRoundBuild, BuildProposalBuild, PublishProposalBuild,
       EndProposeBuild, LoopRestBuild DEF Loop
<1>2. CASE \E v \in Validators : HandlerEndsCommit(v) \/ Receive(v)
    BY <1>2, HandlersBuild
<1>3. CASE \E v \in Validators : Restart(v)
    BY <1>3, RestartBuild
<1>4. CASE \E v, u \in Validators : Unjail(v, u)
    BY <1>4, HandlersBuild
<1>5. CASE UNCHANGED vars
    BY <1>5 DEF vars, BuildInv
<1> QED BY <1>1, <1>2, <1>3, <1>4, <1>5 DEF Next, Finished

(***************************************************************************)
(* runPropose never signs a second proposal for one height and round in    *)
(* one life of the process, although it works with values read before it   *)
(* waited: BuildsOncePerRound.                                             *)
(***************************************************************************)
THEOREM BuildHolds == Spec => []BuildsOncePerRound
<1>1. Init => BuildInv
    BY AtTopFacts DEF Init, BuildInv
<1>2. BuildInv => BuildsOncePerRound
    BY DEF BuildInv, BuildsOncePerRound
<1> QED BY <1>1, <1>2, BuildStep, BaseInvHolds, PTL DEF Spec
-----------------------------------------------------------------------------
\* A commit by either goroutine is one of the proposal the engine had before the message.
LEMMA HandleVoteStores ==
    ASSUME BaseInv, NEW v \in Validators, NEW m \in votes, HandleVote(v, m)
    PROVE  \/ UNCHANGED <<chain, tip, announces>>
           \/ \E e : /\ Ready(v, e) /\ CommitsBlock(v, e)
                     /\ e.proposal = eng[v].proposal /\ UNCHANGED <<votes, proposals, loop>>
<1> DEFINE e == AdoptNewer(eng[v], m.round)
           pv == AddPrevote(e, m)
           pc == AddPrecommit(e, m)
<1>1. /\ handler[v] = "ready" /\ m.height = eng[v].height /\ UNCHANGED proposals
      /\ \/ UNCHANGED <<chain, tip, announces>>
         \/ /\ m.type = "precommit" /\ m.round = e.round
            /\ CommitsBlock(v, pc) /\ UNCHANGED <<votes, loop>>
    BY HandleVoteForm DEF CommitsNothing, store
<1>2. m \in Vote /\ m.height \in Heights /\ m.round \in Rounds
      /\ m.voter \in Validators /\ m.hash \in Blocks \cup {Nil}
    BY VoteIsMkVote DEF BaseInv, TypeOK
<1>3. /\ Ready(v, e) /\ e \in Engine /\ e.height = eng[v].height
      /\ e = eng[v] \/ e.step = StepPropose
    BY <1>1, <1>2, AdoptNode
<1> HIDE DEF e
<1>4. EngOK(v, e, votes, proposals, boots[v]) /\ votes \in SUBSET Vote /\ Before(eng[v], e)
      /\ eng[v] \in Engine
    BY <1>3 DEF Ready, BaseInv, TypeOK
<1>5. m.type = "precommit" /\ m.round = e.round =>
        EngOK(v, pc, votes, proposals, boots[v]) /\ Before(e, pc) /\ pc.step = e.step
    <2>1. m \in votes /\ m.height = e.height
        BY <1>1, <1>3
    <2> QED BY ONLY <1>4, <2>1, v \in Validators, BallotKeeps
<1>6. pc.proposal = e.proposal
    <2>1. <<m.voter, m.hash>> \in Validators \X (Blocks \cup {Nil})
        BY <1>2
    <2> QED BY <1>3, <2>1, BallotFields DEF AddPrecommit
<1> HIDE DEF pc
<1>7. m.type = "precommit" /\ m.round = e.round => Ready(v, pc)
    BY <1>3, <1>4, <1>5, BeforeTransitive DEF Ready, EngOK
<1>8. CommitsBlock(v, pc) /\ m.type = "precommit" /\ m.round = e.round =>
          pc.proposal = eng[v].proposal
    BY <1>3, <1>5, <1>6 DEF CommitsBlock, StepPropose, StepPrecommit
<1> QED BY <1>1, <1>7, <1>8

\* The only steps that write a store: a commit and the block gossip handler.
LEMMA StoreForm ==
    ASSUME BaseInv, Next
    PROVE  \/ UNCHANGED <<chain, tip, announces>>
           \/ \E v \in Validators : \E e :
                 /\ Ready(v, e) /\ CommitsBlock(v, e)
                 /\ e.proposal = eng[v].proposal /\ UNCHANGED <<votes, proposals>>
           \/ \E v \in Validators, a \in announces : GossipBlock(v, a)
<1>1. CASE \E v \in Validators : PollPrecommits(v)
    <2>1. PICK v \in Validators : PollPrecommits(v)
        BY <1>1
    <2>2. Ready(v, eng[v])
        BY BeforeReflexive DEF BaseInv, TypeOK, Ready
    <2> QED BY <2>1, <2>2, PollPrecommitsForm DEF CommitsNothing, store
<1>2. CASE \E v \in Validators : \E m \in votes : HandleVote(v, m)
    BY <1>2, HandleVoteStores
<1>3. CASE \E v \in Validators : \E a \in announces : GossipBlock(v, a)
    BY <1>3
<1>4. CASE \E v \in Validators :
              \/ RunPropose(v) \/ StartRound(v) \/ BuildProposal(v) \/ PublishProposal(v)
              \/ EndPropose(v) \/ PollPrevotes(v) \/ PrevoteTimeout(v)
              \/ PrecommitTimeout(v) \/ LoopEndsCommit(v) \/ HandlerEndsCommit(v)
    BY <1>4 DEF RunPropose, StartRound, BuildProposal, PublishProposal, EndPropose, PollPrevotes,
                PrevoteTimeout, PrecommitTimeout, LoopEndsCommit, HandlerEndsCommit, store
<1>5. CASE \E v \in Validators : Restart(v) \/ \E p \in proposals : HandleProposal(v, p)
    BY <1>5 DEF Restart, HandleProposal, store
<1>o. CASE \E v \in Validators : \E o \in Outside : FollowOutsider(v, o[1], o[2])
    BY <1>o DEF FollowOutsider, store
<1>6. CASE \E v, u \in Validators : Unjail(v, u)
    BY <1>6 DEF Unjail, store
<1>7. CASE Finished
    BY <1>7 DEF Finished, vars
<1> QED BY <1>1, <1>2, <1>3, <1>4, <1>5, <1>o, <1>6, <1>7 DEF Next, Loop, Receive

\* Votes and proposals are never taken back.
LEMMA VotesGrow ==
    ASSUME BaseInv, [Next]_vars
    PROVE  votes \subseteq votes' /\ proposals \subseteq proposals'
<1>1. CASE UNCHANGED vars
    BY <1>1 DEF vars
<1>2. CASE \E v \in Validators : Effect(v)
    BY <1>2, VotingOutcome DEF Effect
<1> QED BY <1>1, <1>2, NextEffect

\* A certificate stays one: votes are never taken back.
LEMMA CertifiedStable ==
    ASSUME NEW h, NEW x, Certified(h, x), votes \subseteq votes'
    PROVE  Certified(h, x)'
<1>1. PICK r \in Rounds :
         Cardinality({u \in Validators : MkVote("precommit", h, r, u, x) \in votes}) >= Quorum
    BY DEF Certified
<1> DEFINE A == {u \in Validators : MkVote("precommit", h, r, u, x) \in votes}
           B == {u \in Validators : MkVote("precommit", h, r, u, x) \in votes'}
<1>2. A \subseteq B /\ B \subseteq Validators
    OBVIOUS
<1>3. Cardinality(A) >= Quorum
    BY <1>1
<1> HIDE DEF A, B
<1>4. IsFiniteSet(B)
    BY <1>2, SeveralValidators, FS_Subset
<1>5. Cardinality(A) <= Cardinality(B) /\ IsFiniteSet(A)
    BY <1>2, <1>4, FS_Subset
<1>6. Cardinality(A) \in Nat /\ Cardinality(B) \in Nat
    BY <1>4, <1>5, FS_CardinalityType
<1>7. Cardinality(B) >= Quorum
    BY <1>3, <1>5, <1>6, QuorumFacts
<1> QED BY <1>7 DEF B, Certified

\* What the stores hold and what is announced was committed by +2/3.
CertInv ==
    /\ StoredBlocksCertified
    /\ \A a \in announces :
          a.block \in proposals /\ Certified(a.block.height, BlockHash(a.block))

\* CertInv is inductive on top of BaseInv.
LEMMA CertStep == BaseInv /\ CertInv /\ [Next]_vars => CertInv'
<1> SUFFICES ASSUME BaseInv, CertInv, [Next]_vars PROVE CertInv'
    OBVIOUS
<1>1. votes \subseteq votes' /\ proposals \subseteq proposals'
    BY VotesGrow
<1>2. \A h, x : Certified(h, x) => Certified(h, x)'
    BY <1>1, CertifiedStable
<1>3. ASSUME NEW v \in Validators, NEW p \in proposals, p \in Proposal, SaveBlock(v, p),
             Certified(p.height, BlockHash(p))
      PROVE  StoredBlocksCertified'
    <2>1. /\ chain'[v][p.height] = BlockHash(p)
          /\ \A h \in Heights : h # p.height => chain'[v][h] = chain[v][h]
          /\ \A u \in Validators \ {v} : chain'[u] = chain[u]
        BY <1>3, SaveBlockFacts DEF BaseInv
    <2>2. ASSUME NEW u \in Validators, NEW h \in Heights, chain'[u][h] # Nil
          PROVE  Certified(h, chain[u][h])'
        <3>1. PICK x : x = chain'[u][h]
            OBVIOUS
        <3>2. CASE u = v /\ h = p.height
            BY <1>2, <1>3, <2>1, <3>1, <3>2
        <3>3. CASE u # v \/ h # p.height
            <4>1. x = chain[u][h]
                BY <2>1, <3>1, <3>3
            <4>2. Certified(h, x)'
                BY <1>2, <2>2, <3>1, <4>1 DEF CertInv, StoredBlocksCertified
            <4> QED BY <3>1, <4>2
        <3> QED BY <3>2, <3>3
    <2> QED BY <2>2 DEF StoredBlocksCertified
<1>4. CASE UNCHANGED <<chain, tip, announces>>
    BY <1>1, <1>2, <1>4 DEF CertInv, StoredBlocksCertified
<1>5. CASE \E v \in Validators : \E e :
              /\ Ready(v, e) /\ CommitsBlock(v, e) /\ UNCHANGED <<votes, proposals>>
    <2>0. PICK v \in Validators : \E e : Ready(v, e) /\ CommitsBlock(v, e)
        BY <1>5
    <2>1. PICK e : Ready(v, e) /\ CommitsBlock(v, e)
        BY <2>0
    <2>2. /\ e.proposal \in Proposal /\ e.proposal \in proposals
          /\ e.proposal.height = e.height /\ SaveBlock(v, e.proposal)
          /\ announces' = announces \cup {[block |-> e.proposal, signer |-> v]}
          /\ Certified(e.height, BlockHash(e.proposal))
        BY <2>1, CommitsBlockFacts
    <2>3. StoredBlocksCertified'
        BY <1>3, <2>2
    <2> QED BY <1>1, <1>2, <2>2, <2>3 DEF CertInv
<1>6. CASE \E v \in Validators, a \in announces : GossipBlock(v, a)
    <2>1. PICK v \in Validators, a \in announces : GossipBlock(v, a)
        BY <1>6
    <2>2. SaveBlock(v, a.block) /\ announces' = announces
        BY <2>1 DEF GossipBlock
    <2>3. a.block \in proposals /\ a.block \in Proposal
          /\ Certified(a.block.height, BlockHash(a.block))
        BY DEF CertInv, BaseInv, TypeOK
    <2>4. StoredBlocksCertified'
        BY <1>3, <2>2, <2>3
    <2> QED BY <1>1, <1>2, <2>2, <2>4 DEF CertInv
<1> QED BY <1>4, <1>5, <1>6, StoreForm DEF vars

(***************************************************************************)
(* Every block in a store has +2/3 precommits behind it, also the blocks   *)
(* that VerifyAndSaveGossipedBlockStrict takes over:                       *)
(* StoredBlocksCertified.                                                  *)
(***************************************************************************)
THEOREM CertHolds == Spec => []StoredBlocksCertified
<1>1. Init => CertInv
    BY DEF Init, CertInv, StoredBlocksCertified
<1>2. CertInv => StoredBlocksCertified
    BY DEF CertInv
<1> QED BY <1>1, <1>2, CertStep, BaseInvHolds, PTL DEF Spec
-----------------------------------------------------------------------------
(***************************************************************************)
(* The agreement theorem of BFTVotingProofs, for the votes of the engines. *)
(***************************************************************************)
VP == INSTANCE BFTVotingProofs WITH Faulty <- Restartable,
                                    votes <- {m \in votes : m.voter \notin Restartable}

\* Fewer than a third of the validators ever restart.
FewRestart == Cardinality(Restartable) <= (Cardinality(Validators) - 1) \div 3

\* The two instances of BFTVoting have the same quorums.
LEMMA SameQuorums ==
    /\ VP!Quorums = V!Quorums /\ VP!Honest = V!Honest
    /\ VP!Cardinality(Restartable) = Cardinality(Restartable)
    /\ VP!Cardinality(Validators) = Cardinality(Validators)
    /\ VP!IsFiniteSet(Validators) <=> IsFiniteSet(Validators)
<1>1. \A S : VP!Cardinality(S) = V!Cardinality(S) /\ VP!Cardinality(S) = Cardinality(S)
    BY DEF VP!Cardinality, V!Cardinality, Cardinality
<1>2. VP!IsFiniteSet(Validators) <=> IsFiniteSet(Validators)
    BY DEF VP!IsFiniteSet, IsFiniteSet
<1>3. \A n : VP!QuorumSize(n) = V!QuorumSize(n)
    BY DEF VP!QuorumSize, V!QuorumSize
<1>4. VP!Quorums = V!Quorums
    BY <1>1, <1>3 DEF VP!Quorums, V!Quorums
<1> QED BY <1>1, <1>2, <1>4 DEF VP!Honest, V!Honest

\* And the same steps.
LEMMA SameVoting == (VP!Init <=> V!Init) /\ (V!Next => VP!Next)
<1>1. \A t, h, r, v, x : VP!MkVote(t, h, r, v, x) = V!MkVote(t, h, r, v, x)
    BY DEF VP!MkVote, V!MkVote
<1>2. \A t, v, h : VP!RoundsVoted(t, v, h) = V!RoundsVoted(t, v, h)
    BY DEF VP!RoundsVoted, V!RoundsVoted
<1>3. \A v, h : VP!Locks(v, h) = V!Locks(v, h)
    BY DEF VP!Locks, V!Locks
<1>4. \A v, h, x : VP!LockedOn(v, h, x) <=> V!LockedOn(v, h, x)
    BY <1>3 DEF VP!LockedOn, V!LockedOn
<1>5. \A t, h, r, x : VP!HasQuorum(t, h, r, x) <=> V!HasQuorum(t, h, r, x)
    BY <1>1, SameQuorums DEF VP!HasQuorum, V!HasQuorum
<1>6. \A v, h, r, x : V!Prevote(v, h, r, x) => VP!Prevote(v, h, r, x)
    BY <1>1, <1>2, <1>3, <1>4 DEF VP!Prevote, V!Prevote, VP!MayPrevote, V!MayPrevote,
                                  VP!PrevoteRule, V!PrevoteRule
<1>7. \A v, h, r, x : V!Precommit(v, h, r, x) => VP!Precommit(v, h, r, x)
    BY <1>1, <1>2, <1>5 DEF VP!Precommit, V!Precommit, VP!MayPrecommit, V!MayPrecommit
<1>8. VP!Init <=> V!Init
    BY DEF VP!Init, V!Init
<1> QED BY <1>6, <1>7, <1>8, SameQuorums DEF VP!Next, V!Next

\* One committable block per height, for the votes of these engines.
LEMMA AgreementOfEngines == FewRestart => (Spec => []VP!Agreement)
<1> SUFFICES ASSUME FewRestart PROVE Spec => []VP!Agreement
    OBVIOUS
<1>1. VP!ValidatorsFinite
    <2>1. Validators # {}
        BY SeveralValidators, FS_EmptySet
    <2> QED BY <2>1, SameQuorums, SeveralValidators DEF VP!ValidatorsFinite
<1>2. VP!FaultyMinority
    BY SameQuorums, RestartableType DEF VP!FaultyMinority, FewRestart
<1>3. VP!RoundsNat
    BY TypeFacts DEF VP!RoundsNat
<1>4. VP!NilIsNoBlock
    BY HashesDistinct DEF VP!NilIsNoBlock
<1>5. VP!Spec => []VP!Agreement
    BY ONLY <1>1, <1>2, <1>3, <1>4, VP!AgreementHolds
<1>6. V!Spec => VP!Spec
    BY SameVoting, PTL DEF V!Spec, VP!Spec
<1> QED BY <1>5, <1>6, EngineImplementsVoting, PTL DEF ImplementsVoting

\* With a minority restarting, a height has one certified block.
LEMMA CertifiedAgree ==
    ASSUME VP!Agreement, NEW h \in Heights, NEW x \in Blocks, NEW y \in Blocks,
           Certified(h, x), Certified(h, y)
    PROVE  x = y
<1>1. ASSUME NEW z \in Blocks, Certified(h, z) PROVE VP!Chosen(h, z)
    <2>1. PICK r \in Rounds :
             Cardinality({u \in Validators : MkVote("precommit", h, r, u, z) \in votes}) >= Quorum
        BY <1>1 DEF Certified
    <2> DEFINE Q == {u \in Validators : MkVote("precommit", h, r, u, z) \in votes}
    <2>2. Q \in SUBSET Validators /\ Cardinality(Q) >= Quorum
        BY <2>1
    <2>3. \A u \in Q \ Restartable :
             VP!MkVote("precommit", h, r, u, z) \in {m \in votes : m.voter \notin Restartable}
        BY VoteFields DEF VP!MkVote, MkVote
    <2> HIDE DEF Q
    <2>4. Q \in VP!Quorums
        BY <2>2, QuorumsOfV, SameQuorums
    <2>5. VP!HasQuorum("precommit", h, r, z)
        BY <2>3, <2>4 DEF VP!HasQuorum
    <2> QED BY <2>1, <2>5, HashesDistinct DEF VP!Chosen
<1> QED BY <1>1 DEF VP!Agreement

\* In store c a block of height h with parent x goes on top of what is there.
Fits(c, h, x) ==
    /\ x = IF h = 1 THEN Genesis ELSE c[h - 1]
    /\ \A g \in 1..h - 1 : c[g] # Nil

\* What fits a store fits it when blocks are added.
LEMMA FitsStays ==
    ASSUME NEW c, NEW d, NEW h \in Heights, NEW x, Fits(c, h, x),
           \A g \in Heights : c[g] # Nil => d[g] = c[g]
    PROVE  Fits(d, h, x)
<1>1. h \in Nat /\ h >= 1 /\ h <= MaxHeight /\ MaxHeight \in Nat
    BY BoundsNat DEF Heights
<1>2. \A g \in 1..h - 1 : g \in Heights /\ c[g] # Nil /\ d[g] = c[g]
    BY <1>1 DEF Fits, Heights
<1>3. h # 1 => h - 1 \in 1..h - 1
    BY <1>1
<1> QED BY <1>2, <1>3 DEF Fits

\* Every block stored, at hand or about to be published has its parents in the store.
LinkInv == \A v \in Validators :
    /\ \A h \in Heights : chain[v][h] # Nil =>
          \E p \in proposals : /\ BlockHash(p) = chain[v][h] /\ p.height = h
                               /\ Fits(chain[v], h, p.prev)
    /\ eng[v].proposal # NoProposal =>
          Fits(chain[v], eng[v].proposal.height, eng[v].proposal.prev)
    /\ loop[v].pc = "publish" => Fits(chain[v], loop[v].height, loop[v].prev)

\* A block linked to the tip fits.
LEMMA TipFits ==
    ASSUME BaseInv, LinkInv, NEW v \in Validators
    PROVE  Fits(chain[v], tip[v] + 1, TipHash(v))
<1>1. tip[v] \in Nat /\ (tip[v] > 0 => tip[v] \in Heights)
    <2>1. tip[v] \in 0..MaxHeight
        BY DEF BaseInv, TypeOK
    <2> QED BY <2>1, BoundsNat DEF Heights
<1>2. CASE tip[v] = 0
    BY <1>2 DEF Fits, TipHash
<1>3. CASE tip[v] > 0
    <2>1. chain[v][tip[v]] # Nil
        BY <1>3 DEF BaseInv, NodeOK
    <2>2. \A g \in 1..tip[v] - 1 : chain[v][g] # Nil
        BY <1>1, <1>3, <2>1 DEF LinkInv, Fits
    <2>3. \A g \in 1..(tip[v] + 1) - 1 : g = tip[v] \/ g \in 1..tip[v] - 1
        BY <1>1
    <2>4. tip[v] + 1 # 1 /\ (tip[v] + 1) - 1 = tip[v] /\ tip[v] # 0
        BY <1>1, <1>3
    <2> QED BY <2>1, <2>2, <2>3, <2>4 DEF Fits, TipHash
<1> QED BY <1>1, <1>2, <1>3

\* A store is only added to: a height that holds a block keeps it.
LEMMA StoreGrows ==
    ASSUME BaseInv, CertInv, VP!Agreement, Next,
           NEW u \in Validators, NEW g \in Heights, chain[u][g] # Nil
    PROVE  chain'[u][g] = chain[u][g]
<1>1. ASSUME NEW v \in Validators, NEW p \in Proposal, SaveBlock(v, p),
             Certified(p.height, BlockHash(p))
      PROVE  chain'[u][g] = chain[u][g]
    <2>1. /\ chain'[v][p.height] = BlockHash(p)
          /\ \A h \in Heights : h # p.height => chain'[v][h] = chain[v][h]
          /\ \A w \in Validators \ {v} : chain'[w] = chain[w]
        BY <1>1, SaveBlockFacts DEF BaseInv
    <2>2. CASE u = v /\ g = p.height
        <3>1. chain[u][g] \in Blocks /\ BlockHash(p) \in Blocks
            BY BlockHashFields DEF BaseInv, TypeOK
        <3>2. Certified(g, chain[u][g])
            BY DEF CertInv, StoredBlocksCertified
        <3> QED BY <1>1, <2>1, <2>2, <3>1, <3>2, CertifiedAgree
    <2> QED BY <2>1, <2>2
<1>2. CASE \E v \in Validators : \E e : Ready(v, e) /\ CommitsBlock(v, e)
    BY <1>1, <1>2, CommitsBlockFacts
<1>3. CASE \E v \in Validators, a \in announces : GossipBlock(v, a)
    BY <1>1, <1>3 DEF GossipBlock, CertInv, BaseInv, TypeOK
<1> QED BY <1>2, <1>3, StoreForm

\* What is newly stored was proposed for its height and fits the store.
LEMMA NewBlockFits ==
    ASSUME BaseInv, CertInv, LinkInv, Next,
           NEW u \in Validators, NEW g \in Heights, chain'[u][g] # chain[u][g]
    PROVE  \E p \in proposals : /\ BlockHash(p) = chain'[u][g] /\ p.height = g
                                /\ Fits(chain[u], g, p.prev)
<1>1. ASSUME NEW v \in Validators, NEW p \in Proposal, SaveBlock(v, p)
      PROVE  u = v /\ g = p.height /\ chain'[u][g] = BlockHash(p)
    BY <1>1, SaveBlockFacts DEF BaseInv
<1>2. CASE \E v \in Validators : \E e :
              Ready(v, e) /\ CommitsBlock(v, e) /\ e.proposal = eng[v].proposal
    <2>0. PICK v \in Validators : \E e :
              Ready(v, e) /\ CommitsBlock(v, e) /\ e.proposal = eng[v].proposal
        BY <1>2
    <2>1. PICK e : Ready(v, e) /\ CommitsBlock(v, e) /\ e.proposal = eng[v].proposal
        BY <2>0
    <2>2. e.proposal \in Proposal /\ e.proposal \in proposals /\ SaveBlock(v, e.proposal)
        BY <2>1, CommitsBlockFacts
    <2>3. Fits(chain[v], e.proposal.height, e.proposal.prev)
        BY <2>1, <2>2, NilPointer DEF LinkInv
    <2>4. u = v /\ g = e.proposal.height /\ chain'[u][g] = BlockHash(e.proposal)
        BY <1>1, <2>2
    <2> QED BY <2>2, <2>3, <2>4
<1>3. CASE \E v \in Validators, a \in announces : GossipBlock(v, a)
    <2>1. PICK v \in Validators, a \in announces : GossipBlock(v, a)
        BY <1>3
    <2>2. /\ SaveBlock(v, a.block) /\ a.block.height = tip[v] + 1 /\ a.block.prev = TipHash(v)
          /\ a.block \in Proposal /\ a.block \in proposals
        BY <2>1 DEF GossipBlock, CertInv, BaseInv, TypeOK
    <2>3. Fits(chain[v], a.block.height, a.block.prev)
        BY <2>2, TipFits
    <2>4. u = v /\ g = a.block.height /\ chain'[u][g] = BlockHash(a.block)
        BY <1>1, <2>2
    <2> QED BY <2>2, <2>3, <2>4
<1> QED BY <1>2, <1>3, StoreForm

\* The changes of an engine that come with no new proposal.
LEMMA SameProposal ==
    ASSUME NEW v, NEW e \in Engine, NEW x, NEW r, NEW m, NEW h
    PROVE  /\ Prevoted(v, e, x).proposal = e.proposal
           /\ Precommitted(v, e, x).proposal = e.proposal
           /\ AddPrevote(e, m).proposal = e.proposal /\ AddPrecommit(e, m).proposal = e.proposal
           /\ [e EXCEPT !.step = StepCommit].proposal = e.proposal
           /\ Afresh(e).proposal = NoProposal /\ NextRound(e).proposal = NoProposal
           /\ AdvanceHeight(e).proposal = NoProposal /\ StartOf(h).proposal = NoProposal
           /\ AdoptNewer(e, r).proposal \in {NoProposal, e.proposal}
BY DEF Engine, Prevoted, Precommitted, AddPrevote, AddPrecommit, Afresh, NextRound, AdvanceHeight,
       StartOf, AdoptNewer, AdoptRound

\* The engine of v ends with e's proposal or none, and no other engine moves.
OldProposal(v, e) ==
    /\ eng'[v].proposal \in {NoProposal, e.proposal}
    /\ \A u \in Validators \ {v} : eng'[u] = eng[u]

\* Casting a vote brings no proposal.
LEMMA CastProposal ==
    ASSUME TypeOK, NEW v \in Validators, NEW e \in Engine,
           EnterPrevote(v, e) \/ \E x : CastPrecommit(v, e, x)
    PROVE  OldProposal(v, e)
<1>1. PICK d : eng' = [eng EXCEPT ![v] = d] /\ d.proposal = e.proposal
    <2>1. CASE EnterPrevote(v, e)
        <3>1. eng' = [eng EXCEPT ![v] = Prevoted(v, e, PrevoteHash(e))]
            BY <2>1 DEF EnterPrevote, Become, Prevoted
        <3>2. Prevoted(v, e, PrevoteHash(e)).proposal = e.proposal
            BY SameProposal
        <3> QED BY <3>1, <3>2
    <2>2. CASE \E x : CastPrecommit(v, e, x)
        <3>1. PICK x : CastPrecommit(v, e, x)
            BY <2>2
        <3>2. eng' = [eng EXCEPT ![v] = Precommitted(v, e, x)]
            BY <3>1 DEF CastPrecommit, Become, Precommitted
        <3>3. Precommitted(v, e, x).proposal = e.proposal
            BY SameProposal
        <3> QED BY <3>2, <3>3
    <2> QED BY <2>1, <2>2
<1> QED BY <1>1 DEF TypeOK, OldProposal

\* Nor does tryFinalizePrecommitsLocked.
LEMMA FinalizeProposal ==
    ASSUME TypeOK, NEW v \in Validators, NEW e \in Engine,
           CommitsBlock(v, e) \/ CommitsNothing(v, e)
    PROVE  OldProposal(v, e)
<1>1. PICK d : eng' = [eng EXCEPT ![v] = d] /\ d.proposal \in {NoProposal, e.proposal}
    <2>1. CASE CommitsBlock(v, e)
        <3>1. eng' = [eng EXCEPT ![v] = [e EXCEPT !.step = StepCommit]]
            BY <2>1 DEF CommitsBlock, Become
        <3> QED BY <3>1, SameProposal
    <2>2. CASE CommitsNothing(v, e)
        <3>1. \/ eng' = [eng EXCEPT ![v] = AdvanceHeight(e)]
              \/ eng' = [eng EXCEPT ![v] = NextRound(e)]
              \/ eng' = [eng EXCEPT ![v] = e]
            BY <2>2 DEF CommitsNothing, Become
        <3> QED BY <3>1, SameProposal
    <2> QED BY <2>1, <2>2
<1> QED BY <1>1 DEF TypeOK, OldProposal

\* Of the loop's steps only PublishProposal brings one.
LEMMA LoopProposal ==
    ASSUME TypeOK, NEW v \in Validators, Loop(v), ~PublishProposal(v)
    PROVE  OldProposal(v, eng[v])
<1>1. eng[v] \in Engine
    BY DEF TypeOK
<1>2. CASE RunPropose(v) \/ BuildProposal(v)
    BY <1>2 DEF RunPropose, BuildProposal, OldProposal
<1>3. CASE StartRound(v)
    <2>1. eng' = eng \/ eng' = [eng EXCEPT ![v] = Afresh(eng[v])]
        BY <1>3 DEF StartRound, Become, Afresh
    <2> QED BY <1>1, <2>1, SameProposal DEF TypeOK, OldProposal
<1>4. CASE EndPropose(v)
    <2>1. eng' = eng \/ EnterPrevote(v, eng[v])
        BY <1>4 DEF EndPropose
    <2> QED BY <1>1, <2>1, CastProposal DEF OldProposal
<1>5. CASE PollPrevotes(v) \/ PrevoteTimeout(v)
    BY <1>1, <1>5, CastProposal DEF PollPrevotes, PrevoteTimeout, TryFinalizePrevotes
<1>6. CASE PollPrecommits(v)
    BY <1>1, <1>6, PollPrecommitsForm, FinalizeProposal
<1>7. CASE PrecommitTimeout(v) \/ LoopEndsCommit(v)
    <2>1. \/ eng' = [eng EXCEPT ![v] = NextRound(eng[v])]
          \/ eng' = [eng EXCEPT ![v] = AdvanceHeight(eng[v])]
        BY <1>7 DEF PrecommitTimeout, LoopEndsCommit, Become
    <2> QED BY <1>1, <2>1, SameProposal DEF TypeOK, OldProposal
<1> QED BY <1>2, <1>3, <1>4, <1>5, <1>6, <1>7 DEF Loop

\* HandleVote brings none.
LEMMA HandleVoteProposal ==
    ASSUME TypeOK, NEW v \in Validators, NEW m \in votes, HandleVote(v, m)
    PROVE  OldProposal(v, eng[v])
<1> DEFINE e == AdoptNewer(eng[v], m.round)
           pv == AddPrevote(e, m)
           pc == AddPrecommit(e, m)
<1>1. /\ m.round \in Rounds /\ m.voter \in Validators /\ m.hash \in Blocks \cup {Nil}
      /\ eng[v] \in Engine
    BY VoteIsMkVote DEF TypeOK
<1>2. e \in Engine /\ e.proposal \in {NoProposal, eng[v].proposal}
    <2>1. e \in Engine
        BY <1>1, AdoptFields DEF AdoptNewer
    <2>2. e.proposal \in {NoProposal, eng[v].proposal}
        BY <1>1, SameProposal
    <2> QED BY <2>1, <2>2
<1>3. \/ TryFinalizePrevotes(v, pv) \/ CommitsBlock(v, pc) \/ CommitsNothing(v, pc)
      \/ Become(v, e)
    BY HandleVoteForm
<1> HIDE DEF e
<1>4. pv \in Engine /\ pc \in Engine /\ pv.proposal = e.proposal /\ pc.proposal = e.proposal
    <2>1. <<m.voter, m.hash>> \in Validators \X (Blocks \cup {Nil})
        BY <1>1
    <2> QED BY <1>2, <2>1, BallotFields DEF AddPrevote, AddPrecommit
<1> HIDE DEF pv, pc
<1>5. CASE Become(v, e)
    BY <1>2, <1>5 DEF Become, TypeOK, OldProposal
<1>6. CASE TryFinalizePrevotes(v, pv)
    <2>1. CASE Become(v, pv)
        BY <1>2, <1>4, <2>1 DEF Become, TypeOK, OldProposal
    <2>2. CASE \E x : CastPrecommit(v, pv, x)
        BY <1>2, <1>4, <2>2, CastProposal DEF OldProposal
    <2> QED BY <1>6, <2>1, <2>2 DEF TryFinalizePrevotes
<1>7. CASE CommitsBlock(v, pc) \/ CommitsNothing(v, pc)
    BY <1>2, <1>4, <1>7, FinalizeProposal DEF OldProposal
<1> QED BY <1>3, <1>5, <1>6, <1>7

\* Where an engine's proposal comes from: built here, or accepted by validateProposalLocked.
LEMMA ProposalForm ==
    ASSUME TypeOK, Next, NEW u \in Validators
    PROVE  \/ eng'[u].proposal \in {NoProposal, eng[u].proposal}
           \/ \E p \in proposals : eng'[u].proposal = p /\ ValidProposal(u, p)
           \/ PublishProposal(u)
<1>1. CASE \E v \in Validators : Loop(v)
    <2>1. PICK v \in Validators : Loop(v)
        BY <1>1
    <2>2. CASE PublishProposal(v)
        BY <2>2 DEF PublishProposal, Become, TypeOK
    <2>3. CASE ~PublishProposal(v)
        BY <2>1, <2>3, LoopProposal DEF OldProposal
    <2> QED BY <2>2, <2>3
<1>2. CASE \E v \in Validators : HandlerEndsCommit(v)
    <2>1. PICK v \in Validators : HandlerEndsCommit(v)
        BY <1>2
    <2>2. eng' = [eng EXCEPT ![v] = AdvanceHeight(eng[v])] /\ eng[v] \in Engine
        BY <2>1 DEF HandlerEndsCommit, Become, TypeOK
    <2> QED BY <2>2, SameProposal DEF TypeOK
<1>3. CASE \E v \in Validators : Restart(v)
    <2>1. PICK v \in Validators : Restart(v)
        BY <1>3
    <2>2. eng' = [eng EXCEPT ![v] = StartOf(tip[v] + 1)] /\ eng[v] \in Engine
        BY <2>1 DEF Restart, Become, TypeOK
    <2> QED BY <2>2, SameProposal DEF TypeOK
<1>4. CASE \E v \in Validators : \E m \in votes : HandleVote(v, m)
    BY <1>4, HandleVoteProposal DEF OldProposal
<1>5. CASE \E v \in Validators : \E p \in proposals : HandleProposal(v, p)
    <2>1. PICK v \in Validators, p \in proposals : HandleProposal(v, p)
        BY <1>5
    <2> DEFINE e == AdoptNewer(eng[v], p.round)
               d == [e EXCEPT !.proposal = p]
    <2>2. eng[v] \in Engine /\ p \in Proposal /\ p.round \in Rounds
        BY BlockHashFields DEF TypeOK
    <2>3. e \in Engine /\ e.proposal \in {NoProposal, eng[v].proposal}
        <3>1. e \in Engine
            BY <2>2, AdoptFields DEF AdoptNewer
        <3>2. e.proposal \in {NoProposal, eng[v].proposal}
            BY <2>2, SameProposal
        <3> QED BY <3>1, <3>2
    <2>4. \/ eng' = [eng EXCEPT ![v] = e]
          \/ ValidProposal(v, p) /\ eng' = [eng EXCEPT ![v] = d]
          \/ ValidProposal(v, p) /\ EnterPrevote(v, d)
        BY <2>1 DEF HandleProposal, Become
    <2> HIDE DEF e
    <2>5. d \in Engine /\ d.proposal = p
        BY <2>2, <2>3, ProposalFields
    <2> HIDE DEF d
    <2>6. CASE eng' = [eng EXCEPT ![v] = e]
        BY <2>3, <2>6 DEF TypeOK
    <2>7. CASE ValidProposal(v, p) /\ eng' = [eng EXCEPT ![v] = d]
        BY <2>5, <2>7 DEF TypeOK
    <2>8. CASE ValidProposal(v, p) /\ EnterPrevote(v, d)
        BY <2>5, <2>8, CastProposal DEF OldProposal
    <2> QED BY <2>4, <2>6, <2>7, <2>8
<1>6. CASE \E v \in Validators : \E a \in announces : GossipBlock(v, a)
    BY <1>6 DEF GossipBlock
<1>7. CASE (\E v, w \in Validators : Unjail(v, w)) \/ Finished
    BY <1>7 DEF Unjail, Finished, vars
<1>8. CASE \E v \in Validators : \E o \in Outside : FollowOutsider(v, o[1], o[2])
    <2>1. PICK v \in Validators, o \in Outside : FollowOutsider(v, o[1], o[2])
        BY <1>8
    <2>2. eng' = [eng EXCEPT ![v] = AdoptRound(eng[v], o[2])] /\ eng[v] \in Engine
        BY <2>1 DEF FollowOutsider, Become, TypeOK
    <2>3. AdoptRound(eng[v], o[2]).proposal = NoProposal
        BY <2>2 DEF AdoptRound, Engine
    <2> QED BY <2>2, <2>3 DEF TypeOK
<1> QED BY <1>1, <1>2, <1>3, <1>4, <1>5, <1>6, <1>7, <1>8 DEF Next, Receive

\* A proposal about to be published was linked to the tip of the time.
LEMMA PublishForm ==
    ASSUME TypeOK, Next, NEW u \in Validators, loop'[u].pc = "publish"
    PROVE  \/ loop'[u] = loop[u]
           \/ loop'[u].height = tip[u] + 1 /\ loop'[u].prev = TipHash(u)
<1>1. CASE \E v \in Validators : BuildProposal(v)
    <2>1. PICK v \in Validators : BuildProposal(v)
        BY <1>1
    <2> DEFINE pub == [loop[v] EXCEPT !.pc = "publish", !.prev = TipHash(v)]
               wait == [loop[v] EXCEPT !.pc = "await"]
    <2>2. \/ loop[v].height = tip[v] + 1 /\ loop' = [loop EXCEPT ![v] = pub]
          \/ loop' = [loop EXCEPT ![v] = wait]
        BY <2>1 DEF BuildProposal, LoopGoes
    <2>3. pub.height = loop[v].height /\ pub.prev = TipHash(v) /\ wait.pc = "await"
        BY DEF TypeOK, LoopState
    <2> HIDE DEF pub, wait
    <2>4. \/ loop[v].height = tip[v] + 1 /\ loop'[v] = pub
          \/ loop'[v] = wait
        BY <2>2 DEF TypeOK
    <2>5. u # v => loop'[u] = loop[u]
        BY <2>2 DEF TypeOK
    <2> QED BY <2>3, <2>4, <2>5
<1>2. CASE \E v \in Validators : LoopGoes(v, AtTop)
    BY <1>2, AtTopFacts DEF LoopGoes, TypeOK
<1>3. CASE \E v \in Validators : RunPropose(v) \/ StartRound(v) \/ PublishProposal(v)
    <2>1. PICK v \in Validators : RunPropose(v) \/ StartRound(v) \/ PublishProposal(v)
        BY <1>3
    <2>2. PICK l : loop' = [loop EXCEPT ![v] = l] /\ l.pc # "publish"
        <3>1. CASE RunPropose(v)
            <4> DEFINE l == [pc |-> "pace", height |-> eng[v].height,
                             round |-> eng[v].round, prev |-> Nil]
            <4>1. l.pc # "publish" /\ loop' = [loop EXCEPT ![v] = l]
                BY <3>1 DEF RunPropose, LoopGoes
            <4> QED BY <4>1
        <3>2. CASE StartRound(v)
            <4> DEFINE l == [loop[v] EXCEPT !.pc = IF Leader(v, loop[v].height) = v
                                                   THEN "build" ELSE "await"]
            <4>1. l.pc # "publish" /\ AtTop.pc # "publish"
                BY AtTopFacts DEF TypeOK, LoopState
            <4>2. loop' = [loop EXCEPT ![v] = l] \/ loop' = [loop EXCEPT ![v] = AtTop]
                BY <3>2 DEF StartRound, LoopGoes
            <4> QED BY <4>1, <4>2
        <3>3. CASE PublishProposal(v)
            <4> DEFINE l == [loop[v] EXCEPT !.pc = "await", !.prev = Nil]
            <4>1. l.pc # "publish"
                BY DEF TypeOK, LoopState
            <4>2. loop' = [loop EXCEPT ![v] = l]
                BY <3>3 DEF PublishProposal, LoopGoes
            <4> QED BY <4>1, <4>2
        <3> QED BY <2>1, <3>1, <3>2, <3>3
    <2> QED BY <2>2 DEF TypeOK
<1>4. CASE \E v \in Validators : PollPrecommits(v)
    <2>1. PICK v \in Validators : PollPrecommits(v)
        BY <1>4
    <2>2. \/ loop' = loop \/ loop' = [loop EXCEPT ![v] = [AtTop EXCEPT !.pc = "commit"]]
        BY <2>1, PollPrecommitsForm DEF CommitsNothing
    <2> QED BY <2>2, AtTopFacts DEF TypeOK
<1>5. CASE \E v \in Validators : PollPrevotes(v) \/ PrevoteTimeout(v) \/ PrecommitTimeout(v)
    BY <1>5 DEF PollPrevotes, PrevoteTimeout, PrecommitTimeout
<1>6. CASE \E v \in Validators : EndPropose(v) \/ LoopEndsCommit(v) \/ Restart(v)
    BY <1>2, <1>6 DEF EndPropose, LoopEndsCommit, Restart
<1>7. CASE \E v \in Validators : HandlerEndsCommit(v) \/ Receive(v)
    <2>1. CASE \E v \in Validators : \E m \in votes : HandleVote(v, m)
        BY <2>1, HandleVoteForm DEF CommitsNothing
    <2>2. CASE \E v \in Validators : \E p \in proposals : HandleProposal(v, p)
        BY <2>2 DEF HandleProposal
    <2>3. CASE \E v \in Validators : \/ HandlerEndsCommit(v) \/ \E a \in announces : GossipBlock(v, a)
                                    \/ \E o \in Outside : FollowOutsider(v, o[1], o[2])
        BY <2>3 DEF GossipBlock, FollowOutsider, HandlerEndsCommit
    <2> QED BY <1>7, <2>1, <2>2, <2>3 DEF Receive
<1>8. CASE (\E v, w \in Validators : Unjail(v, w)) \/ Finished
    BY <1>8 DEF Unjail, Finished, vars
<1> QED BY <1>1, <1>3, <1>4, <1>5, <1>6, <1>7, <1>8 DEF Next, Loop

\* LinkInv is inductive on top of BaseInv, CertInv and agreement.
LEMMA LinkStep == BaseInv /\ CertInv /\ VP!Agreement /\ LinkInv /\ [Next]_vars => LinkInv'
<1> SUFFICES ASSUME BaseInv, CertInv, VP!Agreement, LinkInv, Next PROVE LinkInv'
    BY DEF vars, LinkInv
<1> SUFFICES ASSUME NEW v \in Validators
             PROVE  /\ \A h \in Heights : chain'[v][h] # Nil =>
                          \E p \in proposals' : /\ BlockHash(p) = chain'[v][h] /\ p.height = h
                                                /\ Fits(chain'[v], h, p.prev)
                    /\ eng'[v].proposal # NoProposal =>
                          Fits(chain'[v], eng'[v].proposal.height, eng'[v].proposal.prev)
                    /\ loop'[v].pc = "publish" => Fits(chain'[v], loop'[v].height, loop'[v].prev)
    BY DEF LinkInv
<1>1. TypeOK /\ TypeOK' /\ proposals \subseteq proposals'
    BY NextBase, VotesGrow DEF BaseInv
<1>2. \A g \in Heights : chain[v][g] # Nil => chain'[v][g] = chain[v][g]
    BY StoreGrows
<1>3. ASSUME NEW h \in Heights, NEW x, Fits(chain[v], h, x) PROVE Fits(chain'[v], h, x)
    BY <1>2, <1>3, FitsStays
<1>4. ASSUME NEW h \in Heights, chain'[v][h] # Nil
      PROVE  \E p \in proposals' : /\ BlockHash(p) = chain'[v][h] /\ p.height = h
                                   /\ Fits(chain'[v], h, p.prev)
    <2>1. \E p \in proposals : /\ BlockHash(p) = chain'[v][h] /\ p.height = h
                               /\ Fits(chain[v], h, p.prev)
        <3>1. CASE chain'[v][h] = chain[v][h]
            BY <1>4, <3>1 DEF LinkInv
        <3>2. CASE chain'[v][h] # chain[v][h]
            BY <3>2, NewBlockFits
        <3> QED BY <3>1, <3>2
    <2> QED BY <1>1, <1>3, <2>1
<1>5. Fits(chain[v], tip[v] + 1, TipHash(v))
    BY TipFits
<1>6. ASSUME eng'[v].proposal # NoProposal
      PROVE  Fits(chain'[v], eng'[v].proposal.height, eng'[v].proposal.prev)
    <2> DEFINE q == eng'[v].proposal
    <2>1. q \in Proposal /\ q.height \in Heights
        <3>1. eng'[v] \in Engine
            BY <1>1 DEF TypeOK
        <3> QED BY <1>6, <3>1, EngineFields, BlockHashFields
    <2>2. Fits(chain[v], q.height, q.prev)
        <3>1. CASE q = eng[v].proposal
            BY <1>6, <3>1 DEF LinkInv
        <3>2. CASE \E p \in proposals : q = p /\ ValidProposal(v, p)
            BY <1>5, <3>2 DEF ValidProposal
        <3>3. CASE PublishProposal(v)
            <4> DEFINE l == loop[v]
                       p == [height |-> l.height, round |-> l.round, proposer |-> v,
                             boot |-> boots[v], prev |-> l.prev]
                       d == [eng[v] EXCEPT !.proposal = p]
            <4>1. l.pc = "publish" /\ eng' = [eng EXCEPT ![v] = d]
                BY <3>3 DEF PublishProposal, Become
            <4>2. d.proposal = p /\ p.height = l.height /\ p.prev = l.prev
                BY <1>1 DEF TypeOK, Engine
            <4>3. eng'[v] = d
                BY <1>1, <4>1 DEF TypeOK
            <4> HIDE DEF d, p
            <4> QED BY <4>1, <4>2, <4>3 DEF LinkInv
        <3> QED BY <1>1, <1>6, <3>1, <3>2, <3>3, ProposalForm
    <2> HIDE DEF q
    <2>3. Fits(chain'[v], q.height, q.prev)
        BY <1>3, <2>1, <2>2
    <2> QED BY <2>3 DEF q
<1>7. ASSUME loop'[v].pc = "publish"
      PROVE  Fits(chain'[v], loop'[v].height, loop'[v].prev)
    <2>1. loop'[v].height \in Heights
        BY <1>7, NextBase DEF BaseInv, NodeOK
    <2>2. Fits(chain[v], loop'[v].height, loop'[v].prev)
        BY <1>1, <1>5, <1>7, PublishForm DEF LinkInv
    <2> QED BY <1>3, <2>1, <2>2
<1> QED BY <1>4, <1>6, <1>7

(***************************************************************************)
(* As long as fewer than a third of the validators ever restart, no two    *)
(* stores hold different blocks at a height and every store is a chain     *)
(* without gaps up to its latest_height: ChainsAgree.                      *)
(***************************************************************************)
THEOREM ChainsAgreeHolds == FewRestart => (Spec => []ChainsAgree)
<1> SUFFICES ASSUME FewRestart PROVE Spec => []ChainsAgree
    OBVIOUS
<1>1. Init => CertInv /\ LinkInv
    <2> SUFFICES ASSUME Init PROVE CertInv /\ LinkInv
        OBVIOUS
    <2>1. CertInv
        BY DEF Init, CertInv, StoredBlocksCertified
    <2>2. \A v \in Validators : /\ eng[v].proposal = NoProposal /\ loop[v].pc = "top"
                                /\ \A h \in Heights : chain[v][h] = Nil
        BY AtTopFacts DEF Init, StartOf
    <2> QED BY <2>1, <2>2 DEF LinkInv
<1>2. BaseInv /\ CertInv /\ LinkInv /\ VP!Agreement => ChainsAgree
    <2> SUFFICES ASSUME BaseInv, CertInv, LinkInv, VP!Agreement PROVE ChainsAgree
        OBVIOUS
    <2>1. ASSUME NEW u \in Validators, NEW v \in Validators, NEW h \in Heights,
                 chain[u][h] # Nil, chain[v][h] # Nil
          PROVE  chain[u][h] = chain[v][h]
        <3>1. chain[u][h] \in Blocks /\ chain[v][h] \in Blocks
            BY <2>1 DEF BaseInv, TypeOK
        <3>2. Certified(h, chain[u][h]) /\ Certified(h, chain[v][h])
            BY <2>1 DEF CertInv, StoredBlocksCertified
        <3> QED BY <3>1, <3>2, CertifiedAgree
    <2>2. ASSUME NEW v \in Validators, NEW h \in 1..tip[v]
          PROVE  \E p \in proposals : /\ BlockHash(p) = chain[v][h]
                                      /\ p.prev = IF h = 1 THEN Genesis ELSE chain[v][h - 1]
        <3>1. tip[v] \in Nat /\ tip[v] <= MaxHeight
            <4>1. tip[v] \in 0..MaxHeight
                BY DEF BaseInv, TypeOK
            <4> QED BY <4>1, BoundsNat
        <3>2. h \in Heights /\ h \in 1..(tip[v] + 1) - 1
            BY <3>1, BoundsNat DEF Heights
        <3>3. chain[v][h] # Nil
            BY <3>2, TipFits DEF Fits
        <3> QED BY <3>2, <3>3 DEF LinkInv, Fits
    <2> QED BY <2>1, <2>2 DEF ChainsAgree
<1> QED BY <1>1, <1>2, CertStep, LinkStep, BaseInvHolds, AgreementOfEngines, PTL DEF Spec

\* A block once in a store is there for good: what Finality says.
Finality == [][\A v \in Validators, h \in Heights :
    chain[v][h] # Nil => chain'[v][h] = chain[v][h]]_vars

(***************************************************************************)
(* SaveBlock overwrites whatever a height holds, from two goroutines, and  *)
(* lowers latest_height if told to; as long as fewer than a third of the   *)
(* validators restart, no stored block is ever replaced by another.        *)
(***************************************************************************)
THEOREM FinalityHolds == FewRestart => (Spec => Finality)
<1> SUFFICES ASSUME FewRestart PROVE Spec => Finality
    OBVIOUS
<1>1. Init => CertInv
    BY DEF Init, CertInv, StoredBlocksCertified
<1>2. BaseInv /\ CertInv /\ VP!Agreement /\ [Next]_vars =>
          [\A v \in Validators, h \in Heights :
              chain[v][h] # Nil => chain'[v][h] = chain[v][h]]_vars
    BY StoreGrows
<1> QED BY <1>1, <1>2, CertStep, BaseInvHolds, AgreementOfEngines, PTL DEF Spec, Finality
=============================================================================
