------------------------------ MODULE BFTVoting ------------------------------
(***************************************************************************)
(* What the BFT engine (internal/consensus/bft.go) promises, seen from the *)
(* votes alone.  The only state is the set of votes that validators which  *)
(* run the code have signed and broadcast; receipt, loss, duplication and  *)
(* reordering are invisible here, because a validator acts on a quorum     *)
(* only if that quorum was sent.  A validator's lock is not a variable:    *)
(* the engine sets lockedHash exactly when it precommits that hash, so the *)
(* lock is the hash of its latest non-nil precommit.                       *)
(*                                                                         *)
(* Validators in Faulty do not follow the code (an engine restarted with   *)
(* an empty memory, a key shared by two engines): any vote of theirs may   *)
(* be counted whenever it helps.                                           *)
(***************************************************************************)
EXTENDS Integers, FiniteSets

CONSTANTS
    Validators,   \* the registered validator set (LeaderSchedule.validators)
    Faulty,       \* the validators that need not follow the engine's rules
    Heights,      \* block heights under consensus
    Rounds,       \* round numbers within a height
    Blocks,       \* block hashes
    Nil           \* the empty hash of a nil vote

VARIABLE votes    \* votes signed and broadcast by the validators outside Faulty

(***************************************************************************)
(* vote.go QuorumSize: floor(2n/3)+1, except that a lone validator needs   *)
(* one vote.                                                               *)
(***************************************************************************)
QuorumSizeHalf(n) == IF n <= 1 THEN n ELSE n \div 2
QuorumSize(n) == IF n <= 1 THEN n ELSE (2 * n) \div 3 + 1

Quorums == {Q \in SUBSET Validators :
                Cardinality(Q) >= QuorumSize(Cardinality(Validators))}

ASSUME ValidatorsFinite == IsFiniteSet(Validators) /\ Validators # {}
ASSUME FaultyMinority ==
    /\ Faulty \subseteq Validators
    /\ Cardinality(Faulty) <= (Cardinality(Validators) - 1) \div 3
ASSUME RoundsNat == Rounds \subseteq Nat
ASSUME NilIsNoBlock == Nil \notin Blocks

Honest == Validators \ Faulty

Vote == [type : {"prevote", "precommit"}, height : Heights, round : Rounds,
         voter : Honest, hash : Blocks \cup {Nil}]

MkVote(t, h, r, v, x) ==
    [type |-> t, height |-> h, round |-> r, voter |-> v, hash |-> x]

\* +2/3 of the validators voted x; the faulty ones vote as it suits.
HasQuorum(t, h, r, x) ==
    \E Q \in Quorums : \A u \in Q \ Faulty : MkVote(t, h, r, u, x) \in votes

\* The rounds of height h in which v has cast a vote of type t.
RoundsVoted(t, v, h) ==
    {m.round : m \in {k \in votes : k.type = t /\ k.voter = v /\ k.height = h}}

\* The block v is locked on at height h: its latest non-nil precommit.
Locks(v, h) == {m \in votes : /\ m.voter = v /\ m.height = h
                              /\ m.type = "precommit" /\ m.hash # Nil}
LockedOn(v, h, x) ==
    \E m \in Locks(v, h) : m.hash = x /\ \A l \in Locks(v, h) : l.round <= m.round
-----------------------------------------------------------------------------
Init == votes = {}

\* A prevote is free of the lock: what enterPrevoteLocked does with its check left out.
PrevoteRuleNoLock(v, h, x) == TRUE

(***************************************************************************)
(* enterPrevoteLocked: nil without a proposal, the locked hash when        *)
(* locked, the proposal's otherwise.                                       *)
(***************************************************************************)
PrevoteRule(v, h, x) ==
    x # Nil => (Locks(v, h) = {} \/ LockedOn(v, h, x))

\* A round may be prevoted again: the step is not left behind by the vote.
MayPrevoteAgain(v, h, r) ==
    /\ \A q \in RoundsVoted("prevote", v, h) : q <= r
    /\ \A q \in RoundsVoted("precommit", v, h) : q < r

\* StepPropose of round r: v has voted in no round from r on.
MayPrevote(v, h, r) ==
    \A q \in RoundsVoted("prevote", v, h) \cup RoundsVoted("precommit", v, h) : q < r

Prevote(v, h, r, x) ==
    /\ MayPrevote(v, h, r)
    /\ PrevoteRule(v, h, x)
    /\ votes' = votes \cup {MkVote("prevote", h, r, v, x)}

\* StepPrevote of round r: v has prevoted in r, and nothing after that.
MayPrecommit(v, h, r) ==
    /\ r \in RoundsVoted("prevote", v, h)
    /\ \A q \in RoundsVoted("prevote", v, h) : q <= r
    /\ \A q \in RoundsVoted("precommit", v, h) : q < r

(***************************************************************************)
(* tryFinalizePrevotesLocked and the timeout of runPrevote: precommit what *)
(* +2/3 prevoted in this very round, or nil.                               *)
(***************************************************************************)
Precommit(v, h, r, x) ==
    /\ MayPrecommit(v, h, r)
    /\ x # Nil => HasQuorum("prevote", h, r, x)
    /\ votes' = votes \cup {MkVote("precommit", h, r, v, x)}

Next == \E v \in Honest, h \in Heights, r \in Rounds, x \in Blocks \cup {Nil} :
            Prevote(v, h, r, x) \/ Precommit(v, h, r, x)

Spec == Init /\ [][Next]_votes
-----------------------------------------------------------------------------
TypeOK == votes \subseteq Vote

\* tryFinalizePrecommitsLocked commits x at height h once this holds.
Chosen(h, x) == x # Nil /\ \E r \in Rounds : HasQuorum("precommit", h, r, x)

(***************************************************************************)
(* At no height are two different blocks ever committable: the +2/3        *)
(* precommit rule of tryFinalizePrecommitsLocked together with the lock of *)
(* tryFinalizePrevotesLocked gives one block per height, whatever rounds   *)
(* the validators went through and however many rounds it took.            *)
(***************************************************************************)
Agreement == \A h \in Heights : \A x, y \in Blocks :
                Chosen(h, x) /\ Chosen(h, y) => x = y

(***************************************************************************)
(* No validator that runs the code signs two different votes of one type   *)
(* for one height and round, so HandleVote's double-sign detection never   *)
(* jails one.                                                              *)
(***************************************************************************)
NoEquivocation == \A m, k \in votes :
    /\ m.voter = k.voter /\ m.type = k.type
    /\ m.height = k.height /\ m.round = k.round
    => m.hash = k.hash
-----------------------------------------------------------------------------
(* The parts of the inductive invariant behind Agreement.                    *)

\* A validator precommits only a block that +2/3 prevoted in the same round.
PrecommitHasQuorum == \A m \in votes :
    m.type = "precommit" /\ m.hash # Nil => HasQuorum("prevote", m.height, m.round, m.hash)

\* After a lock a validator prevotes a block only if it locked on that block since.
LockRespected == \A p, q \in votes :
    /\ p.voter = q.voter /\ p.height = q.height /\ p.round < q.round
    /\ p.type = "precommit" /\ p.hash # Nil
    /\ q.type = "prevote" /\ q.hash # Nil
    => \E l \in Locks(p.voter, p.height) :
          l.hash = q.hash /\ p.round <= l.round /\ l.round < q.round

\* Every quorum has a member that has left round r without precommitting x in it.
CannotChoose(h, r, x) == \A Q \in Quorums : \E u \in Q \ Faulty :
    /\ \E q \in RoundsVoted("prevote", u, h) : q > r
    /\ MkVote("precommit", h, r, u, x) \notin votes

\* Once +2/3 prevote y in some round, no other block can be committed in an earlier one.
NoLateChoice == \A h \in Heights : \A r, s \in Rounds : \A x, y \in Blocks :
    r < s /\ x # y /\ HasQuorum("prevote", h, s, y) => CannotChoose(h, r, x)

(***************************************************************************)
(* The inductive invariant: what enterPrevoteLocked's lock check and       *)
(* tryFinalizePrevotesLocked's quorum check establish round after round.   *)
(***************************************************************************)
AgreementInv ==
    /\ TypeOK /\ NoEquivocation /\ PrecommitHasQuorum
    /\ LockRespected /\ NoLateChoice
=============================================================================
