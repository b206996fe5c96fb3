--------------------------- MODULE BFTVotingProofs ---------------------------
(***************************************************************************)
(* Agreement of the BFT engine's voting rules, for every validator set,    *)
(* every number of rounds and heights, and up to a third of faulty         *)
(* validators.                                                             *)
(***************************************************************************)
EXTENDS BFTVoting, FiniteSetTheorems, TLAPS

(***************************************************************************)
(* Two quorums of vote.go's QuorumSize share a validator that follows the  *)
(* code.                                                                   *)
(***************************************************************************)
LEMMA QuorumsShareHonest ==
    ASSUME NEW P \in Quorums, NEW Q \in Quorums
    PROVE  \E u \in (P \cap Q) \ Faulty : TRUE
<1> DEFINE n == Cardinality(Validators)
<1>1. n \in Nat /\ n >= 1
    BY ValidatorsFinite, FS_CardinalityType, FS_EmptySet
<1>2. /\ P \in SUBSET Validators /\ Q \in SUBSET Validators
      /\ P \cap Q \in SUBSET Validators /\ P \cup Q \in SUBSET Validators
      /\ Faulty \in SUBSET Validators
    BY FaultyMinority DEF Quorums
<1>3. /\ IsFiniteSet(P) /\ IsFiniteSet(Q) /\ IsFiniteSet(P \cap Q)
      /\ IsFiniteSet(Faulty) /\ Cardinality(P \cup Q) <= n
      /\ IsFiniteSet(P \cup Q)
    BY <1>2, ValidatorsFinite, FS_Subset
<1>4. /\ Cardinality(P) \in Nat /\ Cardinality(Q) \in Nat
      /\ Cardinality(P \cap Q) \in Nat /\ Cardinality(Faulty) \in Nat
      /\ Cardinality(P \cup Q) \in Nat
    BY <1>3, FS_CardinalityType
<1>5. Cardinality(P \cup Q) = Cardinality(P) + Cardinality(Q) - Cardinality(P \cap Q)
    BY <1>3, FS_Union
<1>6. Cardinality(P) >= QuorumSize(n) /\ Cardinality(Q) >= QuorumSize(n)
    BY DEF Quorums
<1>7. QuorumSize(n) \in Nat /\ 3 * QuorumSize(n) > 2 * n
    BY <1>1 DEF QuorumSize
<1>8. 3 * Cardinality(Faulty) <= n - 1
    BY <1>1, <1>4, FaultyMinority
<1>9. Cardinality(P \cap Q) > Cardinality(Faulty)
    <2> HIDE DEF n
    <2> QED BY <1>1, <1>3, <1>4, <1>5, <1>6, <1>7, <1>8
<1>10. ~(P \cap Q \subseteq Faulty)
    <2> SUFFICES ASSUME P \cap Q \in SUBSET Faulty PROVE FALSE
        OBVIOUS
    <2>1. Cardinality(P \cap Q) <= Cardinality(Faulty)
        BY <1>3, FS_Subset
    <2> QED BY <2>1, <1>9, <1>4
<1> QED BY <1>10

\* The record MkVote builds has the fields it is given and is a vote.
LEMMA VoteFields ==
    ASSUME NEW t \in {"prevote", "precommit"}, NEW h \in Heights, NEW r \in Rounds,
           NEW v \in Honest, NEW x \in Blocks \cup {Nil}
    PROVE  /\ MkVote(t, h, r, v, x) \in Vote
           /\ MkVote(t, h, r, v, x).type = t /\ MkVote(t, h, r, v, x).height = h
           /\ MkVote(t, h, r, v, x).round = r /\ MkVote(t, h, r, v, x).voter = v
           /\ MkVote(t, h, r, v, x).hash = x
BY DEF MkVote, Vote

\* A vote is the record of its own fields.
LEMMA VoteIsMkVote ==
    ASSUME NEW m \in Vote
    PROVE  /\ m = MkVote(m.type, m.height, m.round, m.voter, m.hash)
           /\ m.type \in {"prevote", "precommit"} /\ m.height \in Heights
           /\ m.round \in Rounds /\ m.round \in Nat /\ m.voter \in Honest
           /\ m.hash \in Blocks \cup {Nil}
BY RoundsNat DEF MkVote, Vote

\* Two records MkVote builds are equal only field by field.
LEMMA MkVoteInjective ==
    ASSUME NEW t1, NEW h1, NEW r1, NEW v1, NEW x1,
           NEW t2, NEW h2, NEW r2, NEW v2, NEW x2,
           MkVote(t1, h1, r1, v1, x1) = MkVote(t2, h2, r2, v2, x2)
    PROVE  t1 = t2 /\ h1 = h2 /\ r1 = r2 /\ v1 = v2 /\ x1 = x2
<1>1. /\ MkVote(t1, h1, r1, v1, x1).type = t1 /\ MkVote(t2, h2, r2, v2, x2).type = t2
      /\ MkVote(t1, h1, r1, v1, x1).height = h1 /\ MkVote(t2, h2, r2, v2, x2).height = h2
      /\ MkVote(t1, h1, r1, v1, x1).round = r1 /\ MkVote(t2, h2, r2, v2, x2).round = r2
      /\ MkVote(t1, h1, r1, v1, x1).voter = v1 /\ MkVote(t2, h2, r2, v2, x2).voter = v2
      /\ MkVote(t1, h1, r1, v1, x1).hash = x1 /\ MkVote(t2, h2, r2, v2, x2).hash = x2
    BY DEF MkVote
<1> QED BY <1>1

(***************************************************************************)
(* Every broadcast vote is well formed, whatever the engine does.          *)
(***************************************************************************)
THEOREM VotesTyped == Spec => []TypeOK
<1>1. Init => TypeOK
    BY DEF Init, TypeOK
<1>2. TypeOK /\ [Next]_votes => TypeOK'
    <2> SUFFICES ASSUME TypeOK, [Next]_votes PROVE TypeOK'
        OBVIOUS
    <2>1. CASE UNCHANGED votes
        BY <2>1 DEF TypeOK
    <2>2. CASE Next
        <3>1. PICK v \in Honest, h \in Heights, r \in Rounds, x \in Blocks \cup {Nil} :
                 Prevote(v, h, r, x) \/ Precommit(v, h, r, x)
            BY <2>2 DEF Next
        <3>2. MkVote("prevote", h, r, v, x) \in Vote /\ MkVote("precommit", h, r, v, x) \in Vote
            BY VoteFields
        <3> QED BY <3>1, <3>2 DEF TypeOK, Prevote, Precommit
    <2> QED BY <2>1, <2>2
<1> QED BY <1>1, <1>2, PTL DEF Spec
-----------------------------------------------------------------------------
\* A quorum once reached stays reached: votes are never withdrawn.
LEMMA QuorumStable ==
    ASSUME votes \subseteq votes', NEW t, NEW h, NEW r, NEW x, HasQuorum(t, h, r, x)
    PROVE  HasQuorum(t, h, r, x)'
BY DEF HasQuorum

\* A new vote completes a quorum of its own type, height, round and hash only.
LEMMA QuorumLocal ==
    ASSUME NEW t1, NEW h1, NEW r1, NEW v1, NEW x1,
           votes' = votes \cup {MkVote(t1, h1, r1, v1, x1)},
           NEW t, NEW h, NEW r, NEW x, HasQuorum(t, h, r, x)',
           <<t, h, r, x>> # <<t1, h1, r1, x1>>
    PROVE  HasQuorum(t, h, r, x)
<1>1. PICK Q \in Quorums : \A u \in Q \ Faulty : MkVote(t, h, r, u, x) \in votes'
    BY DEF HasQuorum
<1>2. ASSUME NEW u \in Q \ Faulty PROVE MkVote(t, h, r, u, x) \in votes
    BY <1>1, <1>2, MkVoteInjective
<1> QED BY <1>2 DEF HasQuorum

(***************************************************************************)
(* Once no quorum can choose x in round r, none ever can: the validator    *)
(* that left the round may no longer precommit in it.                      *)
(***************************************************************************)
LEMMA CannotChooseStable ==
    ASSUME TypeOK,
           NEW v \in Honest, NEW h \in Heights, NEW r \in Rounds, NEW x \in Blocks \cup {Nil},
           Prevote(v, h, r, x) \/ Precommit(v, h, r, x),
           NEW g \in Heights, NEW s \in Rounds, NEW y \in Blocks,
           CannotChoose(g, s, y)
    PROVE  CannotChoose(g, s, y)'
<1> SUFFICES ASSUME NEW Q \in Quorums
             PROVE  \E u \in Q \ Faulty :
                       /\ \E q \in RoundsVoted("prevote", u, g)' : q > s
                       /\ MkVote("precommit", g, s, u, y) \notin votes'
    BY DEF CannotChoose
<1>1. PICK u \in Q \ Faulty : /\ \E q \in RoundsVoted("prevote", u, g) : q > s
                             /\ MkVote("precommit", g, s, u, y) \notin votes
    BY DEF CannotChoose
<1>2. votes \subseteq votes'
    BY DEF Prevote, Precommit
<1>3. \E q \in RoundsVoted("prevote", u, g)' : q > s
    BY <1>1, <1>2 DEF RoundsVoted
<1>4. MkVote("precommit", g, s, u, y) \notin votes'
    <2>1. CASE Prevote(v, h, r, x)
        BY <1>1, <2>1, MkVoteInjective DEF Prevote
    <2>2. CASE Precommit(v, h, r, x)
        <3> SUFFICES ASSUME MkVote("precommit", g, s, u, y) = MkVote("precommit", h, r, v, x)
                     PROVE  FALSE
            BY <1>1, <2>2 DEF Precommit
        <3>1. g = h /\ s = r /\ u = v
            BY MkVoteInjective
        <3>2. \A q \in RoundsVoted("prevote", u, g) : q <= s
            BY <2>2, <3>1 DEF Precommit, MayPrecommit
        <3>3. RoundsVoted("prevote", u, g) \subseteq Nat /\ s \in Nat
            BY VoteIsMkVote, RoundsNat DEF RoundsVoted, TypeOK
        <3> QED BY <1>1, <3>2, <3>3
    <2> QED BY <2>1, <2>2
<1> QED BY <1>3, <1>4

(***************************************************************************)
(* A prevote keeps the lock discipline: it is for the latest lock.         *)
(***************************************************************************)
LEMMA PrevoteKeepsLocks ==
    ASSUME TypeOK, LockRespected,
           NEW v \in Honest, NEW h \in Heights, NEW r \in Rounds, NEW x \in Blocks \cup {Nil},
           Prevote(v, h, r, x)
    PROVE  LockRespected'
<1> DEFINE new == MkVote("prevote", h, r, v, x)
<1>1. votes' = votes \cup {new}
    BY DEF Prevote
<1>2. /\ new.type = "prevote" /\ new.height = h /\ new.round = r
      /\ new.voter = v /\ new.hash = x
    BY VoteFields
<1> HIDE DEF new
<1>3. \A a, g : Locks(a, g)' = Locks(a, g)
    BY <1>1, <1>2 DEF Locks
<1> SUFFICES ASSUME NEW p \in votes', NEW q \in votes',
                    p.voter = q.voter, p.height = q.height, p.round < q.round,
                    p.type = "precommit", p.hash # Nil, q.type = "prevote", q.hash # Nil
             PROVE  \E l \in Locks(p.voter, p.height) :
                       l.hash = q.hash /\ p.round <= l.round /\ l.round < q.round
    BY <1>3 DEF LockRespected
<1>4. p \in votes
    BY <1>1, <1>2
<1>5. CASE q \in votes
    BY <1>4, <1>5 DEF LockRespected
<1>6. CASE q = new
    <2>1. p \in Locks(v, h)
        BY <1>2, <1>4, <1>6 DEF Locks
    <2>2. PICK l \in Locks(v, h) : l.hash = x /\ \A k \in Locks(v, h) : k.round <= l.round
        BY <1>2, <1>6, <2>1 DEF Prevote, PrevoteRule, LockedOn
    <2>3. l.round \in RoundsVoted("precommit", v, h)
        BY <2>2 DEF Locks, RoundsVoted
    <2>4. l.round < r
        BY <2>3 DEF Prevote, MayPrevote
    <2> QED BY <1>2, <1>6, <2>1, <2>2, <2>4
<1> QED BY <1>1, <1>5, <1>6

\* A precommit keeps it too: no prevote of a later round is there to offend against.
LEMMA PrecommitKeepsLocks ==
    ASSUME TypeOK, LockRespected,
           NEW v \in Honest, NEW h \in Heights, NEW r \in Rounds, NEW x \in Blocks \cup {Nil},
           Precommit(v, h, r, x)
    PROVE  LockRespected'
<1> DEFINE new == MkVote("precommit", h, r, v, x)
<1>1. votes' = votes \cup {new}
    BY DEF Precommit
<1>2. /\ new.type = "precommit" /\ new.height = h /\ new.round = r
      /\ new.voter = v /\ new.hash = x
    BY VoteFields
<1> HIDE DEF new
<1>3. \A a, g : Locks(a, g) \subseteq Locks(a, g)'
    BY <1>1 DEF Locks
<1> SUFFICES ASSUME NEW p \in votes', NEW q \in votes',
                    p.voter = q.voter, p.height = q.height, p.round < q.round,
                    p.type = "precommit", p.hash # Nil, q.type = "prevote", q.hash # Nil
             PROVE  \E l \in Locks(p.voter, p.height) :
                       l.hash = q.hash /\ p.round <= l.round /\ l.round < q.round
    BY <1>3 DEF LockRespected
<1>4. q \in votes
    BY <1>1, <1>2
<1>5. p # new
    <2> SUFFICES ASSUME p = new PROVE FALSE
        OBVIOUS
    <2>1. q.round \in RoundsVoted("prevote", v, h)
        BY <1>2, <1>4 DEF RoundsVoted
    <2>2. q.round <= r /\ q.round \in Nat /\ r \in Nat
        BY <2>1, <1>4, VoteIsMkVote, RoundsNat DEF Precommit, MayPrecommit, TypeOK
    <2> QED BY <2>2, <1>2
<1> QED BY <1>1, <1>4, <1>5 DEF LockRespected

(***************************************************************************)
(* The new vote is the voter's only one of its type, height and round.     *)
(***************************************************************************)
LEMMA NoEquivocationStep ==
    ASSUME TypeOK, NoEquivocation,
           NEW v \in Honest, NEW h \in Heights, NEW r \in Rounds, NEW x \in Blocks \cup {Nil},
           Prevote(v, h, r, x) \/ Precommit(v, h, r, x)
    PROVE  NoEquivocation'
<1>1. PICK t \in {"prevote", "precommit"} :
         /\ votes' = votes \cup {MkVote(t, h, r, v, x)}
         /\ \A q \in RoundsVoted(t, v, h) : q < r
    BY DEF Prevote, Precommit, MayPrevote, MayPrecommit
<1> DEFINE new == MkVote(t, h, r, v, x)
<1>2. /\ new.type = t /\ new.height = h /\ new.round = r
      /\ new.voter = v /\ new.hash = x
    BY VoteFields
<1> HIDE DEF new
<1>3. ASSUME NEW m \in votes, m.type = t, m.voter = v, m.height = h, m.round = r
      PROVE  FALSE
    <2>1. m.round \in RoundsVoted(t, v, h)
        BY <1>3 DEF RoundsVoted
    <2> QED BY <1>1, <1>3, <2>1, RoundsNat
<1>4. votes' = votes \cup {new}
    BY <1>1 DEF new
<1> QED BY <1>2, <1>3, <1>4 DEF NoEquivocation

(***************************************************************************)
(* When the last prevote of a quorum for y in round s arrives, an earlier  *)
(* round r can no longer choose another block x.  A member of both quorums *)
(* that had precommitted x in r must since have locked on y, in a round    *)
(* between the two, and for that round the claim is known already.         *)
(***************************************************************************)
LEMMA NoLateChoiceStep ==
    ASSUME AgreementInv, LockRespected', NoEquivocation', TypeOK',
           NEW v \in Honest, NEW h \in Heights, NEW r \in Rounds, NEW x \in Blocks \cup {Nil},
           Prevote(v, h, r, x) \/ Precommit(v, h, r, x)
    PROVE  NoLateChoice'
<1> SUFFICES ASSUME NEW g \in Heights, NEW a \in Rounds, NEW s \in Rounds,
                    NEW b \in Blocks, NEW y \in Blocks,
                    a < s, b # y, HasQuorum("prevote", g, s, y)'
             PROVE  CannotChoose(g, a, b)'
    BY DEF NoLateChoice
<1> USE RoundsNat
<1>1. CASE HasQuorum("prevote", g, s, y)
    BY <1>1, CannotChooseStable DEF AgreementInv, NoLateChoice
<1>2. CASE ~HasQuorum("prevote", g, s, y)
    <2>1. PICK t \in {"prevote", "precommit"} : votes' = votes \cup {MkVote(t, h, r, v, x)}
        BY DEF Prevote, Precommit
    <2>2. t = "prevote" /\ h = g /\ r = s /\ x = y
        BY <1>2, <2>1, QuorumLocal
    <2>3. PICK P \in Quorums : \A u \in P \ Faulty : MkVote("prevote", g, s, u, y) \in votes'
        BY DEF HasQuorum
    <2>4. CASE \E u \in P \ Faulty : MkVote("precommit", g, a, u, b) \in votes'
        <3>1. PICK u \in P \ Faulty : MkVote("precommit", g, a, u, b) \in votes'
            BY <2>4
        <3> DEFINE p == MkVote("precommit", g, a, u, b)
                   q == MkVote("prevote", g, s, u, y)
        <3>2. /\ p.type = "precommit" /\ p.height = g /\ p.round = a /\ p.voter = u /\ p.hash = b
              /\ q.type = "prevote" /\ q.height = g /\ q.round = s /\ q.voter = u /\ q.hash = y
            BY DEF MkVote
        <3>3. p \in votes' /\ q \in votes'
            BY <2>3, <3>1
        <3> HIDE DEF p, q
        <3>4. PICK l \in Locks(u, g)' : l.hash = y /\ a <= l.round /\ l.round < s
            BY <3>2, <3>3, NilIsNoBlock DEF LockRespected
        <3>5. /\ l \in votes' /\ l.voter = u /\ l.height = g /\ l.type = "precommit"
            BY <3>4 DEF Locks
        <3>6. l \in votes /\ l.round \in Rounds /\ l.round \in Nat
            <4>1. l \in Vote
                BY <3>5 DEF TypeOK
            <4>2. l # MkVote(t, h, r, v, x)
                BY <2>2, <3>5 DEF MkVote
            <4> QED BY <2>1, <3>5, <4>1, <4>2, VoteIsMkVote
        <3>7. l.round # a
            BY <3>2, <3>3, <3>4, <3>5 DEF NoEquivocation
        <3>8. a < l.round
            BY <3>4, <3>6, <3>7
        <3>9. HasQuorum("prevote", g, l.round, y)
            BY <3>4, <3>5, <3>6, NilIsNoBlock DEF AgreementInv, PrecommitHasQuorum
        <3>10. CannotChoose(g, a, b)
            BY <3>6, <3>8, <3>9 DEF AgreementInv, NoLateChoice
        <3> QED BY <3>10, CannotChooseStable DEF AgreementInv
    <2>5. CASE \A u \in P \ Faulty : MkVote("precommit", g, a, u, b) \notin votes'
        <3> SUFFICES ASSUME NEW Q \in Quorums
                     PROVE  \E u \in Q \ Faulty :
                               /\ \E k \in RoundsVoted("prevote", u, g)' : k > a
                               /\ MkVote("precommit", g, a, u, b) \notin votes'
            BY DEF CannotChoose
        <3>1. PICK u \in (P \cap Q) \ Faulty : TRUE
            BY QuorumsShareHonest
        <3>2. MkVote("prevote", g, s, u, y) \in votes'
            BY <2>3, <3>1
        <3>3. s \in RoundsVoted("prevote", u, g)'
            BY <3>2 DEF RoundsVoted, MkVote
        <3> QED BY <2>5, <3>1, <3>3
    <2> QED BY <2>4, <2>5
<1> QED BY <1>1, <1>2

(***************************************************************************)
(* The inductive invariant holds in every reachable state.                 *)
(***************************************************************************)
THEOREM AgreementInvHolds == Spec => []AgreementInv
<1>1. Init => AgreementInv
    <2> SUFFICES ASSUME Init PROVE AgreementInv
        OBVIOUS
    <2>1. TypeOK /\ NoEquivocation /\ PrecommitHasQuorum /\ LockRespected
        BY DEF Init, TypeOK, NoEquivocation, PrecommitHasQuorum, LockRespected
    <2>2. ASSUME NEW h, NEW s, NEW y, HasQuorum("prevote", h, s, y) PROVE FALSE
        BY <2>2, QuorumsShareHonest DEF HasQuorum, Init
    <2>3. NoLateChoice
        BY <2>2 DEF NoLateChoice
    <2> QED BY <2>1, <2>3 DEF AgreementInv
<1>2. AgreementInv /\ [Next]_votes => AgreementInv'
    <2> SUFFICES ASSUME AgreementInv, [Next]_votes PROVE AgreementInv'
        OBVIOUS
    <2>1. CASE UNCHANGED votes
        BY <2>1 DEF AgreementInv, TypeOK, NoEquivocation, PrecommitHasQuorum, LockRespected,
                    NoLateChoice, HasQuorum, CannotChoose, Locks, RoundsVoted
    <2>2. CASE Next
        <3>1. PICK v \in Honest, h \in Heights, r \in Rounds, x \in Blocks \cup {Nil} :
                 Prevote(v, h, r, x) \/ Precommit(v, h, r, x)
            BY <2>2 DEF Next
        <3>2. PICK t \in {"prevote", "precommit"} :
                 /\ votes' = votes \cup {MkVote(t, h, r, v, x)}
                 /\ t = "precommit" => (x # Nil => HasQuorum("prevote", h, r, x))
            BY <3>1 DEF Prevote, Precommit
        <3>3. TypeOK'
            BY <3>2, VoteFields DEF AgreementInv, TypeOK
        <3>4. NoEquivocation'
            BY <3>1, NoEquivocationStep DEF AgreementInv
        <3>5. LockRespected'
            BY <3>1, PrevoteKeepsLocks, PrecommitKeepsLocks DEF AgreementInv
        <3>6. PrecommitHasQuorum'
            <4> SUFFICES ASSUME NEW m \in votes', m.type = "precommit", m.hash # Nil
                         PROVE  HasQuorum("prevote", m.height, m.round, m.hash)'
                BY DEF PrecommitHasQuorum
            <4>1. votes \subseteq votes'
                BY <3>2
            <4>2. HasQuorum("prevote", m.height, m.round, m.hash)
                BY <3>2, VoteFields DEF AgreementInv, PrecommitHasQuorum
            <4> QED BY <4>1, <4>2, QuorumStable
        <3>7. NoLateChoice'
            BY <3>1, <3>3, <3>4, <3>5, NoLateChoiceStep
        <3> QED BY <3>3, <3>4, <3>5, <3>6, <3>7 DEF AgreementInv
    <2> QED BY <2>1, <2>2
<1> QED BY <1>1, <1>2, PTL DEF Spec

(***************************************************************************)
(* No validator that runs the engine's voting rules ever signs two         *)
(* different votes for one step of one round.                              *)
(***************************************************************************)
THEOREM NoEquivocationHolds == Spec => []NoEquivocation
<1>1. AgreementInv => NoEquivocation
    BY DEF AgreementInv
<1> QED BY <1>1, AgreementInvHolds, PTL

\* Two blocks chosen in rounds r <= s of one height are the same block.
LEMMA ChosenInOrder ==
    ASSUME AgreementInv,
           NEW h \in Heights, NEW x \in Blocks, NEW y \in Blocks,
           NEW r \in Rounds, NEW s \in Rounds,
           HasQuorum("precommit", h, r, x), HasQuorum("precommit", h, s, y),
           r <= s
    PROVE  x = y
<1>1. PICK P \in Quorums : \A u \in P \ Faulty : MkVote("precommit", h, r, u, x) \in votes
    BY DEF HasQuorum
<1>2. PICK Q \in Quorums : \A u \in Q \ Faulty : MkVote("precommit", h, s, u, y) \in votes
    BY DEF HasQuorum
<1>3. PICK u \in (P \cap Q) \ Faulty : TRUE
    BY QuorumsShareHonest
<1>4. u \in Honest
    BY <1>3 DEF Honest, Quorums
<1> DEFINE p == MkVote("precommit", h, r, u, x)
           q == MkVote("precommit", h, s, u, y)
<1>5. /\ p.type = "precommit" /\ p.height = h /\ p.round = r /\ p.voter = u /\ p.hash = x
      /\ q.type = "precommit" /\ q.height = h /\ q.round = s /\ q.voter = u /\ q.hash = y
    BY DEF MkVote
<1>6. p \in votes /\ q \in votes
    BY <1>1, <1>2, <1>3
<1> HIDE DEF p, q
<1>7. CASE r = s
    BY <1>5, <1>6, <1>7 DEF AgreementInv, NoEquivocation
<1>8. CASE r # s /\ x # y
    <2>1. HasQuorum("prevote", h, s, y)
        BY <1>5, <1>6, NilIsNoBlock DEF AgreementInv, PrecommitHasQuorum
    <2>2. CannotChoose(h, r, x)
        BY <1>8, <2>1, RoundsNat DEF AgreementInv, NoLateChoice
    <2> QED BY <1>1, <2>2 DEF CannotChoose
<1> QED BY <1>7, <1>8

(***************************************************************************)
(* At most one block per height can gather +2/3 precommits, for any number *)
(* of validators, rounds and heights, with up to a third of them faulty.   *)
(***************************************************************************)
THEOREM AgreementHolds == Spec => []Agreement
<1>1. AgreementInv => Agreement
    <2> SUFFICES ASSUME AgreementInv, NEW h \in Heights, NEW x \in Blocks, NEW y \in Blocks,
                        Chosen(h, x), Chosen(h, y)
                 PROVE  x = y
        BY DEF Agreement
    <2>1. PICK r \in Rounds : HasQuorum("precommit", h, r, x)
        BY DEF Chosen
    <2>2. PICK s \in Rounds : HasQuorum("precommit", h, s, y)
        BY DEF Chosen
    <2>3. r <= s \/ s <= r
        BY RoundsNat
    <2> QED BY <2>1, <2>2, <2>3, ChosenInOrder
<1> QED BY <1>1, AgreementInvHolds, PTL
=============================================================================
