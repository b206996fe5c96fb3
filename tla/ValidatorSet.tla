---------------------------- MODULE ValidatorSet -----------------------------
(***************************************************************************)
(* The validator set of one node: the roster that LeaderSchedule           *)
(* (internal/consensus/leader.go) keeps in memory, the copy in the store   *)
(* (internal/state/validators.go), and the jail records there, which       *)
(* IsJailed deletes lazily once they have expired.                         *)
(*                                                                         *)
(* HTTP handlers, the engine and gossip call these concurrently.  Each     *)
(* access to the store is a transaction of its own: SaveValidatorSet reads *)
(* the old epoch in one and writes in another, IsJailed reads a record and *)
(* UnjailValidator deletes whatever is there by then, and a registration   *)
(* checks the stake before it adds the address.                            *)
(***************************************************************************)
EXTENDS Integers, Sequences, SequencesExt, FiniteSets, Filters

CONSTANTS
    AddressOrder,   \* the addresses that may be validators, sorted
    Local,          \* this node's address, CHAIN_SIGNING_ADDRESS
    Sets,           \* bound: the sets that are posted, imported or in VALIDATORS
    Offenders,      \* bound: the validators that double-sign
    Registrants,    \* bound: the validators that register
    Calls,          \* concurrent calls of SetValidators or of a snapshot import
    MaxEpoch,       \* bound: revisions of the stored set
    MaxStakes,      \* bound: changes of a stake
    MaxRestarts     \* bound: restarts

Addresses == Range(AddressOrder)
Epochs == 0..MaxEpoch

ASSUME AddressesSorted ==
    AddressOrder \in Seq(Addresses) /\ IsInjective(AddressOrder) /\ Local \in Addresses
ASSUME ActorsType ==
    Sets \subseteq SUBSET Addresses /\ Offenders \cup Registrants \subseteq Addresses
ASSUME ValidatorBounds == MaxEpoch \in Nat \ {0} /\ {MaxStakes, MaxRestarts} \subseteq Nat

VARIABLES
    roster,       \* LeaderSchedule.validators
    saved,        \* the stored [set, epoch]; epoch 0 when there is none
    call,         \* per call, its SaveValidatorSet in progress
    registering,  \* addresses whose stake handleRegisterValidator has found enough
    staked,       \* addresses with at least the minimum stake
    jail,         \* per address, its jail record: none, held or expired
    deleting,     \* addresses whose record an IsJailed has found expired
    count,        \* changes of stakes and restarts so far
    added,        \* history: registered since the roster was last replaced
    cleared,      \* history: the roster was last replaced by the empty set
    parted,       \* history: a save overlapped another, failed or was an import
    overlapped,   \* history: two saves have overlapped
    sentenced,    \* history: jailed, and neither expired nor released since
    raced         \* history: jailed while a lazy deletion was under way

store == <<saved, jail, staked>>
histories == <<count, added, cleared, parted, overlapped, sentenced, raced>>
vars == <<roster, saved, call, registering, staked, jail, deleting, count, added, cleared,
          parted, overlapped, sentenced, raced>>

NoCall == [pc |-> "idle", set |-> {}, epoch |-> 0]
InFlight == {c \in Calls : call[c].pc # "idle"}

\* main.go: VALIDATORS if it is set, else the stored set, else this node alone.
StartRoster(env, rec) == IF env # {} THEN env ELSE IF rec.set # {} THEN rec.set ELSE {Local}
\* The first and the last of them go through SetValidators, which saves.
StartSaved(env, rec) == IF env = {} /\ rec.set # {} THEN rec
                        ELSE [set |-> StartRoster(env, rec), epoch |-> rec.epoch + 1]

Nothing == [set |-> {}, epoch |-> 0]

Init ==
    /\ roster = StartRoster({}, Nothing) /\ saved = StartSaved({}, Nothing)
    /\ call = [c \in Calls |-> NoCall]
    /\ registering = {} /\ staked = Addresses /\ deleting = {}
    /\ jail = [v \in Addresses |-> "none"]
    /\ count = [stakes |-> 0, restarts |-> 0]
    /\ added = {} /\ cleared = FALSE /\ parted = FALSE /\ overlapped = FALSE
    /\ sentenced = {} /\ raced = {}
-----------------------------------------------------------------------------
(* Changing the set.                                                         *)

\* A call goes on to SaveValidatorSet.
BeginsSave(c, set) ==
    /\ call' = [call EXCEPT ![c] = [pc |-> "read", set |-> set, epoch |-> 0]]
    /\ overlapped' = (overlapped \/ InFlight # {})

\* SetValidators replaces the roster; a set that is not empty is to be saved.
SetValidators(c, set) ==
    /\ call[c].pc = "idle"
    /\ roster' = set /\ added' = {} /\ cleared' = (set = {})
    /\ parted' = (set # {} /\ InFlight # {})
    /\ IF set # {} THEN BeginsSave(c, set) ELSE UNCHANGED <<call, overlapped>>
    /\ UNCHANGED <<store, registering, deleting, count, sentenced, raced>>

\* A snapshot import saves the set it carries and leaves the roster alone.
ImportSet(c, set) ==
    /\ call[c].pc = "idle" /\ set # {}
    /\ BeginsSave(c, set)
    /\ parted' = TRUE
    /\ UNCHANGED <<roster, store, registering, deleting, count, added, cleared, sentenced, raced>>

\* The stored epoch is taken over as it is.
NextEpochSame(rec) == IF rec.epoch = 0 THEN 1 ELSE rec.epoch

NextEpoch(rec) == rec.epoch + 1

\* The read succeeds; an error would be dropped and the epoch start at 1 again.
SaveReads(c) ==
    /\ call[c].pc = "read" /\ saved.epoch < MaxEpoch
    /\ call' = [call EXCEPT ![c].pc = "write", ![c].epoch = NextEpoch(saved)]
    /\ UNCHANGED <<roster, store, registering, deleting, histories>>

SaveWrites(c) ==
    /\ call[c].pc = "write"
    /\ saved' = [set |-> call[c].set, epoch |-> call[c].epoch]
    /\ call' = [call EXCEPT ![c] = NoCall]
    /\ UNCHANGED <<roster, staked, jail, registering, deleting, histories>>

\* The error of SaveValidatorSet is dropped.
SaveFails(c) ==
    /\ call[c].pc # "idle" /\ call' = [call EXCEPT ![c] = NoCall]
    /\ parted' = TRUE
    /\ UNCHANGED <<roster, store, registering, deleting, count, added, cleared, overlapped,
                   sentenced, raced>>

\* handleRegisterValidator: IsEligible, then AddValidator, in memory only.
RegisterChecks(v) ==
    /\ v \in staked /\ registering' = registering \cup {v}
    /\ UNCHANGED <<roster, store, call, deleting, histories>>

\* The validator is added to the stored set, which becomes the roster.
AddReplaces(v) == roster' = StartRoster({}, saved) \cup {v}

AddValidator(v) == roster' = roster \cup {v}

RegisterAdds(v) ==
    /\ v \in registering /\ registering' = registering \ {v}
    /\ AddValidator(v)
    /\ added' = added \cup {v}
    /\ UNCHANGED <<store, call, deleting, count, cleared, parted, overlapped, sentenced, raced>>

\* Blocks move a stake across the minimum.
StakeChanges(v) ==
    /\ count.stakes < MaxStakes /\ count' = [count EXCEPT !.stakes = @ + 1]
    /\ staked' = IF v \in staked THEN staked \ {v} ELSE staked \cup {v}
    /\ UNCHANGED <<roster, saved, jail, call, registering, deleting, added, cleared, parted,
                   overlapped, sentenced, raced>>
-----------------------------------------------------------------------------
(* Jail records.                                                             *)

\* JailOnEquivocation, for DefaultJailDuration.
JailValidator(v) ==
    /\ jail' = [jail EXCEPT ![v] = "held"]
    /\ sentenced' = sentenced \cup {v}
    /\ raced' = IF v \in deleting THEN raced \cup {v} ELSE raced
    /\ UNCHANGED <<roster, saved, staked, call, registering, deleting, count, added, cleared,
                   parted, overlapped>>

\* Its time is over.
JailExpires(v) ==
    /\ jail[v] = "held" /\ jail' = [jail EXCEPT ![v] = "expired"]
    /\ sentenced' = sentenced \ {v}
    /\ UNCHANGED <<roster, saved, staked, call, registering, deleting, count, added, cleared,
                   parted, overlapped, raced>>

\* Any record is taken for an expired one.
FoundAny(v) == jail[v] # "none"

\* IsJailed finds a record whose time is over.
FoundExpired(v) == jail[v] = "expired"

IsJailedReads(v) ==
    /\ FoundExpired(v) /\ v \notin deleting
    /\ deleting' = deleting \cup {v}
    /\ UNCHANGED <<roster, store, call, registering, histories>>

\* The UnjailValidator of such an IsJailed.
IsJailedDeletes(v) ==
    /\ v \in deleting /\ deleting' = deleting \ {v}
    /\ jail' = [jail EXCEPT ![v] = "none"]
    /\ UNCHANGED <<roster, saved, staked, call, registering, histories>>

\* handleUnjail.
Release(v) ==
    /\ jail[v] # "none" /\ jail' = [jail EXCEPT ![v] = "none"]
    /\ sentenced' = sentenced \ {v}
    /\ UNCHANGED <<roster, saved, staked, call, registering, deleting, count, added, cleared,
                   parted, overlapped, raced>>
-----------------------------------------------------------------------------
\* The process stops and starts from its store and its environment.
Restart(env) ==
    /\ count.restarts < MaxRestarts /\ count' = [count EXCEPT !.restarts = @ + 1]
    /\ roster' = StartRoster(env, saved) /\ saved' = StartSaved(env, saved)
    /\ call' = [c \in Calls |-> NoCall] /\ registering' = {} /\ deleting' = {}
    /\ added' = {} /\ cleared' = FALSE /\ parted' = FALSE
    /\ UNCHANGED <<staked, jail, overlapped, sentenced, raced>>

Next ==
    \/ \E c \in Calls :
        \/ \E set \in Sets : SetValidators(c, set) \/ ImportSet(c, set)
        \/ SaveReads(c) \/ SaveWrites(c) \/ SaveFails(c)
    \/ \E v \in Addresses :
        \/ v \in Registrants /\ RegisterChecks(v)
        \/ RegisterAdds(v) \/ StakeChanges(v)
        \/ v \in Offenders /\ JailValidator(v)
        \/ JailExpires(v) \/ IsJailedReads(v) \/ IsJailedDeletes(v) \/ Release(v)
    \/ \E env \in Sets : Restart(env)

Spec == Init /\ [][Next]_vars
-----------------------------------------------------------------------------
(* Who leads.                                                                *)

\* eligibleValidatorsLocked: sorted, and neither jailed nor short of stake.
MayLead(v) == v \in roster /\ v \in staked /\ jail[v] # "held"
Eligible == Kept(AddressOrder, {i \in DOMAIN AddressOrder : MayLead(AddressOrder[i])})

\* The rotation leaves its last place out.
LeaderForHeightSkipsLast(h) ==
    LET n == Len(Eligible) IN
    IF n = 0 THEN Local ELSE IF n = 1 THEN Eligible[1] ELSE Eligible[(h % (n - 1)) + 1]

LeaderForHeight(h) ==
    LET n == Len(Eligible) IN IF n = 0 THEN Local ELSE Eligible[(h % n) + 1]

\* In as many heights as there are eligible validators, counted after h, each of
\* them leads once, and nobody else does.
EachLeadsOnceAfter(h) ==
    LET turn == [i \in 1..Len(Eligible) |-> LeaderForHeight(h + i)] IN
    IsInjective(turn) /\ Range(turn) = Range(Eligible)

(***************************************************************************)
(* Every validator that is eligible leads once in as many heights as there *)
(* are eligible ones, from any height on, and nobody else does.            *)
(***************************************************************************)
EveryoneLeads == Eligible # <<>> => \A h \in 1..2 * Len(AddressOrder) : EachLeadsOnceAfter(h)

(***************************************************************************)
(* The stored set is the roster without what was registered since, so that *)
(* a restart brings it back: unless saves overlapped, one failed, or the   *)
(* set came with a snapshot; and a roster that was cleared is not stored.  *)
(***************************************************************************)
RosterSurvives ==
    InFlight = {} /\ ~parted => roster = (IF cleared THEN {} ELSE saved.set) \cup added

(***************************************************************************)
(* The epoch is the stored set's revision: it never falls, and rises with  *)
(* every change of the set, as long as no two saves overlap.               *)
(***************************************************************************)
EpochIsRevision == [][~overlapped' =>
    /\ saved'.epoch >= saved.epoch
    /\ saved'.set # saved.set => saved'.epoch > saved.epoch]_vars

(***************************************************************************)
(* A jailed validator stays jailed until its time is over or an operator   *)
(* releases it, whoever looks at expired records meanwhile; only a jail    *)
(* that begins while an IsJailed is about to delete an expired record may  *)
(* go with it.                                                             *)
(***************************************************************************)
JailHolds == \A v \in sentenced : v \notin raced => jail[v] = "held"
=============================================================================
