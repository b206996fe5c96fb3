------------------------- MODULE ValidatorSetProofs --------------------------
(***************************************************************************)
(* For any addresses, sets, concurrent calls and bounds: a sentence holds  *)
(* until it ends, the stored set is the roster wherever RosterSurvives     *)
(* says so, the epoch numbers the revisions of the set, and the rotation   *)
(* gives everyone a turn.                                                  *)
(*                                                                         *)
(* None of the first three is inductive. A sentence is safe because no     *)
(* IsJailed that has found an expired record is still about to delete it   *)
(* (SentenceSafe). The stored set follows the roster because every save    *)
(* that is under way carries the roster (SavesCarryRoster). The epoch      *)
(* rises because a save that did not overlap another still holds the       *)
(* successor of the stored epoch (SavesHoldNextEpoch). The rotation is     *)
(* arithmetic: h + 1, ..., h + n differ modulo n.                          *)
(***************************************************************************)
EXTENDS ValidatorSet, FiniteSetTheorems, TLAPS

Call == [pc : {"idle", "read", "write"}, set : SUBSET Addresses, epoch : Nat]

TypeOK ==
    /\ roster \in SUBSET Addresses
    /\ saved \in [set : SUBSET Addresses, epoch : Nat]
    /\ call \in [Calls -> Call]
    /\ jail \in [Addresses -> {"none", "held", "expired"}]
    /\ registering \in SUBSET Addresses

SentenceSafe == \A v \in sentenced : v \notin raced => jail[v] = "held" /\ v \notin deleting

SavesCarryRoster == ~parted =>
    IF cleared THEN roster = added
    ELSE /\ \A c \in InFlight : roster = call[c].set \cup added
         /\ InFlight = {} => roster = saved.set \cup added

SavesHoldNextEpoch == ~overlapped =>
    /\ \A c, d \in InFlight : c = d
    /\ \A c \in Calls : call[c].pc = "write" => call[c].epoch = saved.epoch + 1

SetInv == TypeOK /\ SentenceSafe /\ SavesCarryRoster /\ SavesHoldNextEpoch

\* What main starts from is well-formed, and the stored set is then the roster.
LEMMA StartType ==
    ASSUME NEW env \in SUBSET Addresses, NEW rec \in [set : SUBSET Addresses, epoch : Nat]
    PROVE  /\ StartRoster(env, rec) \in SUBSET Addresses
           /\ StartSaved(env, rec) \in [set : SUBSET Addresses, epoch : Nat]
           /\ StartSaved(env, rec).set = StartRoster(env, rec)
BY AddressesSorted DEF StartRoster, StartSaved

\* The invariant holds when the process first starts.
LEMMA SetInvInit == Init => SetInv
<1> SUFFICES ASSUME Init PROVE SetInv OBVIOUS
<1>0. Nothing \in [set : SUBSET Addresses, epoch : Nat] BY DEF Nothing
<1>1. TypeOK BY <1>0, StartType DEF Init, TypeOK, Call, NoCall
<1>2. InFlight = {} BY DEF Init, InFlight, NoCall
<1>3. SentenceSafe BY DEF Init, SentenceSafe
<1>4. SavesCarryRoster BY <1>0, <1>2, StartType DEF Init, SavesCarryRoster
<1>5. SavesHoldNextEpoch BY <1>2 DEF Init, SavesHoldNextEpoch, NoCall
<1> QED BY <1>1, <1>3, <1>4, <1>5 DEF SetInv

\* Every step keeps the state well-formed.
LEMMA TypeStep == TypeOK /\ [Next]_vars => TypeOK'
<1> SUFFICES ASSUME TypeOK, [Next]_vars PROVE TypeOK' OBVIOUS
<1> USE ActorsType DEF TypeOK, Call, NoCall
<1>1. ASSUME NEW c \in Calls, NEW set \in Sets, SetValidators(c, set) PROVE TypeOK'
  BY <1>1 DEF SetValidators, BeginsSave, store
<1>2. ASSUME NEW c \in Calls, NEW set \in Sets, ImportSet(c, set) PROVE TypeOK'
  BY <1>2 DEF ImportSet, BeginsSave, store
<1>3. ASSUME NEW c \in Calls, SaveReads(c) PROVE TypeOK'
  <2>1. [call[c] EXCEPT !.pc = "write", !.epoch = saved.epoch + 1] \in Call
    <3>1. call[c] \in Call /\ saved.epoch + 1 \in Nat OBVIOUS
    <3> HIDE DEF TypeOK
    <3> QED BY <3>1
  <2>2. call' = [call EXCEPT ![c] = [call[c] EXCEPT !.pc = "write", !.epoch = saved.epoch + 1]]
    BY <1>3 DEF SaveReads, NextEpoch
  <2>3. call' \in [Calls -> Call] BY <2>1, <2>2 DEF Call
  <2> QED BY <1>3, <2>3 DEF SaveReads, store, histories
<1>4. ASSUME NEW c \in Calls, SaveWrites(c) PROVE TypeOK'
  BY <1>4 DEF SaveWrites, histories
<1>5. ASSUME NEW c \in Calls, SaveFails(c) PROVE TypeOK'
  BY <1>5 DEF SaveFails, store
<1>6. ASSUME NEW v \in Addresses, RegisterChecks(v) \/ RegisterAdds(v) \/ StakeChanges(v)
      PROVE TypeOK'
  BY <1>6 DEF RegisterChecks, RegisterAdds, AddValidator, StakeChanges, store, histories
<1>7. ASSUME NEW v \in Addresses, JailValidator(v) \/ JailExpires(v) \/ Release(v)
      PROVE TypeOK'
  BY <1>7 DEF JailValidator, JailExpires, Release
<1>8. ASSUME NEW v \in Addresses, IsJailedReads(v) \/ IsJailedDeletes(v) PROVE TypeOK'
  BY <1>8 DEF IsJailedReads, IsJailedDeletes, store, histories
<1>9. ASSUME NEW env \in Sets, Restart(env) PROVE TypeOK'
  BY <1>9, StartType DEF Restart
<1>10. CASE UNCHANGED vars BY <1>10 DEF vars
<1> QED BY <1>1, <1>2, <1>3, <1>4, <1>5, <1>6, <1>7, <1>8, <1>9, <1>10 DEF Next

\* A sentence is lifted only when its time is over or by handleUnjail; a lazy
\* deletion under way when it begins is what raced records.
LEMMA SentenceStep == TypeOK /\ SentenceSafe /\ [Next]_vars => SentenceSafe'
<1> SUFFICES ASSUME TypeOK, SentenceSafe, [Next]_vars PROVE SentenceSafe' OBVIOUS
<1> USE DEF TypeOK, SentenceSafe
<1>1. ASSUME NEW v \in Addresses, JailValidator(v) PROVE SentenceSafe'
  BY <1>1 DEF JailValidator
<1>2. ASSUME NEW v \in Addresses, JailExpires(v) PROVE SentenceSafe'
  BY <1>2 DEF JailExpires
<1>3. ASSUME NEW v \in Addresses, Release(v) PROVE SentenceSafe'
  BY <1>3 DEF Release
<1>4. ASSUME NEW v \in Addresses, IsJailedReads(v) PROVE SentenceSafe'
  BY <1>4 DEF IsJailedReads, FoundExpired, store, histories
<1>5. ASSUME NEW v \in Addresses, IsJailedDeletes(v) PROVE SentenceSafe'
  BY <1>5 DEF IsJailedDeletes, histories
<1>6. ASSUME NEW env \in Sets, Restart(env) PROVE SentenceSafe'
  BY <1>6 DEF Restart
<1>7. CASE UNCHANGED <<jail, deleting, sentenced, raced>> BY <1>7
<1>8. ASSUME NEW c \in Calls, NEW set \in Sets, SetValidators(c, set) \/ ImportSet(c, set)
      PROVE UNCHANGED <<jail, deleting, sentenced, raced>>
  BY <1>8 DEF SetValidators, ImportSet, store
<1>9. ASSUME NEW c \in Calls, SaveReads(c) \/ SaveWrites(c) \/ SaveFails(c)
      PROVE UNCHANGED <<jail, deleting, sentenced, raced>>
  BY <1>9 DEF SaveReads, SaveWrites, SaveFails, store, histories
<1>10. ASSUME NEW v \in Addresses, RegisterChecks(v) \/ RegisterAdds(v) \/ StakeChanges(v)
       PROVE UNCHANGED <<jail, deleting, sentenced, raced>>
  BY <1>10 DEF RegisterChecks, RegisterAdds, StakeChanges, store, histories
<1>11. UNCHANGED vars => UNCHANGED <<jail, deleting, sentenced, raced>> BY DEF vars
<1> QED BY <1>1, <1>2, <1>3, <1>4, <1>5, <1>6, <1>7, <1>8, <1>9, <1>10, <1>11 DEF Next

\* A save that begins is under way, with its set, and the others stay as they are.
LEMMA SaveUnderWay == TypeOK => \A c \in Calls, set \in Sets : BeginsSave(c, set) =>
    /\ call'[c] = [pc |-> "read", set |-> set, epoch |-> 0]
    /\ \A d \in Calls \ {c} : call'[d] = call[d]
    /\ InFlight' = InFlight \cup {c}
    /\ ~overlapped' => ~overlapped /\ InFlight = {}
<1> SUFFICES ASSUME TypeOK, NEW c \in Calls, NEW set \in Sets, BeginsSave(c, set)
             PROVE  /\ call'[c] = [pc |-> "read", set |-> set, epoch |-> 0]
                    /\ \A d \in Calls \ {c} : call'[d] = call[d]
                    /\ InFlight' = InFlight \cup {c}
                    /\ ~overlapped' => ~overlapped /\ InFlight = {}
  BY Zenon
<1>1. call'[c] = [pc |-> "read", set |-> set, epoch |-> 0] BY DEF BeginsSave, TypeOK
<1>2. \A d \in Calls \ {c} : call'[d] = call[d] BY DEF BeginsSave, TypeOK
<1>3. InFlight' = InFlight \cup {c} BY <1>1, <1>2 DEF InFlight
<1>4. ~overlapped' => ~overlapped /\ InFlight = {} BY Zenon DEF BeginsSave
<1> QED BY <1>1, <1>2, <1>3, <1>4

\* Every save under way carries the roster, unless something parted them.
LEMMA RosterStep == TypeOK /\ SavesCarryRoster /\ [Next]_vars => SavesCarryRoster'
<1> SUFFICES ASSUME TypeOK, SavesCarryRoster, [Next]_vars PROVE SavesCarryRoster' OBVIOUS
<1> USE ActorsType DEF SavesCarryRoster, InFlight
<1>1. ASSUME NEW c \in Calls, NEW set \in Sets, SetValidators(c, set) PROVE SavesCarryRoster'
  <2>1. CASE set = {} BY <1>1, <2>1 DEF SetValidators
  <2>2. CASE set # {}
    <3>1. BeginsSave(c, set) BY <1>1, <2>2 DEF SetValidators
    <3> HIDE DEF InFlight
    <3>2. /\ call'[c] = [pc |-> "read", set |-> set, epoch |-> 0]
          /\ InFlight' = InFlight \cup {c}
      BY <3>1, SaveUnderWay, Zenon
    <3>3. roster' = set /\ added' = {} /\ ~cleared' BY <1>1, <2>2 DEF SetValidators
    <3>4. ~parted' => InFlight = {} BY <1>1, <2>2, Zenon DEF SetValidators
    <3> QED BY <3>2, <3>3, <3>4
  <2> QED BY <2>1, <2>2
<1>2. ASSUME NEW c \in Calls, NEW set \in Sets, ImportSet(c, set) PROVE SavesCarryRoster'
  BY <1>2 DEF ImportSet
<1>3. ASSUME NEW c \in Calls, SaveReads(c) PROVE SavesCarryRoster'
  <2>1. \A d \in Calls : call'[d].set = call[d].set /\ (call'[d].pc # "idle" <=> call[d].pc # "idle")
    BY <1>3 DEF SaveReads, TypeOK, Call
  <2> QED BY <1>3, <2>1 DEF SaveReads, store, histories
<1>4. ASSUME NEW c \in Calls, SaveWrites(c) PROVE SavesCarryRoster'
  BY <1>4 DEF SaveWrites, NoCall, TypeOK, histories
<1>5. ASSUME NEW c \in Calls, SaveFails(c) PROVE SavesCarryRoster'
  BY <1>5 DEF SaveFails
<1>6. ASSUME NEW v \in Addresses, RegisterAdds(v) PROVE SavesCarryRoster'
  BY <1>6 DEF RegisterAdds, AddValidator, store
<1>7. ASSUME NEW env \in Sets, Restart(env) PROVE SavesCarryRoster'
  <2>1. InFlight' = {} BY <1>7 DEF Restart, NoCall
  <2>2. roster' = saved'.set BY <1>7, StartType DEF Restart, TypeOK
  <2>3. added' = {} /\ ~cleared' BY <1>7 DEF Restart
  <2> HIDE DEF InFlight
  <2> QED BY <2>1, <2>2, <2>3
<1>8. CASE UNCHANGED <<roster, saved, call, added, cleared, parted>> BY <1>8
<1>9. ASSUME NEW v \in Addresses, RegisterChecks(v) \/ StakeChanges(v) \/ IsJailedReads(v)
      PROVE UNCHANGED <<roster, saved, call, added, cleared, parted>>
  BY <1>9 DEF RegisterChecks, StakeChanges, IsJailedReads, store, histories
<1>10. ASSUME NEW v \in Addresses,
              JailValidator(v) \/ JailExpires(v) \/ IsJailedDeletes(v) \/ Release(v)
       PROVE UNCHANGED <<roster, saved, call, added, cleared, parted>>
  BY <1>10 DEF JailValidator, JailExpires, IsJailedDeletes, Release, histories
<1>11. UNCHANGED vars => UNCHANGED <<roster, saved, call, added, cleared, parted>> BY DEF vars
<1> QED BY <1>1, <1>2, <1>3, <1>4, <1>5, <1>6, <1>7, <1>8, <1>9, <1>10, <1>11 DEF Next

\* What a step does to the stored set while no two saves have overlapped.
RevisionStep == ~overlapped' =>
    /\ saved'.epoch >= saved.epoch
    /\ saved'.set # saved.set => saved'.epoch > saved.epoch

\* A save that no other overlapped holds the next epoch until it writes.
LEMMA EpochStep ==
    TypeOK /\ SavesHoldNextEpoch /\ [Next]_vars => SavesHoldNextEpoch' /\ RevisionStep
<1> SUFFICES ASSUME TypeOK, SavesHoldNextEpoch, [Next]_vars
             PROVE  SavesHoldNextEpoch' /\ RevisionStep
  OBVIOUS
<1> USE DEF SavesHoldNextEpoch, RevisionStep, InFlight
<1>0. saved.epoch \in Nat BY DEF TypeOK
<1>b. ASSUME NEW c \in Calls, NEW set \in Sets, BeginsSave(c, set)
      PROVE  SavesHoldNextEpoch'
  <2> HIDE DEF InFlight, SavesHoldNextEpoch
  <2>1. /\ call'[c] = [pc |-> "read", set |-> set, epoch |-> 0]
        /\ \A d \in Calls \ {c} : call'[d] = call[d]
        /\ InFlight' = InFlight \cup {c}
        /\ ~overlapped' => InFlight = {}
    BY <1>b, SaveUnderWay, Zenon
  <2>2. ~overlapped' => \A d \in Calls : call'[d].pc # "write" BY <2>1 DEF InFlight
  <2> QED BY <2>1, <2>2 DEF SavesHoldNextEpoch
<1>1. ASSUME NEW c \in Calls, NEW set \in Sets, SetValidators(c, set)
      PROVE SavesHoldNextEpoch' /\ RevisionStep
  <2>1. CASE set = {} BY <1>0, <1>1, <2>1 DEF SetValidators, store
  <2>2. CASE set # {}
    BY <1>0, <1>1, <1>b, <2>2 DEF SetValidators, store
  <2> QED BY <2>1, <2>2
<1>2. ASSUME NEW c \in Calls, NEW set \in Sets, ImportSet(c, set)
      PROVE SavesHoldNextEpoch' /\ RevisionStep
  BY <1>0, <1>2, <1>b DEF ImportSet, store
<1>3. ASSUME NEW c \in Calls, SaveReads(c) PROVE SavesHoldNextEpoch' /\ RevisionStep
  <2>1. \A d \in Calls : /\ call'[d].pc # "idle" <=> call[d].pc # "idle"
                         /\ d # c => call'[d] = call[d]
    BY <1>3 DEF SaveReads, TypeOK, Call
  <2>2. call'[c].epoch = saved.epoch + 1 BY <1>3 DEF SaveReads, NextEpoch, TypeOK, Call
  <2>3. UNCHANGED <<saved, overlapped>> BY <1>3 DEF SaveReads, store, histories
  <2> QED BY <1>0, <2>1, <2>2, <2>3
<1>4. ASSUME NEW c \in Calls, SaveWrites(c) PROVE SavesHoldNextEpoch' /\ RevisionStep
  <2>1. call' = [call EXCEPT ![c] = NoCall] /\ call \in [Calls -> Call] BY <1>4 DEF SaveWrites, TypeOK
  <2>2. saved'.epoch = call[c].epoch /\ call[c].pc = "write" /\ UNCHANGED overlapped
    BY <1>4 DEF SaveWrites, histories
  <2>3. SavesHoldNextEpoch' BY <2>1, <2>2 DEF NoCall
  <2> QED BY <1>0, <2>2, <2>3
<1>5. ASSUME NEW c \in Calls, SaveFails(c) PROVE SavesHoldNextEpoch' /\ RevisionStep
  BY <1>0, <1>5 DEF SaveFails, NoCall, TypeOK, store
<1>6. ASSUME NEW env \in Sets, Restart(env) PROVE SavesHoldNextEpoch' /\ RevisionStep
  <2>1. SavesHoldNextEpoch' BY <1>6 DEF Restart, NoCall
  <2>2. saved' = saved \/ saved'.epoch = saved.epoch + 1 BY <1>6 DEF Restart, StartSaved
  <2> QED BY <1>0, <2>1, <2>2
<1>7. CASE UNCHANGED <<saved, call, overlapped>> BY <1>0, <1>7
<1>8. ASSUME NEW v \in Addresses,
             RegisterChecks(v) \/ RegisterAdds(v) \/ StakeChanges(v) \/ IsJailedReads(v)
      PROVE UNCHANGED <<saved, call, overlapped>>
  BY <1>8 DEF RegisterChecks, RegisterAdds, StakeChanges, IsJailedReads, store, histories
<1>9. ASSUME NEW v \in Addresses,
             JailValidator(v) \/ JailExpires(v) \/ IsJailedDeletes(v) \/ Release(v)
      PROVE UNCHANGED <<saved, call, overlapped>>
  BY <1>9 DEF JailValidator, JailExpires, IsJailedDeletes, Release, histories
<1>10. UNCHANGED vars => UNCHANGED <<saved, call, overlapped>> BY DEF vars
<1> QED BY <1>1, <1>2, <1>3, <1>4, <1>5, <1>6, <1>7, <1>8, <1>9, <1>10 DEF Next

\* The invariant is inductive.
LEMMA SetInvHolds == Spec => []SetInv
<1>1. SetInv /\ [Next]_vars => SetInv' BY TypeStep, SentenceStep, RosterStep, EpochStep DEF SetInv
<1> QED BY SetInvInit, <1>1, PTL DEF Spec

(***************************************************************************)
(* A jailed validator stays jailed until its time is over or handleUnjail  *)
(* releases it, however many IsJailed calls meet expired records; only a   *)
(* sentence that begins during a lazy deletion may be lost.                *)
(***************************************************************************)
THEOREM JailHoldsAlways == Spec => []JailHolds
<1>1. SetInv => JailHolds BY DEF SetInv, SentenceSafe, JailHolds
<1> QED BY SetInvHolds, <1>1, PTL

(***************************************************************************)
(* The set that SaveValidatorSet left in the store is the roster without   *)
(* later registrations, when no save overlapped another, failed or came    *)
(* with a snapshot, and the roster was not cleared.                        *)
(***************************************************************************)
THEOREM RosterSurvivesHolds == Spec => []RosterSurvives
<1>1. SetInv => RosterSurvives BY DEF SetInv, SavesCarryRoster, RosterSurvives
<1> QED BY SetInvHolds, <1>1, PTL

(***************************************************************************)
(* The epoch that SaveValidatorSet computes never falls and rises with     *)
(* every change of the stored set while no two saves overlap.              *)
(***************************************************************************)
THEOREM EpochIsRevisionHolds == Spec => EpochIsRevision
<1>1. SetInv /\ [Next]_vars => [RevisionStep]_vars BY EpochStep DEF SetInv
<1>2. [RevisionStep]_vars <=> [~overlapped' =>
        /\ saved'.epoch >= saved.epoch
        /\ saved'.set # saved.set => saved'.epoch > saved.epoch]_vars
  BY DEF RevisionStep
<1> QED BY SetInvHolds, <1>1, <1>2, PTL DEF Spec, EpochIsRevision
-----------------------------------------------------------------------------
(* Who leads *)

\* Different values in as many places leave none out.
LEMMA InjectiveIsOnto ==
    ASSUME NEW S, NEW T, IsFiniteSet(S), IsFiniteSet(T), Cardinality(S) = Cardinality(T),
           NEW f \in [S -> T], IsInjective(f)
    PROVE  Range(f) = T
<1> SUFFICES ASSUME NEW t \in T, \A s \in S : f[s] # t PROVE FALSE BY DEF Range
<1>1. f \in [S -> T \ {t}] OBVIOUS
<1>2. IsFiniteSet(T \ {t}) /\ Cardinality(T \ {t}) = Cardinality(T) - 1 BY FS_RemoveElement
<1>3. Cardinality(T) \in Nat BY FS_CardinalityType
<1>4. Cardinality(T \ {t}) < Cardinality(S) BY <1>2, <1>3
<1>5. \E x, y \in S : x # y /\ f[x] = f[y] BY <1>1, <1>2, <1>4, FS_PigeonHole
<1> QED BY <1>5 DEF IsInjective

UpTo(K, i) == {k \in K : k <= i}
Rank(K, i) == Cardinality(UpTo(K, i))

\* The places that are kept are numbered from 1 to how many they are.
LEMMA Ranks ==
    ASSUME NEW K, K \subseteq Nat, IsFiniteSet(K)
    PROVE  /\ \A i \in K : Rank(K, i) \in 1..Cardinality(K)
           /\ \A i, j \in K : Rank(K, i) = Rank(K, j) => i = j
           /\ \A n \in 1..Cardinality(K) : \E i \in K : Rank(K, i) = n
<1>0. Cardinality(K) \in Nat BY FS_CardinalityType
<1>1. \A i \in K : /\ UpTo(K, i) \in SUBSET K /\ IsFiniteSet(UpTo(K, i))
                   /\ Rank(K, i) \in Nat /\ Rank(K, i) <= Cardinality(K)
  <2> SUFFICES ASSUME NEW i \in K
               PROVE  /\ UpTo(K, i) \in SUBSET K /\ IsFiniteSet(UpTo(K, i))
                      /\ Rank(K, i) \in Nat /\ Rank(K, i) <= Cardinality(K)
    OBVIOUS
  <2>1. UpTo(K, i) \in SUBSET K BY DEF UpTo
  <2>2. IsFiniteSet(UpTo(K, i)) /\ Cardinality(UpTo(K, i)) <= Cardinality(K) BY <2>1, FS_Subset
  <2> QED BY <2>1, <2>2, FS_CardinalityType DEF Rank
<1>2. ASSUME NEW i \in K PROVE Rank(K, i) \in 1..Cardinality(K)
  <2>1. i \in UpTo(K, i) BY DEF UpTo
  <2>2. Rank(K, i) # 0 BY <1>1, <2>1, FS_EmptySet DEF Rank
  <2> QED BY <1>0, <1>1, <2>2
<1>3. ASSUME NEW i \in K, NEW j \in K, i < j PROVE Rank(K, i) # Rank(K, j)
  <2>1. UpTo(K, i) \in SUBSET UpTo(K, j)
    <3> SUFFICES ASSUME NEW k \in K, k <= i PROVE k <= j BY DEF UpTo
    <3>1. k \in Nat /\ i \in Nat /\ j \in Nat OBVIOUS
    <3> QED BY <1>3, <3>1
  <2>2. j \in UpTo(K, j) /\ j \notin UpTo(K, i) BY <1>3 DEF UpTo
  <2>3. UpTo(K, j) # UpTo(K, i) BY <2>2
  <2>4. IsFiniteSet(UpTo(K, j)) BY <1>1
  <2>5. Cardinality(UpTo(K, j)) # Cardinality(UpTo(K, i)) BY <2>1, <2>3, <2>4, FS_Subset
  <2> QED BY <2>5 DEF Rank
<1>4. \A i, j \in K : Rank(K, i) = Rank(K, j) => i = j
  <2> SUFFICES ASSUME NEW i \in K, NEW j \in K, Rank(K, i) = Rank(K, j), i # j PROVE FALSE
    OBVIOUS
  <2>1. i < j \/ j < i OBVIOUS
  <2> QED BY <1>3, <2>1
<1>5. ASSUME NEW n \in 1..Cardinality(K) PROVE \E i \in K : Rank(K, i) = n
  <2> DEFINE f == [i \in K |-> Rank(K, i)]
             T == 1..Cardinality(K)
  <2>1. f \in [K -> T] BY <1>2
  <2>2. IsInjective(f) BY <1>4 DEF IsInjective
  <2>3. IsFiniteSet(T) /\ Cardinality(T) = Cardinality(K) BY <1>0, FS_Interval
  <2>4. n \in T OBVIOUS
  <2> HIDE DEF f, T
  <2>5. Range(f) = T BY <2>1, <2>2, <2>3, InjectiveIsOnto
  <2>6. PICK i \in K : f[i] = n BY <2>1, <2>4, <2>5 DEF Range
  <2> QED BY <2>6 DEF f
<1> QED BY <1>2, <1>4, <1>5

\* Kept takes each of the places once.
LEMMA KeptOnce ==
    ASSUME NEW K, K \subseteq Nat, IsFiniteSet(K)
    PROVE  /\ \A n \in 1..Cardinality(K) : Nth(K, n) \in K
           /\ \A m, n \in 1..Cardinality(K) : Nth(K, m) = Nth(K, n) => m = n
<1>1. ASSUME NEW n \in 1..Cardinality(K) PROVE Nth(K, n) \in K /\ Rank(K, Nth(K, n)) = n
  <2>1. \E i \in K : Rank(K, i) = n BY Ranks
  <2>2. Nth(K, n) = CHOOSE i \in K : Rank(K, i) = n BY DEF Nth, Rank, UpTo
  <2> QED BY <2>1, <2>2
<1> QED BY <1>1

\* Within n heights, no remainder by n comes twice.
LEMMA RemaindersDiffer ==
    ASSUME NEW n \in Nat \ {0}, NEW a \in Nat, NEW b \in Nat, a < b, b < a + n
    PROVE  a % n # b % n
<1> DEFINE p == a \div n
           q == b \div n
           r == a % n
           s == b % n
<1>1. p \in Nat /\ r \in Nat /\ a = n * p + r OBVIOUS
<1>2. q \in Nat /\ s \in Nat /\ b = n * q + s OBVIOUS
<1> HIDE DEF p, q, r, s
<1> SUFFICES ASSUME r = s PROVE FALSE BY DEF r, s
<1>3. PICK x \in Int : x = n * p BY <1>1
<1>4. PICK y \in Int : y = n * q BY <1>2
<1>5. x < y /\ y < x + n BY <1>1, <1>2, <1>3, <1>4
<1>6. CASE q <= p
  <2>1. PICK k \in Nat : p = q + k BY <1>1, <1>2, <1>6
  <2>2. n * p = n * q + n * k BY <1>2, <2>1
  <2>3. n * k \in Nat BY <2>1
  <2> QED BY <1>3, <1>4, <1>5, <2>2, <2>3
<1>7. CASE q > p
  <2>1. q - p - 1 \in Nat /\ q = p + 1 + (q - p - 1) BY <1>1, <1>2, <1>7
  <2>2. PICK k \in Nat : q = p + 1 + k BY <2>1
  <2>3. n * q = n * p + n + n * k BY <1>1, <2>2
  <2>4. n * k \in Nat BY <2>2
  <2> QED BY <1>3, <1>4, <1>5, <2>3, <2>4
<1> QED BY <1>1, <1>2, <1>6, <1>7

\* The rotation passes every place of a sequence without repetitions once.
LEMMA Rotation ==
    ASSUME Eligible # <<>>, NEW h \in Nat
    PROVE  EachLeadsOnceAfter(h)
<1> DEFINE K == {i \in DOMAIN AddressOrder : MayLead(AddressOrder[i])}
           n == Cardinality(K)
           E == Eligible
           turn == [i \in 1..Len(E) |-> LeaderForHeight(h + i)]
<1>1. K \subseteq Nat /\ IsFiniteSet(K) /\ n \in Nat
  <2>1. K \in SUBSET (1..Len(AddressOrder)) /\ Len(AddressOrder) \in Nat BY AddressesSorted
  <2>2. 1 \in Int /\ Len(AddressOrder) \in Int BY <2>1
  <2>3. IsFiniteSet(1..Len(AddressOrder)) BY <2>2, FS_Interval
  <2> HIDE DEF K
  <2>4. IsFiniteSet(K) BY <2>1, <2>3, FS_Subset
  <2>5. 1..Len(AddressOrder) \subseteq Nat BY <2>1
  <2>6. n \in Nat BY <2>4, FS_CardinalityType
  <2> QED BY <2>1, <2>4, <2>5, <2>6
<1>2. E = [j \in 1..n |-> AddressOrder[Nth(K, j)]] BY DEF Eligible, Kept
<1>3. /\ \A j \in 1..n : Nth(K, j) \in DOMAIN AddressOrder
      /\ \A i, j \in 1..n : Nth(K, i) = Nth(K, j) => i = j
  <2>1. \A j \in 1..n : Nth(K, j) \in K BY <1>1, KeptOnce
  <2>2. \A j \in 1..n : Nth(K, j) \in DOMAIN AddressOrder BY <2>1
  <2> HIDE DEF K
  <2> QED BY <1>1, <2>2, KeptOnce
<1> HIDE DEF K, n, E
<1>4. /\ Len(E) = n /\ DOMAIN E = 1..n
      /\ \A i, j \in 1..n : E[i] = E[j] => i = j
  <2>1. \A j \in 1..n : AddressOrder[Nth(K, j)] \in Addresses BY <1>3, AddressesSorted
  <2>2. E \in [1..n -> Addresses] BY <1>2, <2>1
  <2>3. Len(E) = n /\ DOMAIN E = 1..n BY <1>1, <2>2
  <2>4. ASSUME NEW i \in 1..n, NEW j \in 1..n, E[i] = E[j] PROVE i = j
    <3>1. AddressOrder[Nth(K, i)] = AddressOrder[Nth(K, j)] BY <1>2, <2>4
    <3> QED BY <1>3, <3>1, AddressesSorted DEF IsInjective
  <2> QED BY <2>3, <2>4
<1>5. n # 0
  <2> SUFFICES ASSUME n = 0 PROVE FALSE OBVIOUS
  <2>1. DOMAIN E = {} BY <1>4
  <2>2. E = [j \in {} |-> AddressOrder[Nth(K, j)]] BY <1>2, <1>4, <2>1
  <2> QED BY <2>2 DEF E
<1>6. n \in Nat \ {0} BY <1>1, <1>5
<1> DEFINE f == [i \in 1..n |-> ((h + i) % n) + 1]
<1>7. f \in [1..n -> 1..n]
  <2> SUFFICES ASSUME NEW i \in 1..n PROVE ((h + i) % n) + 1 \in 1..n OBVIOUS
  <2>1. (h + i) % n \in 0..(n - 1) BY <1>6
  <2> QED BY <1>6, <2>1
<1>8. ASSUME NEW i \in 1..n, NEW j \in 1..n, i < j PROVE f[i] # f[j]
  <2>1. h + i \in Nat /\ h + j \in Nat /\ h + i < h + j /\ h + j < (h + i) + n BY <1>6, <1>8
  <2>2. (h + i) % n # (h + j) % n BY <1>6, <2>1, RemaindersDiffer
  <2>3. (h + i) % n \in Int /\ (h + j) % n \in Int BY <1>6
  <2> QED BY <2>2, <2>3
<1> HIDE DEF f
<1>9. IsInjective(f)
  <2> SUFFICES ASSUME NEW i \in 1..n, NEW j \in 1..n, f[i] = f[j], i # j PROVE FALSE
    BY <1>7 DEF IsInjective
  <2>1. i < j \/ j < i BY <1>6
  <2> QED BY <1>8, <2>1
<1>10. Range(f) = 1..n
  <2>1. IsFiniteSet(1..n) BY <1>6, FS_Interval
  <2> QED BY <1>7, <1>9, <2>1, InjectiveIsOnto
<1>11. ASSUME NEW i \in 1..n PROVE LeaderForHeight(h + i) = E[f[i]]
  <2>1. Len(Eligible) = n BY <1>4 DEF E
  <2>2. LeaderForHeight(h + i) = Eligible[((h + i) % n) + 1] BY <1>5, <2>1 DEF LeaderForHeight
  <2>3. f[i] = ((h + i) % n) + 1 BY DEF f
  <2> QED BY <2>2, <2>3 DEF E
<1>12. turn = [i \in 1..n |-> E[f[i]]] BY <1>4, <1>11
<1> HIDE DEF turn
<1>13. IsInjective(turn) BY <1>4, <1>7, <1>9, <1>12 DEF IsInjective
<1>14. Range(turn) = Range(E)
  <2>1. Range(turn) = {E[f[i]] : i \in 1..n} BY <1>12 DEF Range
  <2>2. Range(E) = {E[p] : p \in 1..n} BY <1>4 DEF Range
  <2>3. {f[i] : i \in 1..n} = 1..n BY <1>7, <1>10 DEF Range
  <2>4. ASSUME NEW p \in 1..n PROVE E[p] \in {E[f[i]] : i \in 1..n}
    <3>1. PICK i \in 1..n : f[i] = p BY <2>3
    <3> QED BY <3>1
  <2>5. ASSUME NEW i \in 1..n PROVE E[f[i]] \in {E[p] : p \in 1..n} BY <1>7
  <2> QED BY <2>1, <2>2, <2>4, <2>5
<1> QED BY <1>13, <1>14 DEF EachLeadsOnceAfter, turn, E

(***************************************************************************)
(* However the roster, the stakes and the jail records change, LeaderFor-  *)
(* Height gives every validator that is eligible one turn in as many       *)
(* heights as there are eligible ones, counted from any height.            *)
(***************************************************************************)
THEOREM EveryoneLeadsHolds ==
    Spec => [](EveryoneLeads /\ (Eligible # <<>> => \A h \in Nat : EachLeadsOnceAfter(h)))
<1>1. Eligible # <<>> => \A h \in Nat : EachLeadsOnceAfter(h) BY Rotation
<1>2. 1..2 * Len(AddressOrder) \subseteq Nat BY AddressesSorted
<1>3. EveryoneLeads BY <1>1, <1>2 DEF EveryoneLeads
<1> QED BY <1>1, <1>3, PTL
=============================================================================
