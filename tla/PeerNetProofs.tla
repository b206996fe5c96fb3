---------------------------- MODULE PeerNetProofs ----------------------------
(***************************************************************************)
(* For any links, peers, heartbeats and bounds: the count of peers is off  *)
(* by no more than the links that New missed, bans are earned, the epoch   *)
(* index counts the heartbeats that were recorded in order, and the rate   *)
(* limit holds in every window.                                            *)
(*                                                                         *)
(* A ban alone says nothing about the score that led to it, which accepted *)
(* blocks raise again; EarnedInv keeps the lowest score that the refused   *)
(* blocks allow, and that an entry of the ban table had enough of them.    *)
(* LimiterInv compares the hits that the limiter remembers with all it let *)
(* through: those it dropped had left the window.  So what it let through  *)
(* is spaced, Limit places apart by a window, which bounds any stretch.    *)
(***************************************************************************)
EXTENDS PeerNet, FiniteSetTheorems, WellFoundedInduction, TLAPS

LinkType ==
    /\ link \in [Links -> {"down", "dialled", "up", "lost"}]
    /\ registered \in BOOLEAN
    /\ peerCount \in Nat
    /\ IsFiniteSet(early)

CountInv ==
    /\ LinkType
    /\ ~registered => peerCount = 0
    /\ PeerCountBounds

\* The lowest score a peer had when its refused blocks were last counted from 0.
Base(p) == IF p \in forgiven THEN -25 ELSE 0
Needed(p) == IF p \in forgiven THEN 3 ELSE 5

ScoreType ==
    /\ score \in [Peers -> Int]
    /\ until \in [Peers -> Int]
    /\ rejected \in [Peers -> Nat]

EarnedInv ==
    /\ ScoreType
    /\ \A p \in Peers : score[p] >= Base(p) - 10 * rejected[p]
    /\ \A p \in Peers : until[p] # 0 => rejected[p] >= Needed(p)

\* What RecordHeartbeat has written for an address, and what it carries into
\* its transaction.
HeartbeatRecord == [epoch : Epochs, count : Nat]
Recording == [pc : {"update"}, address : Addresses, epoch : Epochs]
Counts == [Epochs -> Nat]

UptimeType ==
    /\ clock \in 0..MaxTime
    /\ recording \in [Handlers -> Recording \cup {Idle}]
    /\ record \in [Addresses -> HeartbeatRecord]
    /\ index \in [Addresses -> Counts]
    /\ recorded \in [Addresses -> Counts]
    /\ disordered \subseteq Addresses

\* The heartbeats of an address came in the order of their epochs: its record is
\* that of the last epoch, and the index has them all.
InOrder(a) ==
    /\ index[a] = recorded[a]
    /\ record[a].count = recorded[a][record[a].epoch]
    /\ \A e \in Epochs : e > record[a].epoch => recorded[a][e] = 0

UptimeInv ==
    /\ UptimeType
    /\ \A a \in Addresses : record[a].count <= recorded[a][record[a].epoch]
    /\ \A a \in Addresses, e \in Epochs : index[a][e] <= recorded[a][e]
    /\ \A a \in Addresses \ disordered : InOrder(a)

\* The links that are announced are finitely many.
LEMMA AnnouncedFinite == IsFiniteSet(Announced) /\ Cardinality(Announced) \in Nat
<1>1. Announced \in SUBSET Links BY DEF Announced
<1> QED BY <1>1, LinksFinite, FS_Subset, FS_CardinalityType

\* Nothing is up when the process starts.
LEMMA CountInit == Init => CountInv
<1> SUFFICES ASSUME Init PROVE CountInv OBVIOUS
<1>1. LinkType BY FS_EmptySet DEF Init, LinkType
<1>2. peerCount = 0 /\ ~registered BY DEF Init
<1> QED BY <1>1, <1>2, AnnouncedFinite DEF CountInv, PeerCountBounds

\* Every link that comes and goes keeps the count within its bounds.
LEMMA CountStep == CountInv /\ [Next]_vars => CountInv'
<1> SUFFICES ASSUME CountInv, [Next]_vars PROVE CountInv' OBVIOUS
<1> USE DEF CountInv, LinkType, PeerCountBounds
<1>1. IsFiniteSet(Announced) /\ Cardinality(Announced) \in Nat BY AnnouncedFinite
<1>2. Cardinality(early) \in Nat BY FS_CardinalityType
<1>3. ASSUME NEW c \in Links, Connect(c) PROVE CountInv'
  <2>1. Announced' = Announced BY <1>3 DEF Connect, Announced
  <2> QED BY <1>1, <1>2, <1>3, <2>1 DEF Connect
<1>4. ASSUME NEW c \in Links, Connected(c) PROVE CountInv'
  <2>1. c \notin Announced /\ Announced' = Announced \cup {c} BY <1>4 DEF Connected, Announced
  <2>2. Cardinality(Announced') = Cardinality(Announced) + 1 BY <1>1, <2>1, FS_AddElement
  <2> QED BY <1>1, <1>2, <1>4, <2>2 DEF Connected
<1>5. ASSUME NEW c \in Links, Lost(c) PROVE CountInv'
  <2>1. Announced' = Announced BY <1>5 DEF Lost, Announced
  <2> QED BY <1>1, <1>2, <1>5, <2>1 DEF Lost
<1>6. ASSUME NEW c \in Links, Disconnected(c) PROVE CountInv'
  <2>1. c \in Announced /\ Announced' = Announced \ {c} BY <1>6 DEF Disconnected, Announced
  <2>2. Cardinality(Announced') = Cardinality(Announced) - 1 BY <1>1, <2>1, FS_RemoveElement
  <2>3. Cardinality(Announced') \in Nat BY <1>1, <2>1, FS_RemoveElement, FS_CardinalityType
  <2> QED BY <1>1, <1>2, <1>6, <2>2, <2>3 DEF Disconnected, OneFewer
<1>7. ASSUME Register PROVE CountInv'
  <2>1. Announced' = Announced BY <1>7 DEF Register, Announced
  <2> QED BY <1>1, <1>7, <2>1 DEF Register
<1>8. CASE UNCHANGED linkVars BY <1>8 DEF linkVars, Announced
<1>9. ASSUME NEW p \in Peers, GoodBlock(p) \/ RefusedBlock(p) PROVE UNCHANGED linkVars
  BY <1>9 DEF GoodBlock, RefusedBlock
<1>10. UNCHANGED vars => UNCHANGED linkVars BY DEF vars
<1> QED BY <1>3, <1>4, <1>5, <1>6, <1>7, <1>8, <1>9, <1>10 DEF Next, PeerNext

\* Every block reported keeps the score above what the refused ones allow.
LEMMA EarnedStep == EarnedInv /\ clock \in Nat /\ [Next]_vars => EarnedInv'
<1> SUFFICES ASSUME EarnedInv, clock \in Nat, [Next]_vars PROVE EarnedInv' OBVIOUS
<1> USE PeerBounds DEF EarnedInv, ScoreType
<1>1. ASSUME NEW p \in Peers, GoodBlock(p) PROVE EarnedInv'
  BY <1>1 DEF GoodBlock, Add, Base, Needed, BanBelow
<1>2. ASSUME NEW p \in Peers, RefusedBlock(p) PROVE EarnedInv'
  <2>1. CASE IsBanned(p) BY <1>2, <2>1 DEF RefusedBlock, Base, Needed
  <2>2. CASE ~IsBanned(p) /\ Over(p)
    <3>1. SoftReset(score[p]) \in Int /\ SoftReset(score[p]) >= -25 BY DEF SoftReset, BanBelow
    <3>2. /\ Add(p, SoftReset(score[p]), 0, -10)
          /\ rejected' = [rejected EXCEPT ![p] = 1] /\ forgiven' = forgiven \cup {p}
      BY <1>2, <2>2 DEF RefusedBlock
    <3> QED BY <3>1, <3>2 DEF Add, Base, Needed, BanBelow
  <2>3. CASE ~IsBanned(p) /\ ~Over(p)
    <3>1. Add(p, score[p], 0, -10) /\ rejected' = [rejected EXCEPT ![p] = @ + 1] /\ UNCHANGED forgiven
      BY <1>2, <2>3 DEF RefusedBlock
    <3> QED BY <3>1 DEF Add, Base, Needed, BanBelow
  <2> QED BY <2>1, <2>2, <2>3
<1>3. CASE UNCHANGED <<score, until, rejected, forgiven>> BY <1>3 DEF Base, Needed
<1>4. UNCHANGED scoreVars => UNCHANGED <<score, until, rejected, forgiven>> BY DEF scoreVars
<1>5. ASSUME NEW c \in Links, Connect(c) \/ Connected(c) \/ Lost(c) \/ Disconnected(c) \/ Register
      PROVE  UNCHANGED scoreVars
  BY <1>5 DEF Connect, Connected, Lost, Disconnected, Register
<1>6. Register => UNCHANGED scoreVars BY DEF Register
<1>7. UNCHANGED vars => UNCHANGED scoreVars BY DEF vars
<1> QED BY <1>1, <1>2, <1>3, <1>4, <1>5, <1>6, <1>7 DEF Next, PeerNext

\* The clock is a number of ticks.
LEMMA ClockTyped == Spec => [](clock \in Nat)
<1>1. Init => clock \in Nat BY UptimeBounds DEF Init, UptimeInit
<1>2. clock \in Nat /\ [Next]_vars => (clock \in Nat)'
  <2> SUFFICES ASSUME clock \in Nat, [Next]_vars PROVE (clock \in Nat)' OBVIOUS
  <2>1. CASE Tick BY <2>1 DEF Tick
  <2>2. CASE CleanHits BY <2>2 DEF CleanHits
  <2>3. ASSUME NEW ip \in Ips, Limited(ip) PROVE (clock \in Nat)' BY <2>3 DEF Limited
  <2>4. ASSUME NEW ip \in Ips, NEW h \in HttpHandlers, NEW s \in Signed, PostHeartbeat(ip, h, s)
        PROVE (clock \in Nat)'
    BY <2>4 DEF PostHeartbeat
  <2>5. ASSUME NEW a \in Addresses, OnHeartbeat(a) PROVE (clock \in Nat)' BY <2>5 DEF OnHeartbeat
  <2>6. ASSUME NEW h \in Handlers, RecordHeartbeat(h) \/ RecordFails(h) PROVE (clock \in Nat)'
    BY <2>6 DEF RecordHeartbeat, RecordFails
  <2>7. CASE PeerNext
    BY <2>7 DEF PeerNext, Register, Connect, Connected, Lost, Disconnected, GoodBlock,
                RefusedBlock, uptimeVars
  <2>8. CASE UNCHANGED vars BY <2>8 DEF vars, uptimeVars
  <2> QED BY <2>1, <2>2, <2>3, <2>4, <2>5, <2>6, <2>7, <2>8 DEF Next, UptimeNext
<1> QED BY <1>1, <1>2, PTL DEF Spec

(***************************************************************************)
(* Node.peerCount never exceeds the links there are, and falls short of    *)
(* them by at most those that were up before New registered its            *)
(* notifications.                                                          *)
(***************************************************************************)
THEOREM PeerCountBoundsHolds == Spec => []PeerCountBounds
<1>1. CountInv => PeerCountBounds BY DEF CountInv
<1> QED BY CountInit, CountStep, <1>1, PTL DEF Spec

(***************************************************************************)
(* PeerScorer bans no peer before five of its blocks were refused, or      *)
(* three since its last ban was over, whatever blocks of it were accepted. *)
(***************************************************************************)
THEOREM BansEarnedHolds == Spec => []BansEarned
<1>1. Init => EarnedInv BY DEF Init, EarnedInv, ScoreType, Base, Needed
<1>2. EarnedInv => BansEarned BY DEF EarnedInv, BansEarned, IsBanned, Needed
<1> QED BY <1>1, <1>2, EarnedStep, ClockTyped, PTL DEF Spec
-----------------------------------------------------------------------------
(* Heartbeats *)

\* An earlier time is in no later epoch.
LEMMA EpochsInOrder ==
    ASSUME NEW d \in Nat \ {0}, NEW m \in Nat, NEW t \in 0..m
    PROVE  t \div d \in 0..(m \div d)
<1> DEFINE q == t \div d
           n == m \div d
<1>1. q \in Nat /\ d * q <= t /\ t < d * q + d OBVIOUS
<1>2. n \in Nat /\ d * n <= m /\ m < d * n + d OBVIOUS
<1> HIDE DEF q, n
<1>3. ASSUME q > n PROVE FALSE
  <2>1. q - n - 1 \in Nat /\ q = n + 1 + (q - n - 1) BY <1>1, <1>2, <1>3
  <2>2. PICK k \in Nat : q = n + 1 + k BY <2>1
  <2>3. d * q = d * n + d + d * k BY <1>1, <1>2, <2>2
  <2>4. d * k \in Nat /\ d * n \in Nat BY <1>2
  <2> QED BY <1>1, <1>2, <2>3, <2>4
<1>4. q \in 0..n BY <1>1, <1>2, <1>3
<1> QED BY <1>4 DEF q, n

\* Epochs are counted from 0.
LEMMA EpochsTyped == \A e \in Epochs : e \in Nat
<1>1. MaxTime \div EpochLength \in Int BY UptimeBounds
<1> QED BY <1>1 DEF Epochs, EpochOf

\* The clock is never outside the epochs that are counted.
LEMMA EpochOfClock == ASSUME clock \in 0..MaxTime PROVE EpochOf(clock) \in Epochs
BY EpochsInOrder, UptimeBounds DEF EpochOf, Epochs

\* No heartbeat is recorded before the process starts.
LEMMA UptimeInitially == Init => UptimeInv
<1> SUFFICES ASSUME Init PROVE UptimeInv OBVIOUS
<1> USE DEF Init, UptimeInit
<1>1. 0 \in 0..MaxTime /\ clock \in 0..MaxTime BY UptimeBounds
<1>2. 0 \in Epochs
  <2>1. 0 \div EpochLength \in 0..(MaxTime \div EpochLength) BY <1>1, EpochsInOrder, UptimeBounds
  <2> QED BY <2>1, UptimeBounds DEF Epochs, EpochOf
<1>3. [epoch |-> 0, count |-> 0] \in HeartbeatRecord BY <1>2 DEF HeartbeatRecord
<1>4. [e \in Epochs |-> 0] \in Counts BY DEF Counts
<1>5. UptimeType BY <1>1, <1>3, <1>4 DEF UptimeType
<1>6. \A a \in Addresses : InOrder(a) BY <1>2 DEF InOrder
<1>7. \A a \in Addresses, e \in Epochs : index[a][e] <= recorded[a][e] OBVIOUS
<1>8. \A a \in Addresses : record[a].count <= recorded[a][record[a].epoch] BY <1>2
<1> QED BY <1>5, <1>6, <1>7, <1>8 DEF UptimeInv

\* A transaction of RecordHeartbeat, of whatever epoch, counts one heartbeat.
LEMMA RecordHeartbeatStep ==
    ASSUME UptimeInv, NEW h \in Handlers, RecordHeartbeat(h)
    PROVE  UptimeInv'
<1> DEFINE a == recording[h].address
           e == recording[h].epoch
           rec == Counted(record[a], e)
<1>1. a \in Addresses /\ e \in Epochs BY DEF UptimeInv, UptimeType, RecordHeartbeat, Recording
<1>2. /\ record' = [record EXCEPT ![a] = rec]
      /\ index' = [index EXCEPT ![a][e] = rec.count]
      /\ recording' = [recording EXCEPT ![h] = Idle]
      /\ recorded' = [recorded EXCEPT ![a][e] = @ + 1]
      /\ disordered' = IF e < record[a].epoch THEN disordered \cup {a} ELSE disordered
      /\ clock' = clock
  BY DEF RecordHeartbeat
<1> HIDE DEF a, e
<1>3. /\ record[a].epoch \in Epochs /\ record[a].count \in Nat
      /\ recorded[a] \in Counts /\ index[a] \in Counts
  BY <1>1 DEF UptimeInv, UptimeType, HeartbeatRecord
<1>4. /\ recorded[a][e] \in Nat /\ recorded[a][record[a].epoch] \in Nat
      /\ e \in Nat /\ record[a].epoch \in Nat
  <2>1. recorded[a][e] \in Nat /\ recorded[a][record[a].epoch] \in Nat BY <1>1, <1>3 DEF Counts
  <2> QED BY <1>1, <1>3, <2>1, EpochsTyped
<1>5. rec.epoch = e /\ rec.count = (IF record[a].epoch # e THEN 1 ELSE record[a].count + 1)
  BY DEF Counted
<1>6. rec \in HeartbeatRecord BY <1>1, <1>3 DEF Counted, HeartbeatRecord
<1>7. rec.count \in Nat BY <1>3, <1>5
<1>8. rec.count <= recorded[a][e] + 1
  <2>1. record[a].count <= recorded[a][record[a].epoch] BY <1>1 DEF UptimeInv
  <2> QED BY <1>3, <1>4, <1>5, <2>1
<1> HIDE DEF rec
<1>9. /\ record'[a] = rec
      /\ index'[a] = [index[a] EXCEPT ![e] = rec.count]
      /\ recorded'[a] = [recorded[a] EXCEPT ![e] = recorded[a][e] + 1]
      /\ index'[a] \in Counts /\ recorded'[a] \in Counts
      /\ \A b \in Addresses \ {a} :
             record'[b] = record[b] /\ index'[b] = index[b] /\ recorded'[b] = recorded[b]
  <2>1. record'[a] = rec BY <1>1, <1>2 DEF UptimeInv, UptimeType
  <2>2. /\ index'[a] = [index[a] EXCEPT ![e] = rec.count]
        /\ recorded'[a] = [recorded[a] EXCEPT ![e] = recorded[a][e] + 1]
    BY <1>1, <1>2 DEF UptimeInv, UptimeType
  <2>3. index'[a] \in Counts /\ recorded'[a] \in Counts
    BY <1>1, <1>3, <1>4, <1>7, <2>2 DEF Counts
  <2>4. \A b \in Addresses \ {a} :
            record'[b] = record[b] /\ index'[b] = index[b] /\ recorded'[b] = recorded[b]
    BY <1>2 DEF UptimeInv, UptimeType
  <2> QED BY <2>1, <2>2, <2>3, <2>4
<1>10. UptimeType'
  <2>1. record' \in [Addresses -> HeartbeatRecord] BY <1>2, <1>6 DEF UptimeInv, UptimeType
  <2>2. index' \in [Addresses -> Counts] /\ recorded' \in [Addresses -> Counts]
    BY <1>2, <1>9 DEF UptimeInv, UptimeType
  <2>3. recording' \in [Handlers -> Recording \cup {Idle}] BY <1>2 DEF UptimeInv, UptimeType
  <2> QED BY <1>2, <2>1, <2>2, <2>3 DEF UptimeInv, UptimeType
<1>11. /\ index'[a][e] = rec.count /\ recorded'[a][e] = recorded[a][e] + 1
       /\ \A x \in Epochs \ {e} : index'[a][x] = index[a][x] /\ recorded'[a][x] = recorded[a][x]
  BY <1>1, <1>3, <1>9 DEF Counts
<1>12. ASSUME NEW b \in Addresses
       PROVE  (record[b].count <= recorded[b][record[b].epoch])'
  <2>1. CASE b = a BY <1>5, <1>8, <1>9, <1>11, <2>1 DEF rec
  <2>2. CASE b # a BY <1>9, <2>2 DEF UptimeInv
  <2> QED BY <2>1, <2>2
<1>13. ASSUME NEW b \in Addresses, NEW x \in Epochs
       PROVE  (index[b][x] <= recorded[b][x])'
  <2>1. CASE b = a /\ x = e BY <1>8, <1>11, <2>1
  <2>2. CASE b = a /\ x # e BY <1>11, <2>2 DEF UptimeInv
  <2>3. CASE b # a BY <1>9, <2>3 DEF UptimeInv
  <2> QED BY <2>1, <2>2, <2>3
<1>14. ASSUME NEW b \in Addresses, b \notin disordered'
       PROVE  InOrder(b)'
  <2>1. b \notin disordered BY <1>2, <1>14
  <2>2. InOrder(b) BY <2>1 DEF UptimeInv
  <2>3. CASE b = a
    <3>1. e >= record[a].epoch BY <1>2, <1>4, <1>14, <2>3
    <3>2. rec.count = recorded[a][e] + 1
      <4>1. CASE e = record[a].epoch BY <1>5, <2>2, <2>3, <4>1 DEF InOrder, rec
      <4>2. CASE e > record[a].epoch
        <5>1. recorded[a][e] = 0 BY <1>1, <2>2, <2>3, <4>2 DEF InOrder
        <5> QED BY <1>4, <1>5, <4>2, <5>1 DEF rec
      <4> QED BY <1>4, <3>1, <4>1, <4>2
    <3>3. index'[a] = recorded'[a] BY <1>9, <2>2, <2>3, <3>2 DEF InOrder
    <3>4. ASSUME NEW x \in Epochs, x > e PROVE recorded'[a][x] = 0
      <4>1. x > record[a].epoch /\ x # e BY <1>4, <3>1, <3>4, EpochsTyped
      <4> QED BY <1>11, <2>2, <2>3, <4>1 DEF InOrder
    <3>5. rec.epoch = e BY <1>5 DEF rec
    <3> QED BY <1>9, <1>11, <2>3, <3>2, <3>3, <3>4, <3>5 DEF InOrder
  <2>4. CASE b # a BY <1>9, <2>2, <2>4 DEF InOrder
  <2> QED BY <2>3, <2>4
<1> QED BY <1>10, <1>12, <1>13, <1>14 DEF UptimeInv

\* Every other step only moves the clock or starts and gives up recordings.
LEMMA UptimeStep == UptimeInv /\ [Next]_vars => UptimeInv'
<1> SUFFICES ASSUME UptimeInv, [Next]_vars PROVE UptimeInv' OBVIOUS
<1> DEFINE counts == <<record, index, recorded, disordered>>
<1>1. ASSUME UptimeType', UNCHANGED counts PROVE UptimeInv'
  BY <1>1 DEF UptimeInv, InOrder
<1>2. ASSUME NEW h \in Handlers, NEW a \in Addresses, Reads(h, a), UNCHANGED <<clock, counts>>
      PROVE  UptimeInv'
  <2>1. EpochOf(clock) \in Epochs BY EpochOfClock DEF UptimeInv, UptimeType
  <2>2. [pc |-> "update", address |-> a, epoch |-> EpochOf(clock)] \in Recording
    BY <2>1 DEF Recording
  <2>3. UptimeType' BY <1>2, <2>2 DEF Reads, UptimeInv, UptimeType
  <2> QED BY <1>1, <1>2, <2>3
<1>3. ASSUME UNCHANGED <<clock, recording, counts>> PROVE UptimeInv'
  <2>1. UptimeType' BY <1>3 DEF UptimeInv, UptimeType
  <2> QED BY <1>1, <1>3, <2>1
<1>4. CASE Tick
  <2>1. clock' \in 0..MaxTime BY <1>4, UptimeBounds DEF Tick, UptimeInv, UptimeType
  <2>2. UptimeType' BY <1>4, <2>1 DEF Tick, UptimeInv, UptimeType
  <2> QED BY <1>1, <1>4, <2>2 DEF Tick
<1>5. CASE CleanHits BY <1>3, <1>5 DEF CleanHits
<1>6. ASSUME NEW ip \in Ips, Limited(ip) PROVE UptimeInv' BY <1>3, <1>6 DEF Limited
<1>7. ASSUME NEW ip \in Ips, NEW h \in HttpHandlers, NEW s \in Signed, PostHeartbeat(ip, h, s)
      PROVE  UptimeInv'
  <2>1. h \in Handlers /\ s.address \in Addresses BY DEF Handlers, Addresses
  <2>2. CASE Fresh(s) BY <1>2, <1>7, <2>1, <2>2 DEF PostHeartbeat
  <2>3. CASE ~Fresh(s) BY <1>3, <1>7, <2>3 DEF PostHeartbeat
  <2> QED BY <2>2, <2>3
<1>8. ASSUME NEW a \in Addresses, OnHeartbeat(a) PROVE UptimeInv'
  <2>1. P2P \in Handlers BY DEF Handlers
  <2> QED BY <1>2, <1>8, <2>1 DEF OnHeartbeat
<1>9. ASSUME NEW h \in Handlers, RecordHeartbeat(h) PROVE UptimeInv'
  BY <1>9, RecordHeartbeatStep
<1>10. ASSUME NEW h \in Handlers, RecordFails(h) PROVE UptimeInv'
  <2>1. UptimeType' BY <1>10 DEF RecordFails, UptimeInv, UptimeType
  <2> QED BY <1>1, <1>10, <2>1 DEF RecordFails
<1>11. CASE PeerNext
  BY <1>3, <1>11 DEF PeerNext, Register, Connect, Connected, Lost, Disconnected, GoodBlock,
                     RefusedBlock, uptimeVars
<1>12. CASE UNCHANGED vars BY <1>3, <1>12 DEF vars, uptimeVars
<1> QED
  BY <1>4, <1>5, <1>6, <1>7, <1>8, <1>9, <1>10, <1>11, <1>12 DEF Next, UptimeNext

(***************************************************************************)
(* The "epoch:" keys agree with the heartbeats RecordHeartbeat committed,  *)
(* however many handlers are between the clock and their transaction, for  *)
(* every address none of whose heartbeats fell behind a later epoch's; for *)
(* the others they list too few, never too many.                           *)
(***************************************************************************)
THEOREM EpochCountsHolds == Spec => []EpochCounts
<1>1. UptimeInv => EpochCounts BY DEF UptimeInv, UptimeType, InOrder, EpochCounts
<1> QED BY UptimeInitially, UptimeStep, <1>1, PTL DEF Spec
-----------------------------------------------------------------------------
(* The rate limit *)

\* Times in the order they were taken.
Ordered(ts) == \A i, j \in DOMAIN ts : i <= j => ts[i] <= ts[j]

\* Limit requests apart is at least a window apart.
Spaced(ts) == \A i \in DOMAIN ts : i + Limit \in DOMAIN ts => ts[i + Limit] >= ts[i] + Window

\* What is left of ts without its first d elements.
Dropped(ts, d) == [j \in 1..(Len(ts) - d) |-> ts[d + j]]

Within(ts, a, b) == {i \in DOMAIN ts : ts[i] \in a..b}

\* The first d times have left the window.
Gone(ts, d) == \A i \in 1..d : ts[i] <= clock - Window

\* What the limiter still knows of an address is what it let through, but for
\* hits that have left the window.
LimiterInv ==
    /\ clock \in Int
    /\ passed \in [Ips -> Seq(Int)]
    /\ hits \in [Ips -> Seq(Int)]
    /\ accepted \in [Ips \X Signed -> Nat]
    /\ \A ip \in Ips :
        /\ Ordered(passed[ip]) /\ Spaced(passed[ip])
        /\ \A i \in DOMAIN passed[ip] : passed[ip][i] <= clock
        /\ \E d \in 0..Len(passed[ip]) : hits[ip] = Dropped(passed[ip], d) /\ Gone(passed[ip], d)
    /\ \A ip \in Ips, s \in Signed :
        accepted[<<ip, s>>] <=
            Cardinality(Within(passed[ip], s.unix - Freshness, s.unix + Freshness))

\* Every set of numbers has a least one.
LEMMA LeastOf ==
    ASSUME NEW S \in SUBSET Nat, S # {}
    PROVE  \E m \in S : \A n \in S : m <= n
<1>1. PICK m \in S : \A n \in S : ~(<<n, m>> \in OpToRel(<, Nat))
  BY NatLessThanWellFounded, WFMin
<1>2. \A n \in S : ~(n < m) BY <1>1 DEF OpToRel
<1> QED BY <1>2

\* Filtering an ordered sequence by a lower bound drops a beginning of it.
LEMMA RecentDrops ==
    ASSUME NEW ts \in Seq(Int), Ordered(ts), clock \in Int
    PROVE  \E d \in 0..Len(ts) : Recent(ts) = Dropped(ts, d) /\ Gone(ts, d)
<1> DEFINE K == {i \in DOMAIN ts : ts[i] > clock - Window}
           n == Len(ts)
<1>0. n \in Nat /\ DOMAIN ts = 1..n /\ Window \in Nat /\ \A i \in 1..n : ts[i] \in Int
  BY UptimeBounds
<1>1. CASE K = {}
  <2>1. Cardinality(K) = 0 BY <1>1, FS_EmptySet
  <2>2. Recent(ts) = Dropped(ts, n)
    <3>1. Recent(ts) = [j \in 1..0 |-> ts[Nth(K, j)]] BY <2>1 DEF Recent, Kept
    <3>2. Dropped(ts, n) = [j \in 1..0 |-> ts[n + j]] BY <1>0 DEF Dropped
    <3>3. 1..0 = {} OBVIOUS
    <3> QED BY <3>1, <3>2, <3>3
  <2>3. Gone(ts, n) BY <1>0, <1>1 DEF Gone
  <2> QED BY <1>0, <2>2, <2>3
<1>2. CASE K # {}
  <2>1. K \in SUBSET Nat BY <1>0
  <2>2. PICK m \in K : \A i \in K : m <= i BY <1>2, <2>1, LeastOf
  <2>3. m \in 1..n /\ m \in Nat /\ n \in Nat BY <1>0, <2>2
  <2>4. K = m..n
    <3>1. ASSUME NEW i \in m..n PROVE i \in K
      <4>1. i \in 1..n /\ m <= i BY <2>3
      <4>2. ts[m] <= ts[i] /\ ts[m] > clock - Window /\ ts[m] \in Int /\ ts[i] \in Int
        BY <1>0, <2>2, <2>3, <4>1 DEF Ordered
      <4> QED BY <1>0, <4>1, <4>2
    <3>2. ASSUME NEW i \in K PROVE i \in m..n BY <1>0, <2>2, <2>3
    <3> QED BY <3>1, <3>2
  <2>d. PICK d \in Nat : m = d + 1 BY <2>3
  <2>5. d \in 0..n /\ Cardinality(K) = n - d
    <3>1. Cardinality(m..n) = n - m + 1 BY <2>3, FS_Interval
    <3>2. n - m + 1 = n - d /\ d \in 0..n BY <2>3, <2>d
    <3> QED BY <2>4, <3>1, <3>2
  <2>6. ASSUME NEW j \in 1..(n - d) PROVE Nth(K, j) = d + j
    <3>1. ASSUME NEW i \in K PROVE Cardinality({k \in K : k <= i}) = i - d
      <4>1. i \in m..n /\ i \in Nat BY <2>3, <2>4
      <4>2. {k \in K : k <= i} = m..i BY <2>3, <2>4, <4>1
      <4>3. Cardinality(m..i) = i - m + 1 BY <2>3, <4>1, FS_Interval
      <4>4. i - m + 1 = i - d BY <2>3, <2>d, <4>1
      <4> QED BY <4>2, <4>3, <4>4
    <3>2. d + j \in K
      <4>1. d + j \in m..n BY <2>3, <2>d
      <4> QED BY <2>4, <4>1
    <3>3. \A i \in Nat : i - d = j <=> i = d + j BY <2>3, <2>d
    <3> HIDE DEF K
    <3>4. \A i \in K : Cardinality({k \in K : k <= i}) = j <=> i = d + j BY <2>1, <3>1, <3>3
    <3> QED BY <3>2, <3>4 DEF Nth
  <2>7. Recent(ts) = Dropped(ts, d) 
    <3>1. Recent(ts) = [j \in 1..(n - d) |-> ts[Nth(K, j)]] BY <2>5 DEF Recent, Kept
    <3>2. Dropped(ts, d) = [j \in 1..(n - d) |-> ts[d + j]] BY DEF Dropped
    <3> HIDE DEF K, n
    <3> QED BY <2>6, <3>1, <3>2
  <2>8. ASSUME NEW i \in 1..d PROVE ts[i] <= clock - Window
    <3>1. i \in 1..n /\ i \notin K
      <4> HIDE DEF K, n
      <4>1. i \in 1..n /\ i \notin m..n BY <2>3, <2>d
      <4> QED BY <2>4, <4>1
    <3> QED BY <1>0, <3>1
  <2> QED BY <2>5, <2>7, <2>8 DEF Gone
<1> QED BY <1>1, <1>2

\* Over k windows, at least k times Limit requests.
LEMMA SpacedTimes ==
    ASSUME NEW ts \in Seq(Int), Spaced(ts), NEW i \in DOMAIN ts
    PROVE  \A k \in Nat : i + k * Limit \in DOMAIN ts => ts[i + k * Limit] >= ts[i] + k * Window
<1> DEFINE Good(k) == i + k * Limit \in DOMAIN ts => ts[i + k * Limit] >= ts[i] + k * Window
           Bad == {k \in Nat : ~Good(k)}
<1>0. Limit \in Nat \ {0} /\ Window \in Nat \ {0} BY UptimeBounds
<1>1. DOMAIN ts = 1..Len(ts) /\ Len(ts) \in Nat /\ i \in Nat /\ \A x \in DOMAIN ts : ts[x] \in Int
  OBVIOUS
<1>2. ASSUME Bad # {} PROVE FALSE
  <2>1. PICK k \in Bad : \A x \in Bad : k <= x BY <1>2, LeastOf
  <2>2. k \in Nat /\ ~Good(k) BY <2>1
  <2>3. k # 0
    <3>1. i + 0 * Limit = i /\ 0 * Window = 0 BY <1>0, <1>1
    <3>2. Good(0) BY <1>1, <3>1
    <3> QED BY <2>2, <3>2
  <2>4. k - 1 \in Nat /\ k - 1 \notin Bad BY <2>1, <2>2, <2>3
  <2>5. PICK j \in Nat : j = k - 1 BY <2>4
  <2>6. Good(j) BY <2>4, <2>5
  <2>7. k * Limit = j * Limit + Limit /\ k * Window = j * Window + Window
    BY <1>0, <2>2, <2>5
  <2>8. PICK a \in Nat : a = j * Limit BY <1>0
  <2>9. PICK b \in Nat : b = j * Window BY <1>0
  <2>t. a \in Nat /\ b \in Nat BY <2>8, <2>9
  <2>10. i + (a + Limit) \in DOMAIN ts /\ ~(ts[i + (a + Limit)] >= ts[i] + (b + Window))
    BY <2>2, <2>7, <2>8, <2>9
  <2>11. i + a \in DOMAIN ts
    <3>1. i >= 1 /\ i + (a + Limit) <= Len(ts) BY <1>1, <2>10
    <3>2. i \in Int /\ Len(ts) \in Int /\ a \in Int /\ Limit \in Int /\ a >= 0 /\ Limit >= 0
      BY <1>0, <1>1, <2>t
    <3>3. \A x, y, z, n \in Int : x >= 1 /\ y >= 0 /\ z >= 0 /\ x + (y + z) <= n => x + y \in 1..n
      OBVIOUS
    <3>4. i + a \in 1..Len(ts) BY <3>1, <3>2, <3>3
    <3> QED BY <1>1, <3>4
  <2>12. ts[i + a] >= ts[i] + b BY <2>6, <2>8, <2>9, <2>11
  <2>13. (i + a) + Limit = i + (a + Limit) BY <1>0, <1>1
  <2>14. ts[(i + a) + Limit] >= ts[i + a] + Window BY <2>10, <2>11, <2>13 DEF Spaced
  <2>15. ts[i] \in Int /\ ts[i + a] \in Int /\ ts[i + (a + Limit)] \in Int BY <1>1, <2>10, <2>11
  <2>16. ts[i + (a + Limit)] >= ts[i + a] + Window BY <2>13, <2>14
  <2>a. \A x, y, z, u, v \in Int : x >= y + u /\ y >= z + v => x >= z + (v + u) OBVIOUS
  <2>17. ts[i + (a + Limit)] >= ts[i] + (b + Window)
    <3> HIDE DEF Bad, Good
    <3>1. PICK x \in Int : x = ts[i + (a + Limit)] BY <2>15
    <3>2. PICK y \in Int : y = ts[i + a] BY <2>15
    <3>3. PICK z \in Int : z = ts[i] BY <2>15
    <3>4. x >= y + Window /\ y >= z + b BY <2>12, <2>16, <3>1, <3>2, <3>3
    <3>5. Window \in Int /\ b \in Int BY <1>0, <2>t
    <3>6. x >= z + (b + Window) BY <2>a, <3>1, <3>2, <3>3, <3>4, <3>5
    <3> QED BY <3>1, <3>3, <3>6
  <2> QED BY <2>10, <2>17
<1> QED BY <1>2

\* No more than k times Limit requests fall into fewer than k windows of ticks.
LEMMA Crowd ==
    ASSUME NEW ts \in Seq(Int), Ordered(ts), Spaced(ts),
           NEW k \in Nat, NEW a \in Int, NEW b \in Int, b - a < k * Window
    PROVE  /\ IsFiniteSet(Within(ts, a, b))
           /\ Cardinality(Within(ts, a, b)) <= k * Limit
<1> DEFINE A == Within(ts, a, b)
<1>0. Limit \in Nat \ {0} /\ Window \in Nat \ {0} BY UptimeBounds
<1>1. DOMAIN ts = 1..Len(ts) /\ Len(ts) \in Nat /\ \A x \in DOMAIN ts : ts[x] \in Int
  OBVIOUS
<1>2. A \in SUBSET (1..Len(ts)) /\ A \in SUBSET Nat BY <1>1 DEF Within
<1>3. PICK w \in Nat : w = k * Window BY <1>0
<1>4. PICK c \in Nat : c = k * Limit BY <1>0
<1>5. CASE A = {} BY <1>4, <1>5, FS_EmptySet
<1>6. CASE A # {}
  <2>1. PICK m \in A : \A i \in A : m <= i BY <1>2, <1>6, LeastOf
  <2>2. m \in Nat /\ m \in DOMAIN ts /\ ts[m] \in a..b /\ ts[m] \in Int
    BY <1>1, <2>1 DEF Within
  <2>3. ASSUME NEW i \in A PROVE i \in m..(m + c - 1)
    <3>1. i \in Nat /\ i \in DOMAIN ts /\ ts[i] \in a..b /\ m <= i /\ ts[i] \in Int
      BY <1>1, <2>1, <2>3 DEF Within
    <3>2. ASSUME i >= m + c PROVE FALSE
      <4>1. m + c \in DOMAIN ts BY <1>1, <2>2, <3>1, <3>2
      <4>2. ts[m + c] >= ts[m] + w BY <1>3, <1>4, <2>2, <4>1, SpacedTimes
      <4>3. ts[m + c] <= ts[i] BY <3>1, <3>2, <4>1 DEF Ordered
      <4>4. ts[m + c] \in Int BY <1>1, <4>1
      <4>5. b - a < w BY <1>3
      <4>6. a <= ts[m] /\ ts[i] <= b BY <2>2, <3>1
      <4> QED BY <2>2, <3>1, <4>2, <4>3, <4>4, <4>5, <4>6
    <3> QED BY <2>2, <3>1, <3>2
  <2> DEFINE I == m..(m + c - 1)
  <2>4. IsFiniteSet(I) /\ Cardinality(I) = c
    <3>1. m + c - 1 \in Int BY <2>2
    <3>2. CASE c = 0
      <4>1. I = {} BY <2>2, <3>2
      <4> QED BY <3>2, <4>1, FS_EmptySet
    <3>3. CASE c > 0
      <4>1. Cardinality(I) = (m + c - 1) - m + 1 BY <2>2, <3>1, <3>3, FS_Interval
      <4> QED BY <2>2, <3>1, <4>1, FS_Interval
    <3> QED BY <3>2, <3>3
  <2>5. A \in SUBSET I BY <2>3
  <2> HIDE DEF I, A
  <2>6. IsFiniteSet(A) /\ Cardinality(A) <= Cardinality(I) BY <2>4, <2>5, FS_Subset
  <2> QED BY <1>4, <2>4, <2>6 DEF A
<1> QED BY <1>5, <1>6

\* The limiter starts with no hits.
LEMMA LimiterInitially == Init => LimiterInv
<1> SUFFICES ASSUME Init PROVE LimiterInv OBVIOUS
<1>1. clock \in Int /\ Window \in Nat BY UptimeBounds DEF Init, UptimeInit
<1>2. /\ passed = [ip \in Ips |-> <<>>] /\ hits = [ip \in Ips |-> <<>>]
      /\ accepted = [r \in Ips \X Signed |-> 0]
  BY DEF Init, UptimeInit
<1>3. /\ passed \in [Ips -> Seq(Int)] /\ hits \in [Ips -> Seq(Int)]
      /\ accepted \in [Ips \X Signed -> Nat]
  BY <1>2
<1>4. 1..0 = {} OBVIOUS
<1>5. Dropped(<<>>, 0) = <<>> /\ Gone(<<>>, 0) BY <1>4 DEF Dropped, Gone
<1>6. 0 \in 0..Len(<<>>) /\ DOMAIN <<>> = {} OBVIOUS
<1>7. Ordered(<<>>) /\ Spaced(<<>>) BY <1>6 DEF Ordered, Spaced
<1>8. ASSUME NEW ip \in Ips
      PROVE  /\ Ordered(passed[ip]) /\ Spaced(passed[ip])
             /\ \A i \in DOMAIN passed[ip] : passed[ip][i] <= clock
             /\ \E d \in 0..Len(passed[ip]) :
                    hits[ip] = Dropped(passed[ip], d) /\ Gone(passed[ip], d)
  <2>1. passed[ip] = <<>> /\ hits[ip] = <<>> BY <1>2
  <2> QED BY <1>5, <1>6, <1>7, <2>1
<1>9. ASSUME NEW ip \in Ips, NEW s \in Signed
      PROVE  accepted[<<ip, s>>] <=
                 Cardinality(Within(passed[ip], s.unix - Freshness, s.unix + Freshness))
  <2>1. Within(passed[ip], s.unix - Freshness, s.unix + Freshness) = {} BY <1>2 DEF Within
  <2>2. accepted[<<ip, s>>] = 0 BY <1>2
  <2> QED BY <2>1, <2>2, FS_EmptySet
<1> QED BY <1>1, <1>3, <1>8, <1>9 DEF LimiterInv

\* What is left of what is left.
LEMMA DroppedTwice ==
    ASSUME NEW ts \in Seq(Int), NEW d \in 0..Len(ts), NEW e \in 0..(Len(ts) - d)
    PROVE  /\ Dropped(ts, d) \in Seq(Int)
           /\ Len(Dropped(ts, d)) = Len(ts) - d
           /\ \A j \in 1..(Len(ts) - d) : Dropped(ts, d)[j] = ts[d + j]
           /\ Ordered(ts) => Ordered(Dropped(ts, d))
           /\ Dropped(Dropped(ts, d), e) = Dropped(ts, d + e)
<1>0. Len(ts) \in Nat /\ d \in Nat /\ e \in Nat /\ Len(ts) - d \in Nat /\ DOMAIN ts = 1..Len(ts)
  OBVIOUS
<1>1. PICK n \in Nat : n = Len(ts) - d BY <1>0
<1>2. \A j \in 1..n : d + j \in 1..Len(ts) BY <1>0, <1>1
<1>3. Dropped(ts, d) = [j \in 1..n |-> ts[d + j]] BY <1>1 DEF Dropped
<1>4. Dropped(ts, d) \in Seq(Int) /\ Len(Dropped(ts, d)) = n /\ DOMAIN Dropped(ts, d) = 1..n
  BY <1>0, <1>1, <1>2, <1>3
<1>5. \A j \in 1..n : Dropped(ts, d)[j] = ts[d + j] BY <1>3
<1>6. ASSUME Ordered(ts), NEW i \in 1..n, NEW j \in 1..n, i <= j PROVE ts[d + i] <= ts[d + j]
  <2>1. d + i \in DOMAIN ts /\ d + j \in DOMAIN ts /\ d + i <= d + j BY <1>0, <1>2, <1>6
  <2> QED BY <1>6, <2>1 DEF Ordered
<1>7. Dropped(Dropped(ts, d), e) = Dropped(ts, d + e)
  <2>1. n - e = Len(ts) - (d + e) BY <1>0, <1>1
  <2>2. Dropped(Dropped(ts, d), e) = [j \in 1..(n - e) |-> Dropped(ts, d)[e + j]]
    BY <1>4 DEF Dropped
  <2>3. \A j \in 1..(n - e) : e + j \in 1..n /\ d + (e + j) = (d + e) + j BY <1>0, <1>1
  <2>4. \A j \in 1..(n - e) : Dropped(ts, d)[e + j] = ts[(d + e) + j] BY <1>5, <2>3
  <2>5. Dropped(ts, d + e) = [j \in 1..(n - e) |-> ts[(d + e) + j]] BY <2>1 DEF Dropped
  <2> QED BY <2>2, <2>4, <2>5
<1> QED BY <1>1, <1>4, <1>5, <1>6, <1>7 DEF Ordered

\* Filtering the hits forgets only what has left the window.
LEMMA RecentOfHits ==
    ASSUME LimiterInv, NEW ip \in Ips
    PROVE  /\ Recent(hits[ip]) \in Seq(Int)
           /\ \E d \in 0..Len(passed[ip]) :
                  Recent(hits[ip]) = Dropped(passed[ip], d) /\ Gone(passed[ip], d)
<1> DEFINE ts == passed[ip]
<1>1. ts \in Seq(Int) /\ Ordered(ts) /\ clock \in Int BY DEF LimiterInv
<1>2. PICK d \in 0..Len(ts) : hits[ip] = Dropped(ts, d) /\ Gone(ts, d) BY DEF LimiterInv
<1> HIDE DEF ts
<1>3. 0 \in 0..(Len(ts) - d) /\ Len(ts) \in Nat /\ d \in Nat BY <1>1, <1>2
<1>4. /\ Dropped(ts, d) \in Seq(Int) /\ Len(Dropped(ts, d)) = Len(ts) - d
      /\ \A j \in 1..(Len(ts) - d) : Dropped(ts, d)[j] = ts[d + j]
      /\ Ordered(Dropped(ts, d))
  BY <1>1, <1>2, <1>3, DroppedTwice
<1>5. PICK e \in 0..(Len(ts) - d) :
          Recent(Dropped(ts, d)) = Dropped(Dropped(ts, d), e) /\ Gone(Dropped(ts, d), e)
  BY <1>1, <1>4, RecentDrops
<1>6. Recent(hits[ip]) = Dropped(ts, d + e) BY <1>1, <1>2, <1>5, DroppedTwice
<1>7. d + e \in 0..Len(ts) /\ e \in Nat BY <1>3, <1>5
<1>8. ASSUME NEW i \in 1..(d + e) PROVE ts[i] <= clock - Window
  <2>1. CASE i \in 1..d BY <1>2, <2>1 DEF Gone
  <2>2. CASE i \notin 1..d
    <3>1. i - d \in 1..e /\ i - d \in 1..(Len(ts) - d) /\ d + (i - d) = i
      BY <1>3, <1>5, <1>7, <2>2
    <3>2. Dropped(ts, d)[i - d] <= clock - Window BY <1>5, <3>1 DEF Gone
    <3>3. Dropped(ts, d)[i - d] = ts[i] BY <1>4, <3>1
    <3> QED BY <3>2, <3>3
  <2> QED BY <2>1, <2>2
<1>9. Gone(ts, d + e) BY <1>8 DEF Gone
<1>10. 0 \in 0..(Len(ts) - (d + e)) BY <1>3, <1>7
<1>11. Dropped(ts, d + e) \in Seq(Int) BY <1>1, <1>7, <1>10, DroppedTwice
<1> QED BY <1>6, <1>7, <1>9, <1>11 DEF ts

\* One request more keeps the spacing, if it is far enough from the one that was
\* Limit requests earlier.
LEMMA OneMore ==
    ASSUME NEW ts \in Seq(Int), NEW t \in Int, Ordered(ts), Spaced(ts),
           \A i \in DOMAIN ts : ts[i] <= t,
           NEW d \in 0..Len(ts), Len(ts) - d < Limit, \A i \in 1..d : ts[i] <= t - Window
    PROVE  /\ Append(ts, t) \in Seq(Int)
           /\ Ordered(Append(ts, t)) /\ Spaced(Append(ts, t))
           /\ \A i \in DOMAIN Append(ts, t) : Append(ts, t)[i] <= t
           /\ Dropped(Append(ts, t), d) = Append(Dropped(ts, d), t)
           /\ d \in 0..Len(Append(ts, t))
           /\ \A i \in 1..d : Append(ts, t)[i] <= t - Window
<1> DEFINE n == Len(ts)
           us == Append(ts, t)
<1>0. n \in Nat /\ DOMAIN ts = 1..n /\ d \in Nat /\ d <= n /\ \A i \in 1..n : ts[i] \in Int
  OBVIOUS
<1>n. n - d < Limit OBVIOUS
<1>l. Limit \in Nat \ {0} /\ Window \in Nat \ {0} BY UptimeBounds
<1>1. /\ us \in Seq(Int) /\ Len(us) = n + 1 /\ DOMAIN us = 1..(n + 1)
      /\ us[n + 1] = t /\ \A i \in 1..n : us[i] = ts[i]
  OBVIOUS
<1> HIDE DEF us, n
<1>2. \A i \in DOMAIN us : us[i] <= t
  <2> SUFFICES ASSUME NEW i \in 1..(n + 1) PROVE us[i] <= t BY <1>1
  <2>1. i = n + 1 \/ i \in 1..n BY <1>0
  <2>2. i = n + 1 => us[i] = t BY <1>1
  <2>3. ASSUME i \in 1..n PROVE us[i] = ts[i] /\ ts[i] <= t BY <1>0, <1>1, <2>3
  <2> QED BY <2>1, <2>2, <2>3
<1>3. Ordered(us)
  <2> SUFFICES ASSUME NEW i \in 1..(n + 1), NEW j \in 1..(n + 1), i <= j PROVE us[i] <= us[j]
    BY <1>1 DEF Ordered
  <2>1. CASE j = n + 1 BY <1>1, <1>2, <2>1
  <2>2. CASE j # n + 1
    <3>1. i \in 1..n /\ j \in 1..n BY <1>0, <2>2
    <3> QED BY <1>0, <1>1, <3>1 DEF Ordered
  <2> QED BY <2>1, <2>2
<1>4. Spaced(us)
  <2> SUFFICES ASSUME NEW i \in 1..(n + 1), i + Limit \in 1..(n + 1)
               PROVE  us[i + Limit] >= us[i] + Window
    BY <1>1 DEF Spaced
  <2>1. i \in 1..n BY <1>0, <1>l
  <2>2. CASE i + Limit = n + 1
    <3>1. i \in 1..d BY <1>0, <1>l, <1>n, <2>1, <2>2
    <3>2. ts[i] <= t - Window /\ ts[i] \in Int BY <1>0, <2>1, <3>1
    <3>3. us[i] = ts[i] /\ us[i + Limit] = t BY <1>1, <2>1, <2>2
    <3> QED BY <1>l, <3>2, <3>3
  <2>3. CASE i + Limit # n + 1
    <3>1. i + Limit \in 1..n BY <1>0, <1>l, <2>3
    <3>2. ts[i + Limit] >= ts[i] + Window BY <1>0, <2>1, <3>1 DEF Spaced
    <3> QED BY <1>1, <2>1, <3>1, <3>2
  <2> QED BY <2>2, <2>3
<1>5. Dropped(us, d) = Append(Dropped(ts, d), t)
  <2>1. PICK m \in Nat : m = n - d BY <1>0
  <2>2. Dropped(ts, d) = [j \in 1..m |-> ts[d + j]] BY <2>1 DEF Dropped, n
  <2>3. \A j \in 1..m : d + j \in 1..n BY <1>0, <2>1
  <2>4. Dropped(ts, d) \in Seq(Int) /\ Len(Dropped(ts, d)) = m BY <1>0, <2>1, <2>2, <2>3
  <2>5. Append(Dropped(ts, d), t) = [j \in 1..(m + 1) |-> IF j = m + 1 THEN t ELSE ts[d + j]]
    BY <2>2, <2>4
  <2>6. Len(us) - d = m + 1 /\ d + (m + 1) = n + 1 BY <1>0, <1>1, <2>1
  <2>7. Dropped(us, d) = [j \in 1..(m + 1) |-> us[d + j]] BY <2>6 DEF Dropped
  <2>8. ASSUME NEW j \in 1..(m + 1) PROVE us[d + j] = IF j = m + 1 THEN t ELSE ts[d + j]
    <3>1. CASE j = m + 1 BY <1>1, <2>6, <3>1
    <3>2. CASE j # m + 1
      <4>1. j \in 1..m BY <2>1, <3>2
      <4> QED BY <1>1, <2>3, <3>2, <4>1
    <3> QED BY <3>1, <3>2
  <2> QED BY <2>5, <2>7, <2>8
<1>6. \A i \in 1..d : us[i] <= t - Window BY <1>0, <1>1
<1>7. d \in 0..Len(us) BY <1>0, <1>1
<1> QED BY <1>1, <1>2, <1>3, <1>4, <1>5, <1>6, <1>7 DEF us

\* Time passes, and hits are filtered: nothing is let through.
LEMMA FilterStep ==
    ASSUME LimiterInv, passed' = passed, accepted' = accepted, clock' \in Int, clock' >= clock,
           DOMAIN hits' = Ips, hits' = [ip \in Ips |-> hits'[ip]],
           \A ip \in Ips : hits'[ip] = hits[ip] \/ hits'[ip] = Recent(hits[ip])
    PROVE  LimiterInv'
<1>w. Window \in Int BY UptimeBounds
<1>1. ASSUME NEW ip \in Ips
      PROVE  /\ hits'[ip] \in Seq(Int)
             /\ \A i \in DOMAIN passed[ip] : passed[ip][i] <= clock'
             /\ \E d \in 0..Len(passed[ip]) :
                    hits'[ip] = Dropped(passed[ip], d) /\ Gone(passed[ip], d)'
  <2> DEFINE ts == passed[ip]
  <2>1. ts \in Seq(Int) /\ clock \in Int /\ hits[ip] \in Seq(Int)
        /\ (\A i \in DOMAIN ts : ts[i] <= clock)
    BY DEF LimiterInv
  <2>2. hits'[ip] \in Seq(Int) BY <2>1, RecentOfHits
  <2>3. \E d \in 0..Len(ts) : hits'[ip] = Dropped(ts, d) /\ Gone(ts, d)
    <3>1. CASE hits'[ip] = hits[ip] BY <3>1 DEF LimiterInv
    <3>2. CASE hits'[ip] = Recent(hits[ip]) BY <3>2, RecentOfHits
    <3> QED BY <3>1, <3>2
  <2>4. PICK d \in 0..Len(ts) : hits'[ip] = Dropped(ts, d) /\ Gone(ts, d) BY <2>3
  <2>5. ASSUME NEW i \in 1..d PROVE ts[i] <= clock' - Window
    <3>1. i \in DOMAIN ts /\ ts[i] \in Int BY <2>1
    <3>2. ts[i] <= clock - Window BY <2>4 DEF Gone
    <3> QED BY <1>w, <2>1, <3>1, <3>2
  <2>6. Gone(ts, d)' BY <2>5 DEF Gone
  <2>7. ASSUME NEW i \in DOMAIN ts PROVE ts[i] <= clock'
    <3>1. ts[i] \in Int /\ ts[i] <= clock BY <2>1
    <3> QED BY <2>1, <3>1
  <2> QED BY <2>2, <2>4, <2>6, <2>7
<1>2. hits' \in [Ips -> Seq(Int)] BY <1>1
<1>3. ASSUME NEW ip \in Ips
      PROVE  (/\ Ordered(passed[ip]) /\ Spaced(passed[ip])
              /\ \A i \in DOMAIN passed[ip] : passed[ip][i] <= clock
              /\ \E d \in 0..Len(passed[ip]) :
                     hits[ip] = Dropped(passed[ip], d) /\ Gone(passed[ip], d))'
  <2>1. Ordered(passed[ip]) /\ Spaced(passed[ip]) BY DEF LimiterInv
  <2>2. Ordered(passed[ip])' /\ Spaced(passed[ip])' BY <2>1 DEF Ordered, Spaced
  <2>3. PICK d \in 0..Len(passed[ip]) : hits'[ip] = Dropped(passed[ip], d) /\ Gone(passed[ip], d)'
    BY <1>1
  <2>4. (hits[ip] = Dropped(passed[ip], d))' BY <2>3 DEF Dropped
  <2>5. d \in 0..Len(passed'[ip]) BY <2>3
  <2>6. \A i \in DOMAIN passed'[ip] : passed'[ip][i] <= clock' BY <1>1
  <2> QED BY <2>2, <2>3, <2>4, <2>5, <2>6
<1>4. ASSUME NEW ip \in Ips, NEW s \in Signed
      PROVE  accepted'[<<ip, s>>] <=
                 Cardinality(Within(passed'[ip], s.unix - Freshness, s.unix + Freshness))
  BY DEF LimiterInv
<1>5. passed' \in [Ips -> Seq(Int)] /\ accepted' \in [Ips \X Signed -> Nat] BY DEF LimiterInv
<1> QED BY <1>2, <1>3, <1>4, <1>5 DEF LimiterInv, Within

\* A request is let through.
LEMMA PassStep ==
    ASSUME LimiterInv, NEW ip \in Ips, NEW h \in HttpHandlers, NEW s \in Signed,
           PostHeartbeat(ip, h, s)
    PROVE  LimiterInv'
<1> DEFINE ts == passed[ip]
           us == Append(ts, clock)
<1>0. /\ passed \in [Ips -> Seq(Int)] /\ hits \in [Ips -> Seq(Int)] /\ clock \in Int
      /\ accepted \in [Ips \X Signed -> Nat]
  BY DEF LimiterInv
<1>1. /\ Len(Recent(hits[ip])) < Limit
      /\ hits' = [hits EXCEPT ![ip] = Append(Recent(hits[ip]), clock)]
      /\ passed' = [passed EXCEPT ![ip] = us]
      /\ accepted' = IF Fresh(s) THEN [accepted EXCEPT ![<<ip, s>>] = @ + 1] ELSE accepted
      /\ clock' = clock
  BY DEF PostHeartbeat, Allows
<1>2. ts \in Seq(Int) /\ Ordered(ts) /\ Spaced(ts) /\ (\A i \in DOMAIN ts : ts[i] <= clock)
  BY DEF LimiterInv
<1>3. PICK d \in 0..Len(ts) : Recent(hits[ip]) = Dropped(ts, d) /\ Gone(ts, d)
  BY RecentOfHits
<1> HIDE DEF ts
<1>4. Len(ts) - d < Limit
  <2>1. 0 \in 0..(Len(ts) - d) BY <1>2, <1>3
  <2>2. Len(Dropped(ts, d)) = Len(ts) - d BY <1>2, <1>3, <2>1, DroppedTwice
  <2> QED BY <1>1, <1>3, <2>2
<1>5. \A i \in 1..d : ts[i] <= clock - Window BY <1>3 DEF Gone
<1>6. /\ us \in Seq(Int) /\ Ordered(us) /\ Spaced(us)
      /\ (\A i \in DOMAIN us : us[i] <= clock)
      /\ Dropped(us, d) = Append(Dropped(ts, d), clock)
      /\ d \in 0..Len(us)
      /\ \A i \in 1..d : us[i] <= clock - Window
  BY <1>0, <1>2, <1>3, <1>4, <1>5, OneMore
<1>7. /\ Len(us) = Len(ts) + 1 /\ DOMAIN us = 1..(Len(ts) + 1) /\ DOMAIN ts = 1..Len(ts)
      /\ Len(ts) \in Nat /\ us[Len(ts) + 1] = clock /\ \A i \in 1..Len(ts) : us[i] = ts[i]
  BY <1>0, <1>2
<1> HIDE DEF us
<1>8. /\ passed'[ip] = us /\ hits'[ip] = Dropped(us, d)
      /\ \A x \in Ips \ {ip} : passed'[x] = passed[x] /\ hits'[x] = hits[x]
  BY <1>0, <1>1, <1>3, <1>6
<1>9. passed' \in [Ips -> Seq(Int)] BY <1>0, <1>1, <1>6
<1>10. hits' \in [Ips -> Seq(Int)]
  <2>1. Append(Recent(hits[ip]), clock) \in Seq(Int) BY <1>0, RecentOfHits
  <2> QED BY <1>0, <1>1, <2>1
<1>11. accepted' \in [Ips \X Signed -> Nat] BY <1>0, <1>1
<1>12. ASSUME NEW x \in Ips
       PROVE  (/\ Ordered(passed[x]) /\ Spaced(passed[x])
               /\ \A i \in DOMAIN passed[x] : passed[x][i] <= clock
               /\ \E e \in 0..Len(passed[x]) :
                      hits[x] = Dropped(passed[x], e) /\ Gone(passed[x], e))'
  <2>1. CASE x = ip
    <3>1. (\A i \in 1..d : passed[x][i] <= clock - Window)' BY <1>1, <1>6, <1>8, <2>1
    <3>2. Gone(passed[x], d)' BY <3>1 DEF Gone
    <3>3. (Ordered(passed[x]) /\ Spaced(passed[x]))' BY <1>6, <1>8, <2>1 DEF Ordered, Spaced
    <3>4. (\A i \in DOMAIN passed[x] : passed[x][i] <= clock)' BY <1>1, <1>6, <1>8, <2>1
    <3>5. (hits[x] = Dropped(passed[x], d))' BY <1>8, <2>1 DEF Dropped
    <3>6. d \in 0..Len(passed'[x]) BY <1>6, <1>8, <2>1
    <3> QED BY <3>2, <3>3, <3>4, <3>5, <3>6
  <2>2. CASE x # ip
    <3>1. passed'[x] = passed[x] /\ hits'[x] = hits[x] BY <1>8, <2>2
    <3>2. PICK e \in 0..Len(passed[x]) : hits[x] = Dropped(passed[x], e) /\ Gone(passed[x], e)
      BY DEF LimiterInv
    <3>3. (hits[x] = Dropped(passed[x], e))' BY <3>1, <3>2 DEF Dropped
    <3>4. Gone(passed[x], e)' BY <1>1, <3>1, <3>2 DEF Gone
    <3>5. Ordered(passed[x]) /\ Spaced(passed[x]) /\ \A i \in DOMAIN passed[x] : passed[x][i] <= clock
      BY DEF LimiterInv
    <3>6. (/\ Ordered(passed[x]) /\ Spaced(passed[x])
           /\ \A i \in DOMAIN passed[x] : passed[x][i] <= clock)'
      BY <1>1, <3>1, <3>5 DEF Ordered, Spaced
    <3>7. e \in 0..Len(passed'[x]) BY <3>1, <3>2
    <3> QED BY <3>3, <3>4, <3>6, <3>7
  <2> QED BY <2>1, <2>2
<1>13. ASSUME NEW x \in Ips, NEW r \in Signed
       PROVE  accepted'[<<x, r>>] <=
                  Cardinality(Within(passed'[x], r.unix - Freshness, r.unix + Freshness))
  <2> DEFINE a == r.unix - Freshness
             b == r.unix + Freshness
             A == Within(ts, a, b)
             B == Within(us, a, b)
  <2>1. accepted[<<x, r>>] <= Cardinality(Within(passed[x], a, b)) BY DEF LimiterInv
  <2>2. CASE x # ip
    <3>1. passed'[x] = passed[x] BY <1>8, <2>2
    <3>2. accepted'[<<x, r>>] = accepted[<<x, r>>] BY <1>0, <1>1, <2>2
    <3> QED BY <2>1, <3>1, <3>2
  <2>3. CASE x = ip
    <3>0. r.unix \in Int /\ Freshness \in Nat BY SignedType, UptimeBounds
    <3>1. IsFiniteSet(A) /\ IsFiniteSet(B) /\ Cardinality(A) \in Nat /\ Cardinality(B) \in Nat
      <4>1. A \in SUBSET (1..Len(ts)) /\ B \in SUBSET (1..(Len(ts) + 1)) BY <1>7 DEF Within
      <4>2. 1 \in Int /\ Len(ts) \in Int /\ Len(ts) + 1 \in Int BY <1>7
      <4>3. IsFiniteSet(1..Len(ts)) /\ IsFiniteSet(1..(Len(ts) + 1)) BY <4>2, FS_Interval
      <4> HIDE DEF A, B
      <4> QED BY <4>1, <4>3, FS_Subset, FS_CardinalityType
    <3>2. A \subseteq B /\ Len(ts) + 1 \notin A BY <1>7 DEF Within
    <3>3. clock \in a..b => B = A \cup {Len(ts) + 1}
      <4> SUFFICES ASSUME clock \in a..b PROVE B = A \cup {Len(ts) + 1} OBVIOUS
      <4>1. 1..(Len(ts) + 1) = (1..Len(ts)) \cup {Len(ts) + 1} BY <1>7
      <4> HIDE DEF a, b
      <4> QED BY <1>7, <4>1 DEF Within
    <3>4. accepted[<<ip, r>>] \in Nat /\ accepted[<<ip, r>>] <= Cardinality(A)
      BY <1>0, <2>1, <2>3 DEF ts
    <3>5. CASE r = s /\ Fresh(s)
      <4>1. clock \in a..b BY <1>0, <3>0, <3>5 DEF Fresh
      <4>2. B = A \cup {Len(ts) + 1} BY <3>3, <4>1
      <4>3. accepted'[<<ip, r>>] = accepted[<<ip, r>>] + 1 BY <1>0, <1>1, <3>5
      <4> HIDE DEF A, B
      <4>4. Cardinality(B) = Cardinality(A) + 1 BY <3>1, <3>2, <4>2, FS_AddElement
      <4>5. accepted'[<<ip, r>>] <= Cardinality(B) BY <3>1, <3>4, <4>3, <4>4
      <4> QED BY <1>8, <2>3, <4>5 DEF B
    <3>6. CASE ~(r = s /\ Fresh(s))
      <4>1. accepted'[<<ip, r>>] = accepted[<<ip, r>>] BY <1>0, <1>1, <3>6
      <4> HIDE DEF A, B
      <4>2. Cardinality(A) <= Cardinality(B) BY <3>1, <3>2, FS_Subset
      <4>3. accepted'[<<ip, r>>] <= Cardinality(B) BY <3>1, <3>4, <4>1, <4>2
      <4> QED BY <1>8, <2>3, <4>3 DEF B
    <3> QED BY <3>5, <3>6
  <2> QED BY <2>2, <2>3
<1>14. clock' \in Int BY <1>0, <1>1
<1> QED BY <1>9, <1>10, <1>11, <1>12, <1>13, <1>14 DEF LimiterInv, Within

\* Every other step leaves the limiter alone, filters its hits or moves the clock.
LEMMA LimiterStep == LimiterInv /\ [Next]_vars => LimiterInv'
<1> SUFFICES ASSUME LimiterInv, [Next]_vars PROVE LimiterInv' OBVIOUS
<1>0. clock \in Int /\ hits \in [Ips -> Seq(Int)] BY DEF LimiterInv
<1>1. ASSUME UNCHANGED <<clock, hits, passed, accepted>> PROVE LimiterInv'
  BY <1>0, <1>1, FilterStep
<1>2. CASE Tick BY <1>0, <1>2, FilterStep DEF Tick
<1>3. CASE CleanHits BY <1>0, <1>3, FilterStep DEF CleanHits
<1>4. ASSUME NEW ip \in Ips, Limited(ip) PROVE LimiterInv'
  <2>1. /\ hits' = [hits EXCEPT ![ip] = Recent(hits[ip])]
        /\ passed' = passed /\ accepted' = accepted /\ clock' = clock
    BY <1>4 DEF Limited
  <2>2. DOMAIN hits' = Ips /\ hits' = [x \in Ips |-> hits'[x]] BY <1>0, <2>1
  <2>3. \A x \in Ips : hits'[x] = hits[x] \/ hits'[x] = Recent(hits[x]) BY <1>0, <2>1
  <2>4. clock' \in Int /\ clock' >= clock BY <1>0, <2>1
  <2> QED BY <2>1, <2>2, <2>3, <2>4, FilterStep
<1>5. ASSUME NEW ip \in Ips, NEW h \in HttpHandlers, NEW s \in Signed, PostHeartbeat(ip, h, s)
      PROVE  LimiterInv'
  BY <1>5, PassStep
<1>6. ASSUME NEW a \in Addresses, OnHeartbeat(a) PROVE LimiterInv'
  BY <1>1, <1>6 DEF OnHeartbeat
<1>7. ASSUME NEW h \in Handlers, RecordHeartbeat(h) \/ RecordFails(h) PROVE LimiterInv'
  BY <1>1, <1>7 DEF RecordHeartbeat, RecordFails
<1>8. CASE PeerNext
  BY <1>1, <1>8 DEF PeerNext, Register, Connect, Connected, Lost, Disconnected, GoodBlock,
                    RefusedBlock, uptimeVars
<1>9. CASE UNCHANGED vars BY <1>1, <1>9 DEF vars, uptimeVars
<1> QED
  BY <1>2, <1>3, <1>4, <1>5, <1>6, <1>7, <1>8, <1>9 DEF Next, UptimeNext

\* The invariant of the limiter.
LEMMA LimiterHolds == Spec => []LimiterInv
BY LimiterInitially, LimiterStep, PTL DEF Spec

(***************************************************************************)
(* However requests, the cleaning ticker and the clock interleave, the     *)
(* limiter of internal/api/middleware.go lets no more than Limit requests  *)
(* of an address through in any Window ticks.                              *)
(***************************************************************************)
THEOREM WindowBoundHolds == Spec => []WindowBound
<1>1. LimiterInv => WindowBound
  <2> SUFFICES ASSUME LimiterInv, NEW ip \in Ips, NEW t \in 0..clock
               PROVE  Cardinality({i \in DOMAIN passed[ip] :
                                       passed[ip][i] \in (t - Window + 1)..t}) <= Limit
    BY DEF WindowBound
  <2>1. /\ passed[ip] \in Seq(Int) /\ Ordered(passed[ip]) /\ Spaced(passed[ip]) /\ t \in Int
        /\ Window \in Nat \ {0} /\ Limit \in Nat
    BY UptimeBounds DEF LimiterInv
  <2>2. 1 * Window = Window /\ 1 * Limit = Limit BY <2>1
  <2>3. PICK a \in Int : a = t - Window + 1 BY <2>1
  <2>4. t - a < 1 * Window BY <2>1, <2>2, <2>3
  <2>5. Cardinality(Within(passed[ip], a, t)) <= 1 * Limit BY <2>1, <2>3, <2>4, Crowd
  <2> QED BY <2>2, <2>3, <2>5 DEF Within
<1> QED BY <1>1, LimiterHolds, PTL

(***************************************************************************)
(* An address gets one signed heartbeat accepted no more often than the    *)
(* limiter lets it through while handleHeartbeat takes it for fresh.       *)
(***************************************************************************)
THEOREM ReplayBoundedHolds == Spec => []ReplayBounded
<1>1. LimiterInv => ReplayBounded
  <2> SUFFICES ASSUME LimiterInv, NEW ip \in Ips, NEW s \in Signed
               PROVE  accepted[<<ip, s>>] <= Limit * ((2 * Freshness + Window) \div Window)
    BY DEF ReplayBounded
  <2> DEFINE a == s.unix - Freshness
             b == s.unix + Freshness
             k == (2 * Freshness + Window) \div Window
  <2>1. Window \in Nat \ {0} /\ Limit \in Nat /\ Freshness \in Nat /\ s.unix \in Int
    BY UptimeBounds, SignedType
  <2>2. k \in Nat /\ 2 * Freshness + Window < Window * k + Window BY <2>1
  <2>3. a \in Int /\ b \in Int /\ b - a = 2 * Freshness BY <2>1
  <2>4. passed[ip] \in Seq(Int) /\ Ordered(passed[ip]) /\ Spaced(passed[ip]) BY DEF LimiterInv
  <2>5. /\ accepted[<<ip, s>>] \in Nat
        /\ accepted[<<ip, s>>] <= Cardinality(Within(passed[ip], a, b))
    BY DEF LimiterInv
  <2> HIDE DEF a, b, k
  <2>6. k * Window = Window * k /\ Window * k \in Nat /\ k * Limit = Limit * k /\ k * Limit \in Nat
    BY <2>1, <2>2
  <2>7. b - a < k * Window BY <2>1, <2>2, <2>3, <2>6
  <2>8. /\ IsFiniteSet(Within(passed[ip], a, b))
        /\ Cardinality(Within(passed[ip], a, b)) <= k * Limit
    BY <2>2, <2>3, <2>4, <2>7, Crowd
  <2>9. Cardinality(Within(passed[ip], a, b)) \in Nat BY <2>8, FS_CardinalityType
  <2>10. accepted[<<ip, s>>] <= Limit * k BY <2>5, <2>6, <2>8, <2>9
  <2> QED BY <2>10 DEF k
<1> QED BY <1>1, LimiterHolds, PTL
=============================================================================
