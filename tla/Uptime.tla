-------------------------------- MODULE Uptime --------------------------------
(***************************************************************************)
(* Heartbeats and the uptime counts of one node: the per-address rate      *)
(* limit in front of the HTTP API (internal/api/middleware.go),            *)
(* handleHeartbeat (internal/api/server.go), the handler of heartbeats     *)
(* gossiped by peers (cmd/validator/main.go), and RecordHeartbeat          *)
(* (internal/state/uptime.go).                                             *)
(*                                                                         *)
(* Handlers run concurrently.  RecordHeartbeat reads the clock and works   *)
(* out the epoch before its store transaction starts, so a transaction may *)
(* carry an epoch that is over by the time it runs.                        *)
(***************************************************************************)
EXTENDS Integers, Sequences, SequencesExt, FiniteSets, Filters

CONSTANTS
    Ips,            \* callers of the HTTP API
    HttpHandlers,   \* requests the HTTP server works on at a time
    Signed,         \* bound: the signed heartbeats [address, unix]
    EpochLength,    \* ticks of an epoch, EpochSeconds
    Freshness,      \* ticks a signature stays fresh, either way
    Limit, Window,  \* requests of an ip within so many ticks
    MaxTime,        \* bound: the clock
    MaxGossiped     \* bound: heartbeats of an address that peers gossip in an epoch

ASSUME UptimeBounds ==
    /\ {EpochLength, Limit, Window} \subseteq Nat \ {0}
    /\ {Freshness, MaxTime, MaxGossiped} \subseteq Nat
    /\ EpochLength <= MaxTime
ASSUME SignedType == \A s \in Signed : s.unix \in Int

VARIABLES
    clock,      \* time.Now()
    hits,       \* ipRateLimiter.hits
    recording,  \* per handler, the RecordHeartbeat it is in
    record,     \* per address, EpochID and Count under its "hb:" key
    index,      \* Count under each "epoch:" key
    passed,     \* history: times at which the limiter let an ip through
    accepted,   \* history: how often an ip's copy of a signature was accepted
    recorded,   \* history: heartbeats recorded, by address and epoch
    disordered  \* history: addresses with a heartbeat recorded behind a later epoch's

uptimeVars == <<clock, hits, recording, record, index, passed, accepted, recorded, disordered>>

Addresses == {s.address : s \in Signed}
P2P == "p2p"                          \* the goroutine of subscribeHeartbeats
Handlers == HttpHandlers \cup {P2P}
EpochOf(t) == t \div EpochLength
Epochs == 0..EpochOf(MaxTime)
Idle == [pc |-> "idle"]

UptimeInit ==
    /\ clock = EpochLength
    /\ hits = [ip \in Ips |-> <<>>]
    /\ recording = [h \in Handlers |-> Idle]
    /\ record = [a \in Addresses |-> [epoch |-> 0, count |-> 0]]
    /\ index = [a \in Addresses |-> [e \in Epochs |-> 0]]
    /\ passed = [ip \in Ips |-> <<>>]
    /\ accepted = [r \in Ips \X Signed |-> 0]
    /\ recorded = [a \in Addresses |-> [e \in Epochs |-> 0]]
    /\ disordered = {}

-----------------------------------------------------------------------------
(* The rate limit *)

\* The limiter forgets everything once the oldest hit has left the window.
RecentFixed(ts) == IF ts # <<>> /\ ts[1] <= clock - Window THEN <<>> ELSE ts

Recent(ts) == Kept(ts, {i \in DOMAIN ts : ts[i] > clock - Window})

Allows(ip) == Len(Recent(hits[ip])) < Limit

\* The ticker of newIPRateLimiter drops what has left the window.
CleanHits ==
    /\ hits' = [ip \in Ips |-> Recent(hits[ip])]
    /\ UNCHANGED <<clock, recording, record, index, passed, accepted, recorded, disordered>>

Limited(ip) ==
    /\ ~Allows(ip)
    /\ hits' = [hits EXCEPT ![ip] = Recent(@)]
    /\ UNCHANGED <<clock, recording, record, index, passed, accepted, recorded, disordered>>

-----------------------------------------------------------------------------
(* Heartbeats *)

\* A signature is refused only if it comes from the future.
FreshForever(s) == s.unix - clock <= Freshness

Fresh(s) == s.unix - clock \in (-Freshness)..Freshness

\* RecordHeartbeat takes the time, then opens its transaction.
Reads(h, a) == recording' = [recording EXCEPT ![h] = [pc |-> "update", address |-> a, epoch |-> EpochOf(clock)]]

\* handleHeartbeat behind the limiter: a stale signature is answered 400.  One instant for
\* the limiter, the reading of the body (at most ReadTimeout, ten seconds), the freshness
\* check and RecordHeartbeat's look at the clock.
PostHeartbeat(ip, h, s) ==
    /\ recording[h] = Idle
    /\ Allows(ip)
    /\ hits' = [hits EXCEPT ![ip] = Append(Recent(@), clock)]
    /\ passed' = [passed EXCEPT ![ip] = Append(@, clock)]
    /\ IF Fresh(s)
       THEN /\ Reads(h, s.address)
            /\ accepted' = [accepted EXCEPT ![<<ip, s>>] = @ + 1]
       ELSE UNCHANGED <<recording, accepted>>
    /\ UNCHANGED <<clock, record, index, recorded, disordered>>

\* A heartbeat a peer gossiped: neither its signature nor its time is looked at.
OnHeartbeat(a) ==
    /\ recording[P2P] = Idle
    /\ recorded[a][EpochOf(clock)] < MaxGossiped
    /\ Reads(P2P, a)
    /\ UNCHANGED <<clock, hits, record, index, passed, accepted, recorded, disordered>>

\* The count goes on from one epoch to the next.
CountedOn(rec, e) == [epoch |-> e, count |-> rec.count + 1]

\* A heartbeat of another epoch than the record's starts the count again.
Counted(rec, e) == [epoch |-> e, count |-> IF rec.epoch # e THEN 1 ELSE rec.count + 1]

\* The transaction of RecordHeartbeat, with its mirror into the epoch index.
RecordHeartbeat(h) ==
    LET r == recording[h]
        a == r.address
        rec == Counted(record[a], r.epoch)
    IN /\ r # Idle
       /\ record' = [record EXCEPT ![a] = rec]
       /\ index' = [index EXCEPT ![a][r.epoch] = rec.count]
       /\ recording' = [recording EXCEPT ![h] = Idle]
       /\ recorded' = [recorded EXCEPT ![a][r.epoch] = @ + 1]
       /\ disordered' = IF r.epoch < record[a].epoch THEN disordered \cup {a} ELSE disordered
       /\ UNCHANGED <<clock, hits, passed, accepted>>

\* It conflicts with another handler's transaction, or the store fails.
RecordFails(h) ==
    /\ recording[h] # Idle
    /\ recording' = [recording EXCEPT ![h] = Idle]
    /\ UNCHANGED <<clock, hits, record, index, passed, accepted, recorded, disordered>>

Tick ==
    /\ clock < MaxTime
    /\ clock' = clock + 1
    /\ UNCHANGED <<hits, recording, record, index, passed, accepted, recorded, disordered>>

UptimeNext ==
    \/ Tick
    \/ CleanHits
    \/ \E ip \in Ips : Limited(ip)
    \/ \E ip \in Ips, h \in HttpHandlers, s \in Signed : PostHeartbeat(ip, h, s)
    \/ \E a \in Addresses : OnHeartbeat(a)
    \/ \E h \in Handlers : RecordHeartbeat(h)
    \/ \E h \in Handlers : RecordFails(h)

-----------------------------------------------------------------------------
(* Properties *)

\* In no stretch of Window ticks, wherever it begins, are more than Limit
\* requests of one ip let through: allow and the cleaning ticker of
\* newIPRateLimiter between them forget no hit too early.
WindowBound ==
    \A ip \in Ips, t \in 0..clock :
        Cardinality({i \in DOMAIN passed[ip] : passed[ip][i] \in (t - Window + 1)..t}) <= Limit

\* "so a captured request/signature can't be replayed forever": the freshness
\* check of handleHeartbeat and the limiter together bound how often one ip has
\* a signature counted, however long the node runs.
ReplayBounded ==
    \A r \in Ips \X Signed :
        accepted[r] <= Limit * ((2 * Freshness + Window) \div Window)

\* The epoch index lists for an address exactly the heartbeats recorded in the
\* epoch, unless RecordHeartbeat, which reads the clock before its transaction,
\* wrote one of an earlier epoch behind one of a later epoch: that starts the
\* count of an epoch already counted again from 1.  It never lists more.
EpochCounts ==
    /\ \A a \in Addresses \ disordered : index[a] = recorded[a]
    /\ \A a \in disordered, e \in Epochs : index[a][e] <= recorded[a][e]
=============================================================================
