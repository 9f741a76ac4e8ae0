------------------------------ MODULE Telemetry ------------------------------
\* The telemetry service: POST /v1/signals (rate limit, sanitise, drop duplicates, write),
\* POST /v1/health, the retention loop, and what the two read endpoints compute from the
\* rows.  Requests are handled concurrently; the limiter and the table of seen ids live in
\* memory and are lost in a restart, the rows (Postgres, required in production) are not.
\*
\* Time counts in fractions of a minute; Coarse of them make a minute.
EXTENDS Integers, Sequences, Bags, FiniteSetsExt, SequencesExt, Functions, TextArray

CONSTANTS
    Conns,              \* connections: requests handled at a time
    Origins,            \* remote hosts
    Workloads,          \* what is sent: [batches: sequences of signals, events: probe events,
                        \* hosts: who sends the batches, posts: how many are let in at most]
    GeoCode,            \* raw region -> the code ToUpper and TrimSpace make of it, "" if regionRe refuses it
    Platforms,          \* the known platforms
    MaxBatch,
    Coarse,             \* clockCoarse
    FutureSkew, Window, Retention,
    DedupTTLFactor, SweepAt,
    Rate, Burst, GlobalRate, GlobalBurst, BucketTTL,
    MinSources, MinBlockedSources,
    DeadShare, MaxOKShare, DegradedShare,   \* percentages
    MaxTime,            \* bound on the clock
    MaxRestarts         \* bound on restarts

\* config.Load checks that the numbers are positive; that a bucket idle for its TTL is full
\* again is true of the defaults and nowhere enforced.
ASSUME ConfigAssumption ==
    /\ {Coarse, Window, Retention, BucketTTL, Rate, Burst, GlobalRate, GlobalBurst, MaxBatch}
          \subseteq Nat \ {0}
    /\ {MinSources, MinBlockedSources} \subseteq Int
    /\ Rate * BucketTTL >= Burst

\* contracts.FieldSignal and contracts.HealthEvent, as decoded; the region of an event is
\* spelled out, for its text form.
RawSignals == [id : STRING, region : DOMAIN GeoCode, transport : STRING, asn : Int, isp : STRING,
               platform : STRING, type : STRING, observed : Int]
ProbeEvents == [node : STRING, source : STRING, status : STRING, regions : Seq(Seq(Chars)), observed : Int]

ASSUME WorkloadAssumption ==
    \A w \in Workloads : w.batches \subseteq Seq(RawSignals) /\ w.events \subseteq ProbeEvents

Unset == -1                  \* the zero time

VARIABLES
    now,
    limiter,                 \* [global: bucket, buckets: origin -> bucket]
    seen,                    \* Deduper.seen: id -> when
    signals,                 \* telemetry_signals, a bag of rows
    health,                  \* telemetry_health
    conn,                    \* connection -> the request it carries
    load,                    \* the workload of this behaviour
    restarts, started,       \* restarts so far, and when the process started
    posts,                   \* batches admitted so far
    posted,                  \* history: the signals posted
    charged,                 \* history: origin -> signals admitted since the start
    admitted                 \* history: signals of all origins admitted since the start

vars == <<now, limiter, seen, signals, health, conn, load, restarts, started, posts, posted, charged, admitted>>
-----------------------------------------------------------------------------
\* The rate limiter.

NewLimiter == [global |-> [tokens |-> GlobalBurst, lastSeen |-> now], buckets |-> <<>>]

RefillTwice(b, rate, max) ==
    IF now > b.lastSeen
        THEN [b EXCEPT !.tokens = Min({max, b.tokens + (now - b.lastSeen) * rate})]
        ELSE b

Refill(b, rate, max) ==
    IF now > b.lastSeen
        THEN [tokens |-> Min({max, b.tokens + (now - b.lastSeen) * rate}), lastSeen |-> now]
        ELSE b

\* evictLocked: buckets idle for longer than the TTL go.
Evict(buckets) ==
    RestrictDomain(buckets, LAMBDA o : now - buckets[o].lastSeen <= BucketTTL)

\* Allow, the global ceiling first: whether n signals from o pass, and the limiter after.
Allow(o, n) ==
    LET g == Refill(limiter.global, GlobalRate, GlobalBurst)
        b == IF o \in DOMAIN limiter.buckets
                THEN Refill(limiter.buckets[o], Rate, Burst)
                ELSE [tokens |-> Burst, lastSeen |-> now]
        Put(c) == [p \in DOMAIN limiter.buckets \cup {o} |-> IF p = o THEN c ELSE limiter.buckets[p]]
    IN  IF g.tokens < n
            THEN [ok |-> FALSE, limiter |-> [limiter EXCEPT !.global = g]]
        ELSE IF b.tokens < n
            THEN [ok |-> FALSE, limiter |-> [global |-> g, buckets |-> Put(b)]]
        ELSE [ok |-> TRUE,
              limiter |-> [global |-> [g EXCEPT !.tokens = @ - n],
                           buckets |-> Evict(Put([tokens |-> b.tokens - n, lastSeen |-> now]))]]
-----------------------------------------------------------------------------
\* What one signal becomes.

\* The time a signal counts at: its own or, unset, the server's.
ObservedAt(r, t) == IF r.observed = Unset THEN t ELSE r.observed

Acceptable(r, t) ==
    /\ GeoCode[r.region] # ""
    /\ ObservedAt(r, t) <= t + FutureSkew
    /\ ObservedAt(r, t) >= t - Retention
    /\ r.id # ""

ToMinute(t) == (t \div Coarse) * Coarse

\* Sanitize: an AS number out of range (here negative) is dropped, one in range replaces the
\* provider's name, an unknown platform is dropped, the time is cut to the minute.
Sanitize(r, t) ==
    [id        |-> r.id,
     region    |-> GeoCode[r.region],
     transport |-> r.transport,
     asn       |-> Max({r.asn, 0}),
     isp       |-> IF r.asn > 0 THEN "" ELSE r.isp,
     platform  |-> IF r.platform \in Platforms THEN r.platform ELSE "",
     type      |-> r.type,
     observed  |-> ToMinute(ObservedAt(r, t))]

Expired(id) == now - seen[id] >= DedupTTLFactor * Window

\* Fresh: unseen, or seen longer ago than the TTL.
Fresh(id) == id \in DOMAIN seen => Expired(id)

\* Fresh records the id, and sweeps the expired ones once the table is large.
Recorded(id) ==
    LET s == [i \in DOMAIN seen \cup {id} |-> IF i = id THEN now ELSE seen[i]]
    IN  IF Cardinality(DOMAIN s) < SweepAt
            THEN s
            ELSE RestrictDomain(s, LAMBDA i : now - s[i] < DedupTTLFactor * Window)
-----------------------------------------------------------------------------
\* The store.

InsertEvery(bag, rows) == FoldLeft(LAMBDA b, r : b (+) SetToBag({r}), bag, rows)

\* WriteSignals: ON CONFLICT (signal_id) DO NOTHING, row by row in one transaction.
\* A row goes in when no row stored or earlier in the batch has its id.
Insert(bag, rows) ==
    LET stored(i) == \E s \in DOMAIN bag : s.id = rows[i].id
        repeated(i) == \E j \in 1..(i - 1) : rows[j].id = rows[i].id
    IN  bag (+) SetToBag({rows[i] : i \in {i \in DOMAIN rows : ~stored(i) /\ ~repeated(i)}})

-----------------------------------------------------------------------------
Idle == [pc |-> "idle", at |-> 0, batch |-> <<>>, accepted |-> <<>>]

Init ==
    /\ load \in Workloads
    /\ now = 0
    /\ limiter = NewLimiter
    /\ seen = <<>>
    /\ signals = EmptyBag
    /\ health = {}
    /\ conn = [q \in Conns |-> Idle]
    /\ restarts = 0 /\ started = 0
    /\ posts = 0 /\ posted = {}
    /\ charged = [o \in Origins |-> 0] /\ admitted = 0

\* HandleSignals up to the limiter.  A malformed, empty or too long batch is answered before
\* it; a refused one has still refilled the buckets.
Post(q, o) ==
    \E b \in load.batches :
        LET verdict == Allow(o, Len(b)) IN
        /\ conn[q].pc = "idle" /\ o \in load.hosts /\ posts < load.posts
        /\ b # <<>> /\ Len(b) <= MaxBatch
        /\ limiter' = verdict.limiter
        /\ IF verdict.ok
              THEN /\ conn' = [conn EXCEPT ![q] = [pc |-> "screen", at |-> now, batch |-> b, accepted |-> <<>>]]
                   /\ charged' = [charged EXCEPT ![o] = @ + Len(b)]
                   /\ admitted' = admitted + Len(b)
                   /\ posted' = posted \cup ToSet(b)
                   /\ posts' = posts + 1
              ELSE UNCHANGED <<conn, charged, admitted, posted, posts>>
        /\ UNCHANGED <<now, seen, signals, health, load, restarts, started>>

\* One signal of the batch: sanitised at the request's time, then looked up and recorded.
Screen(q) ==
    /\ conn[q].pc = "screen"
    /\ LET r == Head(conn[q].batch)
           passes == Acceptable(r, conn[q].at) /\ Fresh(r.id)
           rest == Tail(conn[q].batch)
           accepted == IF passes THEN Append(conn[q].accepted, Sanitize(r, conn[q].at)) ELSE conn[q].accepted
       IN  /\ seen' = IF passes THEN Recorded(r.id) ELSE seen
           /\ conn' = [conn EXCEPT ![q] =
                          IF rest # <<>> THEN [@ EXCEPT !.batch = rest, !.accepted = accepted]
                          ELSE IF accepted # <<>> THEN [@ EXCEPT !.pc = "write", !.batch = <<>>, !.accepted = accepted]
                          ELSE Idle]
    /\ UNCHANGED <<now, limiter, signals, health, load, restarts, started, posts, posted, charged, admitted>>

\* WriteSignals and the answer.  A failed transaction leaves no row, one whose commit answer
\* was lost leaves them all; the handler answers 500 in both cases.
Write(q) ==
    /\ conn[q].pc = "write"
    /\ \E committed \in BOOLEAN :
          signals' = IF committed THEN Insert(signals, conn[q].accepted) ELSE signals
    /\ conn' = [conn EXCEPT ![q] = Idle]
    /\ UNCHANGED <<now, limiter, seen, health, load, restarts, started, posts, posted, charged, admitted>>

HealthStatuses == {"healthy", "degraded", "blocked", "unreachable"}

\* HandleHealth: nothing is shared before the one transaction that writes the batch, and a
\* failed one changes nothing.
HandleHealth ==
    \E e \in load.events :
        LET clean == [e EXCEPT !.observed = ObservedAt(e, now)] IN
        /\ e.node # "" /\ e.source # "" /\ e.status \in HealthStatuses
        /\ health' = health \cup {clean}
        /\ UNCHANGED <<now, limiter, seen, signals, conn, load, restarts, started, posts, posted, charged, admitted>>

\* What Prune deletes: the rows observed before the horizon.
Old(r) == r.observed < now - Retention

\* retentionLoop: both tables, in one transaction; a failed one changes nothing.
Prune ==
    /\ \E r \in DOMAIN signals \cup health : Old(r)
    /\ signals' = RestrictDomain(signals, LAMBDA r : ~Old(r))
    /\ health' = {e \in health : ~Old(e)}
    /\ UNCHANGED <<now, limiter, seen, conn, load, restarts, started, posts, posted, charged, admitted>>

\* The process ends, with the requests it carries, and main builds a new limiter and Deduper.
Restart ==
    /\ restarts < MaxRestarts
    /\ restarts' = restarts + 1
    /\ started' = now
    /\ limiter' = NewLimiter
    /\ seen' = <<>>
    /\ conn' = [q \in Conns |-> Idle]
    /\ charged' = [o \in Origins |-> 0] /\ admitted' = 0
    /\ UNCHANGED <<now, signals, health, load, posts, posted>>

Tick ==
    /\ now < MaxTime
    /\ now' = now + 1
    /\ UNCHANGED <<limiter, seen, signals, health, conn, load, restarts, started, posts, posted, charged, admitted>>

Next ==
    \/ \E q \in Conns : (\E o \in Origins : Post(q, o)) \/ Screen(q) \/ Write(q)
    \/ HandleHealth
    \/ Prune
    \/ Restart
    \/ Tick

Spec == Init /\ [][Next]_vars
-----------------------------------------------------------------------------
\* What GET /v1/aggregates answers now.

\* classify: 2 blocked, 1 degraded, 0 ok.
Classify(type) == CASE type = "throttle" -> 1 [] type = "ok" -> 0 [] OTHER -> 2

\* sourceKey: the AS number, else the provider, else the platform.
SourceKey(r) ==
    IF r.asn > 0 THEN <<"asn", r.asn>>
    ELSE IF r.isp # "" THEN <<"isp", r.region, r.isp>>
    ELSE <<"geo", r.region, r.platform>>

SignalsSince(t) == {r \in DOMAIN signals : r.observed >= t}

\* The rows Compute groups under a region and a transport, and the groups it makes.
InWindow(t) == t >= now - Window /\ t <= now
Current == {r \in SignalsSince(now - Window) : InWindow(r.observed)}
Rows(key) == {r \in Current : <<r.region, r.transport>> = key}
Keys == {<<r.region, r.transport>> : r \in Current}

\* srcState.observe: the worst outcome a source reported.
Worst(rows, src) == Max({Classify(r.type) : r \in {r \in rows : SourceKey(r) = src}})

TallySignals(rows, outcome) == Cardinality({r \in rows : Classify(r.type) = outcome})

\* tally: the sources whose worst outcome is this one.
Tally(rows, outcome) ==
    Cardinality({src \in {SourceKey(r) : r \in rows} : Worst(rows, src) = outcome})

\* applyVerdict, shares in percent: withheld below MinSources, else dead, degraded or healthy.
Verdict(blocked, degraded, ok) ==
    LET distinct == blocked + degraded + ok IN
    IF distinct < MinSources THEN "withheld"
    ELSE IF /\ 100 * blocked >= DeadShare * distinct
            /\ blocked >= MinBlockedSources
            /\ 100 * ok <= MaxOKShare * distinct THEN "dead"
    ELSE IF 100 * (blocked + degraded) >= DegradedShare * distinct THEN "degraded"
    ELSE "healthy"

\* The sum of w over S.
SumOver(w, S) == FoldSet(LAMBDA x, n : n + w[x], 0, S)

\* Compute: raw signals are counted, the verdict is over sources.
Aggregate(key) ==
    LET rows == Rows(key) IN
    [total   |-> SumOver(signals, rows),
     verdict |-> Verdict(Tally(rows, 2), Tally(rows, 1), Tally(rows, 0))]

\* What GET /v1/recommendations answers now: the blocks that probes within the window saw.
\* The regions of a row are kept as reported, and pass through their text form when read.
HealthSince(t) == {[e EXCEPT !.regions = ReadBack(@)] : e \in {e \in health : e.observed >= t}}

Blocking(e) == InWindow(e.observed) /\ e.status \in {"blocked", "unreachable"}
Named(regions) == ToSet(regions) \ {<<>>}
NodeBlocks ==
    UNION {{e.node} \X Named(e.regions) : e \in {e \in HealthSince(now - Window) : Blocking(e)}}
-----------------------------------------------------------------------------
\* Properties.

\* However its requests interleave with refills, refusals and evictions, a remote host gets
\* no more signals past the limiter than a burst and the rate allow for the time the process
\* has run, and all hosts together no more than the global ones (RateLimiter.Allow).
IntakeIsBounded ==
    LET allowed(burst, rate) == burst + rate * (now - started) IN
    /\ \A o \in Origins : charged[o] <= allowed(Burst, Rate)
    /\ admitted <= allowed(GlobalBurst, GlobalRate)

\* A signal counts once in the aggregates, under one region and transport: posting it again
\* after a restart, an expired entry of the table of seen ids or a lost answer adds nothing
\* (Deduper.Fresh and ON CONFLICT DO NOTHING together).
CountedOnce ==
    SumOver([k \in Keys |-> Aggregate(k).total], Keys) <= Cardinality({r.id : r \in posted})

\* A transport is called dead in a region only when at least MinBlockedSources different
\* networks have reported it blocked there for the current window: one network's reports,
\* however many and however often repeated, are one voice (applyVerdict, tally, sourceKey).
DeadMeansAgreed ==
    LET current(r) == r.observed = Unset \/ InWindow(ToMinute(r.observed))
        voices(k) == {SourceKey(Sanitize(r, now)) :
                        r \in {r \in posted : /\ <<GeoCode[r.region], r.transport>> = k
                                               /\ r.type \notin {"ok", "throttle"}
                                               /\ current(r)}}
    IN  \A k \in Keys : Aggregate(k).verdict = "dead" => Cardinality(voices(k)) >= MinBlockedSources

\* The recommendations have the regions that the probes within the window named, whatever
\* characters they are written with and whichever of them Postgres quotes: no region is
\* lost, split, joined with its neighbour or changed on its way through the text form
\* (pqTextArray, quoteArrayElem, parseTextArray).
RegionsSurvive ==
    NodeBlocks = UNION {{e.node} \X Named(e.regions) : e \in {e \in health : Blocking(e)}}
==============================================================================
