--------------------------- MODULE TelemetryProofs ---------------------------
(***************************************************************************)
(* What the telemetry service lets in, keeps and reports, for every        *)
(* workload and every value of the limits.  Two invariants that do not     *)
(* depend on each other: the tokens of a bucket account for all the time   *)
(* the process has run (the limiter); a stored row is a posted signal, one *)
(* row to an id (the rows).                                                *)
(***************************************************************************)
EXTENDS Telemetry, FiniteSetTheorems, SequenceTheorems, TLAPS

LEMMA Config ==
    /\ Coarse \in Nat /\ Coarse > 0 /\ Window \in Nat /\ Retention \in Nat /\ BucketTTL \in Nat
    /\ Rate \in Nat /\ Burst \in Nat /\ GlobalRate \in Nat /\ GlobalBurst \in Nat
    /\ Rate * BucketTTL >= Burst
    /\ MinSources \in Int /\ MinBlockedSources \in Int
  BY ConfigAssumption

-----------------------------------------------------------------------------
(* The limiter.                                                            *)

Bucket == [tokens : Int, lastSeen : Nat]

\* A bucket accounts for what its owner was charged: together they never exceed the burst
\* and what the rate has added since the start.
Accounts(b, n, burst, rate) ==
    /\ b \in Bucket
    /\ started <= b.lastSeen /\ b.lastSeen <= now
    /\ b.tokens >= 0
    /\ n + b.tokens <= burst + rate * (b.lastSeen - started)

\* A host without a bucket has been charged no more than what a bucket refilled from
\* nothing would have got: the next one may start full.
HostAccounts(l, o, n) ==
    IF o \in DOMAIN l.buckets
        THEN Accounts(l.buckets[o], n, Burst, Rate)
        ELSE n <= Rate * (now - started)

LimiterOK(l, ch, ad) ==
    /\ l = [global |-> l.global, buckets |-> l.buckets]
    /\ Accounts(l.global, ad, GlobalBurst, GlobalRate)
    /\ DOMAIN l.buckets \subseteq Origins
    /\ \A o \in Origins : HostAccounts(l, o, ch[o])

LimiterInv ==
    /\ now \in Nat /\ started \in Nat /\ started <= now
    /\ load \in Workloads
    /\ charged \in [Origins -> Nat]
    /\ admitted \in Nat
    /\ LimiterOK(limiter, charged, admitted)

LEMMA Times == ASSUME NEW r \in Nat, NEW a \in Int, NEW b \in Int
               PROVE  /\ r * a \in Int
                      /\ r * (a + b) = r * a + r * b
                      /\ a * r = r * a
                      /\ a <= b => r * a <= r * b
                      /\ a >= 0 => r * a >= 0
  OBVIOUS

LEMMA MinOfTwo ==
  ASSUME NEW a \in Int, NEW b \in Int
  PROVE  Min({a, b}) \in {a, b} /\ Min({a, b}) <= a /\ Min({a, b}) <= b
  BY DEF Min

\* refill keeps the account, up to now.
LEMMA RefillAccounts ==
  ASSUME now \in Nat, started \in Nat, NEW b, NEW n \in Nat, NEW burst \in Nat, NEW rate \in Nat,
         Accounts(b, n, burst, rate)
  PROVE  /\ Accounts(Refill(b, rate, burst), n, burst, rate)
         /\ Refill(b, rate, burst).lastSeen = now
<1>0. /\ b.tokens \in Int /\ b.tokens >= 0 /\ b.lastSeen \in Nat /\ b \in Bucket
      /\ started <= b.lastSeen /\ b.lastSeen <= now
  BY DEF Accounts, Bucket
<1>1. CASE now > b.lastSeen
  <2>1. PICK d \in Nat : d = now - b.lastSeen
    BY <1>0, <1>1
  <2>2. PICK t : t = Min({burst, b.tokens + d * rate})
    OBVIOUS
  <2>3. d * rate \in Nat /\ rate * d \in Nat /\ d * rate = rate * d
    OBVIOUS
  <2>4. t \in Int /\ t >= 0 /\ t <= b.tokens + rate * d
    <3>1. PICK a \in Int : a = b.tokens + d * rate
      BY <1>0, <2>3
    <3>2. t = Min({burst, a}) /\ a >= 0 /\ burst \in Int /\ burst >= 0
      BY <1>0, <2>2, <2>3, <3>1
    <3>3. t \in {burst, a} /\ t <= a
      BY <3>2, MinOfTwo
    <3> QED
      BY <2>3, <3>1, <3>2, <3>3
  <2>5. PICK c : c = [tokens |-> t, lastSeen |-> now]
    OBVIOUS
  <2>6. Refill(b, rate, burst) = c
    BY <1>1, <2>1, <2>2, <2>5 DEF Refill
  <2>7. c \in Bucket /\ c.tokens = t /\ c.lastSeen = now
    BY <2>4, <2>5 DEF Bucket
  <2>8. rate * (now - started) = rate * (b.lastSeen - started) + rate * d
    <3>1. PICK x \in Int : x = b.lastSeen - started
      BY <1>0
    <3>2. now - started = x + d
      BY <1>0, <2>1, <3>1
    <3>3. rate * (x + d) = rate * x + rate * d
      BY Times
    <3> QED
      BY <3>1, <3>2, <3>3
  <2>9. rate * (b.lastSeen - started) \in Int
    BY <1>0, Times
  <2>10. n + t <= burst + rate * (now - started)
    BY <1>0, <2>3, <2>4, <2>8, <2>9 DEF Accounts
  <2>11. started <= now
    BY <1>0
  <2> QED
    BY <2>4, <2>6, <2>7, <2>10, <2>11 DEF Accounts
<1>2. CASE ~(now > b.lastSeen)
  <2>1. b.lastSeen = now
    BY <1>0, <1>2
  <2>2. Refill(b, rate, burst) = b
    BY <1>2 DEF Refill
  <2> QED
    BY <2>1, <2>2
<1> QED
  BY <1>1, <1>2

\* A full new bucket, for a host that has none.
LEMMA NewBucketAccounts ==
  ASSUME now \in Nat, started \in Nat, started <= now, NEW n \in Nat, n <= Rate * (now - started),
         NEW b, b = [tokens |-> Burst, lastSeen |-> now]
  PROVE  Accounts(b, n, Burst, Rate) /\ b.lastSeen = now
<1>1. b.tokens = Burst /\ b.lastSeen = now /\ b \in Bucket
  BY Config DEF Bucket
<1>2. Rate * (now - started) \in Int
  BY Config, Times
<1> QED
  BY <1>1, <1>2, Config DEF Accounts

\* Taking m tokens moves them from the bucket to the account.
LEMMA TakeAccounts ==
  ASSUME now \in Nat, started \in Nat, NEW b, NEW n \in Nat, NEW m \in Nat, NEW burst \in Nat, NEW rate \in Nat,
         Accounts(b, n, burst, rate), b.lastSeen = now, ~(b.tokens < m),
         NEW c, c = [tokens |-> b.tokens - m, lastSeen |-> now]
  PROVE  Accounts(c, n + m, burst, rate) /\ c.lastSeen = now
<1>1. b.tokens \in Int
  BY DEF Accounts, Bucket
<1>2. c.tokens = b.tokens - m /\ c.lastSeen = now /\ c \in Bucket
  BY <1>1 DEF Bucket
<1>3. rate * (now - started) \in Int
  BY Times
<1> QED
  BY <1>1, <1>2, <1>3 DEF Accounts

\* A bucket idle for its TTL is full again: dropping it costs nothing.
LEMMA IdleBucketIsFull ==
  ASSUME now \in Nat, started \in Nat, NEW b, NEW n \in Nat, Accounts(b, n, Burst, Rate),
         ~(now - b.lastSeen <= BucketTTL)
  PROVE  n <= Rate * (now - started)
<1>0. b.tokens \in Int /\ b.lastSeen \in Nat
  BY DEF Accounts, Bucket
<1>1. PICK d \in Int : d = b.lastSeen - started
  BY <1>0
<1>2. PICK e \in Int : e = now - started
  OBVIOUS
<1>3. BucketTTL + d <= e /\ BucketTTL \in Int
  BY <1>0, <1>1, <1>2, Config
<1>4. Rate * (BucketTTL + d) = Rate * BucketTTL + Rate * d /\ Rate * BucketTTL \in Int /\ Rate * d \in Int
  BY <1>1, <1>3, Times, Config
<1>5. Rate * (BucketTTL + d) <= Rate * e /\ Rate * e \in Int
  <2>1. BucketTTL + d \in Int
    BY <1>1, <1>3
  <2> QED
    BY <1>2, <1>3, <2>1, Times, Config
<1>6. n + b.tokens <= Burst + Rate * d /\ b.tokens >= 0
  BY <1>1 DEF Accounts
<1> QED
  BY <1>0, <1>2, <1>4, <1>5, <1>6, Config
\* Allow puts the bucket c of host o back.
PutBack(o, c) ==
    [p \in DOMAIN limiter.buckets \cup {o} |-> IF p = o THEN c ELSE limiter.buckets[p]]

LEMMA PutBackOK ==
  ASSUME LimiterInv, NEW o \in Origins, NEW m \in Nat, NEW c, Accounts(c, m, Burst, Rate),
         NEW ad, NEW g, Accounts(g, ad, GlobalBurst, GlobalRate),
         NEW ch, ch \in [Origins -> Nat], ch[o] = m, \A p \in Origins : p # o => ch[p] = charged[p],
         NEW l, l = [global |-> g, buckets |-> PutBack(o, c)]
  PROVE  LimiterOK(l, ch, ad)
<1>1. l.global = g /\ l.buckets = PutBack(o, c) /\ l = [global |-> l.global, buckets |-> l.buckets]
  OBVIOUS
<1>2. LimiterOK(limiter, charged, admitted)
  BY DEF LimiterInv
<1>3. /\ DOMAIN l.buckets = DOMAIN limiter.buckets \cup {o}
      /\ l.buckets[o] = c
      /\ \A p \in DOMAIN limiter.buckets : p # o => l.buckets[p] = limiter.buckets[p]
  BY <1>1 DEF PutBack
<1>4. DOMAIN l.buckets \subseteq Origins
  BY <1>2, <1>3 DEF LimiterOK
<1>5. ASSUME NEW p \in Origins PROVE HostAccounts(l, p, ch[p])
  <2>1. CASE p = o
    BY <1>3, <2>1 DEF HostAccounts
  <2>2. CASE p # o
    <3>1. HostAccounts(limiter, p, charged[p]) /\ ch[p] = charged[p]
      BY <1>2, <2>2 DEF LimiterOK
    <3> QED
      BY <1>3, <2>2, <3>1 DEF HostAccounts
  <2> QED
    BY <2>1, <2>2
<1> HIDE DEF PutBack
<1> QED
  BY <1>1, <1>4, <1>5 DEF LimiterOK

LEMMA EvictOK ==
  ASSUME now \in Nat, started \in Nat, NEW l, NEW ch \in [Origins -> Nat], NEW ad, LimiterOK(l, ch, ad),
         NEW k, k = [global |-> l.global, buckets |-> Evict(l.buckets)]
  PROVE  LimiterOK(k, ch, ad)
<1>1. k.global = l.global /\ k.buckets = Evict(l.buckets) /\ k = [global |-> k.global, buckets |-> k.buckets]
  OBVIOUS
<1>2. /\ DOMAIN k.buckets = {o \in DOMAIN l.buckets : now - l.buckets[o].lastSeen <= BucketTTL}
      /\ \A o \in DOMAIN k.buckets : k.buckets[o] = l.buckets[o]
  BY <1>1 DEF Evict, RestrictDomain, Restrict
<1>3. DOMAIN k.buckets \subseteq Origins
  BY <1>2 DEF LimiterOK
<1>4. ASSUME NEW o \in Origins PROVE HostAccounts(k, o, ch[o])
  <2>0. HostAccounts(l, o, ch[o]) /\ ch[o] \in Nat
    BY DEF LimiterOK
  <2>1. CASE o \in DOMAIN k.buckets
    BY <1>2, <2>0, <2>1 DEF HostAccounts
  <2>2. CASE o \in DOMAIN l.buckets /\ o \notin DOMAIN k.buckets
    <3>1. Accounts(l.buckets[o], ch[o], Burst, Rate) /\ ~(now - l.buckets[o].lastSeen <= BucketTTL)
      BY <1>2, <2>0, <2>2 DEF HostAccounts
    <3>2. ch[o] <= Rate * (now - started)
      BY <2>0, <3>1, IdleBucketIsFull
    <3> QED
      BY <2>2, <3>2 DEF HostAccounts
  <2>3. CASE o \notin DOMAIN l.buckets
    BY <1>2, <2>0, <2>3 DEF HostAccounts
  <2> QED
    BY <2>1, <2>2, <2>3
<1> QED
  BY <1>1, <1>3, <1>4 DEF LimiterOK

\* Whatever Allow answers, the limiter it leaves accounts for what was let in.
LEMMA AllowOK ==
  ASSUME LimiterInv, NEW o \in Origins, NEW n \in Nat, NEW v, v = Allow(o, n)
  PROVE  \/ v.ok = FALSE /\ LimiterOK(v.limiter, charged, admitted)
         \/ v.ok = TRUE /\ LimiterOK(v.limiter, [charged EXCEPT ![o] = @ + n], admitted + n)
<1>0. /\ now \in Nat /\ started \in Nat /\ started <= now /\ charged \in [Origins -> Nat]
      /\ admitted \in Nat /\ charged[o] \in Nat /\ LimiterOK(limiter, charged, admitted)
  BY DEF LimiterInv
<1> DEFINE g == Refill(limiter.global, GlobalRate, GlobalBurst)
           b == IF o \in DOMAIN limiter.buckets
                   THEN Refill(limiter.buckets[o], Rate, Burst)
                   ELSE [tokens |-> Burst, lastSeen |-> now]
<1>1. Accounts(g, admitted, GlobalBurst, GlobalRate) /\ g.lastSeen = now
  BY <1>0, RefillAccounts, Config DEF LimiterOK
<1>2. Accounts(b, charged[o], Burst, Rate) /\ b.lastSeen = now
  <2>0. HostAccounts(limiter, o, charged[o])
    BY <1>0 DEF LimiterOK
  <2>1. CASE o \in DOMAIN limiter.buckets
    BY <1>0, <2>0, <2>1, RefillAccounts, Config DEF HostAccounts
  <2>2. CASE o \notin DOMAIN limiter.buckets
    <3>1. charged[o] <= Rate * (now - started) /\ b = [tokens |-> Burst, lastSeen |-> now]
      BY <2>0, <2>2 DEF HostAccounts
    <3> HIDE DEF b
    <3> QED
      BY <1>0, <3>1, NewBucketAccounts
  <2> QED
    BY <2>1, <2>2
<1> DEFINE taken == [tokens |-> b.tokens - n, lastSeen |-> now]
           rest == [g EXCEPT !.tokens = @ - n]
<1>3. v = IF g.tokens < n
            THEN [ok |-> FALSE, limiter |-> [limiter EXCEPT !.global = g]]
          ELSE IF b.tokens < n
            THEN [ok |-> FALSE, limiter |-> [global |-> g, buckets |-> PutBack(o, b)]]
          ELSE [ok |-> TRUE, limiter |-> [global |-> rest, buckets |-> Evict(PutBack(o, taken))]]
  BY DEF Allow, PutBack
<1>4. rest = [tokens |-> g.tokens - n, lastSeen |-> now]
  <2> HIDE DEF g
  <2> QED
    BY <1>1 DEF Accounts, Bucket
<1> HIDE DEF g, b
<1>5. CASE g.tokens < n
  <2>1. PICK l : l = [limiter EXCEPT !.global = g]
    OBVIOUS
  <2>2. l.global = g /\ l.buckets = limiter.buckets /\ l = [global |-> l.global, buckets |-> l.buckets]
    BY <1>0, <2>1 DEF LimiterOK
  <2>3. LimiterOK(l, charged, admitted)
    BY <1>0, <1>1, <2>2 DEF LimiterOK, HostAccounts
  <2>4. v = [ok |-> FALSE, limiter |-> l]
    BY <1>3, <1>5, <2>1
  <2> QED
    BY <2>3, <2>4
<1>6. CASE ~(g.tokens < n) /\ b.tokens < n
  <2>1. PICK l : l = [global |-> g, buckets |-> PutBack(o, b)]
    OBVIOUS
  <2>2. LimiterOK(l, charged, admitted)
    BY <1>0, <1>1, <1>2, <2>1, PutBackOK
  <2>3. v = [ok |-> FALSE, limiter |-> l]
    BY <1>3, <1>6, <2>1
  <2> QED
    BY <2>2, <2>3
<1>7. CASE ~(g.tokens < n) /\ ~(b.tokens < n)
  <2>1. PICK ch : ch = [charged EXCEPT ![o] = @ + n]
    OBVIOUS
  <2>2. /\ ch \in [Origins -> Nat] /\ ch[o] = charged[o] + n /\ charged[o] + n \in Nat
        /\ \A p \in Origins : p # o => ch[p] = charged[p]
    BY <1>0, <2>1
  <2>3. Accounts(rest, admitted + n, GlobalBurst, GlobalRate)
    BY <1>0, <1>1, <1>4, <1>7, TakeAccounts, Config
  <2>4. Accounts(taken, charged[o] + n, Burst, Rate)
    BY <1>0, <1>2, <1>7, TakeAccounts, Config
  <2> HIDE DEF rest, taken
  <2>5. PICK l : l = [global |-> rest, buckets |-> PutBack(o, taken)]
    OBVIOUS
  <2>6. LimiterOK(l, ch, admitted + n)
    BY <2>2, <2>3, <2>4, <2>5, PutBackOK
  <2>7. PICK k : k = [global |-> l.global, buckets |-> Evict(l.buckets)]
    OBVIOUS
  <2>8. LimiterOK(k, ch, admitted + n)
    BY <1>0, <2>2, <2>6, <2>7, EvictOK
  <2>9. k = [global |-> rest, buckets |-> Evict(PutBack(o, taken))]
    BY <2>5, <2>7
  <2>10. v = [ok |-> TRUE, limiter |-> k]
    BY <1>3, <1>7, <2>9
  <2> QED
    BY <2>1, <2>8, <2>10
<1> QED
  BY <1>5, <1>6, <1>7
LEMMA NewLimiterOK ==
  ASSUME now \in Nat, started \in Nat, started = now, NEW ch, ch = [o \in Origins |-> 0],
         NEW l, l = NewLimiter
  PROVE  LimiterOK(l, ch, 0)
<1>1. PICK g : g = [tokens |-> GlobalBurst, lastSeen |-> now]
  OBVIOUS
<1>2. l = [global |-> g, buckets |-> <<>>] /\ l.global = g /\ l.buckets = <<>>
  BY <1>1 DEF NewLimiter
<1>3. Rate * (now - started) = 0 /\ GlobalRate * (now - started) = 0
  BY Config
<1>4. Accounts(g, 0, GlobalBurst, GlobalRate)
  BY <1>1, <1>3, Config DEF Accounts, Bucket
<1>5. DOMAIN l.buckets = {}
  BY <1>2
<1>6. \A o \in Origins : HostAccounts(l, o, ch[o])
  BY <1>3, <1>5 DEF HostAccounts
<1> QED
  BY <1>2, <1>4, <1>5, <1>6 DEF LimiterOK

LEMMA LimiterInit == Init => LimiterInv
<1> SUFFICES ASSUME Init PROVE LimiterInv
  OBVIOUS
<1>0. /\ now = 0 /\ started = 0 /\ limiter = NewLimiter /\ charged = [o \in Origins |-> 0]
      /\ admitted = 0 /\ load \in Workloads
  BY DEF Init
<1>1. LimiterOK(limiter, charged, admitted)
  BY <1>0, NewLimiterOK
<1> QED
  BY <1>0, <1>1 DEF LimiterInv

LEMMA LimiterPost ==
  ASSUME LimiterInv, NEW q \in Conns, NEW o \in Origins, Post(q, o) PROVE LimiterInv'
<1>1. PICK b \in load.batches :
         LET verdict == Allow(o, Len(b)) IN
         /\ limiter' = verdict.limiter
         /\ IF verdict.ok
               THEN /\ charged' = [charged EXCEPT ![o] = @ + Len(b)]
                    /\ admitted' = admitted + Len(b)
               ELSE UNCHANGED <<charged, admitted>>
         /\ UNCHANGED <<now, load, started>>
  BY DEF Post
<1>2. PICK v : v = Allow(o, Len(b))
  OBVIOUS
<1>3. /\ limiter' = v.limiter
      /\ \/ v.ok = TRUE /\ charged' = [charged EXCEPT ![o] = @ + Len(b)]
                        /\ admitted' = admitted + Len(b)
         \/ v.ok # TRUE /\ charged' = charged /\ admitted' = admitted
  BY <1>1, <1>2
<1>4. Len(b) \in Nat
  BY WorkloadAssumption, LenProperties DEF LimiterInv
<1>5. LimiterOK(limiter', charged', admitted')
  BY <1>2, <1>3, <1>4, AllowOK
<1>6. charged' \in [Origins -> Nat] /\ admitted' \in Nat
  <2>0. charged \in [Origins -> Nat] /\ admitted \in Nat
    BY DEF LimiterInv
  <2>1. PICK n \in Nat : n = Len(b)
    BY <1>4
  <2>2. CASE charged' = [charged EXCEPT ![o] = @ + n] /\ admitted' = admitted + n
    BY <2>0, <2>2
  <2>3. CASE charged' = charged /\ admitted' = admitted
    BY <2>0, <2>3
  <2> QED
    BY <1>3, <2>1, <2>2, <2>3
<1>7. (LimiterOK(limiter, charged, admitted))'
  BY <1>1, <1>5 DEF LimiterOK, HostAccounts, Accounts
<1> QED
  BY <1>1, <1>6, <1>7 DEF LimiterInv

LEMMA LimiterRestart == ASSUME LimiterInv, Restart PROVE LimiterInv'
<1>1. /\ now' = now /\ started' = now /\ load' = load
      /\ limiter' = NewLimiter /\ charged' = [o \in Origins |-> 0] /\ admitted' = 0
      /\ now \in Nat
  BY DEF Restart, LimiterInv
<1>2. PICK g : g = [tokens |-> GlobalBurst, lastSeen |-> now]
  OBVIOUS
<1>3. limiter' = [global |-> g, buckets |-> <<>>] /\ limiter'.global = g /\ limiter'.buckets = <<>>
  BY <1>1, <1>2 DEF NewLimiter
<1>4. Rate * (now' - started') = 0 /\ GlobalRate * (now' - started') = 0
  BY <1>1, Config
<1>5. Accounts(limiter.global, admitted, GlobalBurst, GlobalRate)'
  <2>1. /\ g \in Bucket /\ g.tokens = GlobalBurst /\ g.lastSeen = now'
    BY <1>1, <1>2, Config DEF Bucket
  <2>2. GlobalRate * (g.lastSeen - started') = 0
    BY <1>4, <2>1
  <2> QED
    BY <1>1, <1>3, <2>1, <2>2, Config DEF Accounts
<1>6. DOMAIN limiter'.buckets = {}
  BY <1>3
<1>7. ASSUME NEW o \in Origins PROVE HostAccounts(limiter, o, charged[o])'
  BY <1>1, <1>4, <1>6 DEF HostAccounts
<1>8. LimiterOK(limiter, charged, admitted)'
  BY <1>3, <1>5, <1>6, <1>7 DEF LimiterOK
<1> QED
  BY <1>1, <1>8 DEF LimiterInv

LEMMA LimiterTick == ASSUME LimiterInv, Tick PROVE LimiterInv'
<1>1. /\ now' = now + 1 /\ UNCHANGED <<limiter, load, started, charged, admitted>>
      /\ now \in Nat /\ started \in Nat /\ started <= now
  BY DEF Tick, LimiterInv
<1>2. ASSUME NEW b, NEW n, NEW burst, NEW rate, Accounts(b, n, burst, rate)
      PROVE  /\ b \in Bucket /\ started <= b.lastSeen /\ b.lastSeen <= now' /\ b.tokens >= 0
             /\ n + b.tokens <= burst + rate * (b.lastSeen - started)
  <2>1. b.lastSeen \in Nat /\ b.lastSeen <= now
    BY <1>2 DEF Accounts, Bucket
  <2>2. b.lastSeen <= now'
    BY <1>1, <2>1
  <2> QED
    BY <1>2, <2>2 DEF Accounts
<1>3. Accounts(limiter.global, admitted, GlobalBurst, GlobalRate)'
  BY <1>1, <1>2 DEF LimiterInv, LimiterOK, Accounts
<1>4. ASSUME NEW o \in Origins PROVE HostAccounts(limiter, o, charged[o])'
  <2>0. HostAccounts(limiter, o, charged[o]) /\ charged[o] \in Nat
    BY DEF LimiterInv, LimiterOK
  <2>1. CASE o \in DOMAIN limiter.buckets
    <3>1. Accounts(limiter.buckets[o], charged[o], Burst, Rate)'
      BY <1>1, <1>2, <2>0, <2>1 DEF HostAccounts, Accounts
    <3> QED
      BY <1>1, <2>1, <3>1 DEF HostAccounts
  <2>2. CASE o \notin DOMAIN limiter.buckets
    <3>1. PICK x \in Int : x = now - started
      BY <1>1
    <3>2. now' - started' = x + 1
      BY <1>1, <3>1
    <3>3. Rate * (x + 1) >= Rate * x /\ Rate * (x + 1) \in Int /\ Rate * x \in Int
      BY Times, Config
    <3>4. charged[o] <= Rate * (x + 1)
      BY <2>0, <2>2, <3>1, <3>3 DEF HostAccounts
    <3> QED
      BY <1>1, <2>2, <3>2, <3>4 DEF HostAccounts
  <2> QED
    BY <2>1, <2>2
<1>5. LimiterOK(limiter, charged, admitted)'
  BY <1>1, <1>3, <1>4 DEF LimiterInv, LimiterOK
<1> QED
  BY <1>1, <1>5 DEF LimiterInv

LEMMA LimiterStep == ASSUME LimiterInv, [Next]_vars PROVE LimiterInv'
<1>1. CASE UNCHANGED <<now, limiter, load, started, charged, admitted>>
  BY <1>1 DEF LimiterInv, LimiterOK, HostAccounts, Accounts
<1> QED
  BY <1>1, LimiterPost, LimiterRestart, LimiterTick
     DEF Next, Screen, Write, HandleHealth, Prune, vars

\* What was charged is within the burst and the rate, by the account of the bucket.
LEMMA AccountBounds ==
  ASSUME now \in Nat, started \in Nat, NEW b, NEW n \in Nat, NEW burst \in Nat, NEW rate \in Nat,
         Accounts(b, n, burst, rate)
  PROVE  n <= burst + rate * (now - started)
<1>1. PICK x \in Int, y \in Int : x = b.lastSeen - started /\ y = now - started
  BY DEF Accounts, Bucket
<1>2. x <= y /\ b.tokens \in Int /\ b.tokens >= 0
  <2>1. b.lastSeen \in Nat /\ b.lastSeen <= now /\ b.tokens \in Int /\ b.tokens >= 0
    BY DEF Accounts, Bucket
  <2> QED
    BY <1>1, <2>1
<1>3. rate * x <= rate * y /\ rate * x \in Int /\ rate * y \in Int
  BY <1>2, Times
<1>4. n + b.tokens <= burst + rate * x
  BY <1>1 DEF Accounts
<1> QED
  BY <1>1, <1>2, <1>3, <1>4

\* However requests interleave with refills, refusals and evictions, no host and no crowd of
\* hosts gets more past the limiter than its burst and its rate allow since the start, for all
\* rates and bursts for which a bucket idle for its TTL is full again (RateLimiter.Allow).
THEOREM IntakeBounded == Spec => []IntakeIsBounded
<1>1. Spec => []LimiterInv
  BY LimiterInit, LimiterStep, PTL DEF Spec
<1>2. LimiterInv => IntakeIsBounded
  <2> SUFFICES ASSUME LimiterInv PROVE IntakeIsBounded
    OBVIOUS
  <2>0. /\ now \in Nat /\ started \in Nat /\ started <= now /\ charged \in [Origins -> Nat]
        /\ admitted \in Nat /\ LimiterOK(limiter, charged, admitted)
    BY DEF LimiterInv
  <2>1. ASSUME NEW o \in Origins PROVE charged[o] <= Burst + Rate * (now - started)
    <3>0. HostAccounts(limiter, o, charged[o]) /\ charged[o] \in Nat
      BY <2>0 DEF LimiterOK
    <3>1. CASE o \in DOMAIN limiter.buckets
      BY <2>0, <3>0, <3>1, AccountBounds, Config DEF HostAccounts
    <3>2. CASE o \notin DOMAIN limiter.buckets
      <4>1. charged[o] <= Rate * (now - started) /\ Rate * (now - started) \in Int
        BY <2>0, <3>0, <3>2, Times, Config DEF HostAccounts
      <4> QED
        BY <3>0, <4>1, Config
    <3> QED
      BY <3>1, <3>2
  <2>2. admitted <= GlobalBurst + GlobalRate * (now - started)
    BY <2>0, AccountBounds, Config DEF LimiterOK
  <2> QED
    BY <2>1, <2>2 DEF IntakeIsBounded
<1> QED
  BY <1>1, <1>2, PTL
-----------------------------------------------------------------------------
(* The rows.                                                               *)

\* What the posted signals can become, at whatever time their request came in.
Kept == {Sanitize(m, t) : m \in posted, t \in Nat}

Request == [pc : {"idle", "screen", "write"}, at : Nat, batch : Seq(posted), accepted : Seq(Kept)]

\* A stored signal has one row, and no other row its id.
OneRowPerId ==
    /\ signals = [r \in DOMAIN signals |-> 1]
    /\ \A r, s \in DOMAIN signals : r.id = s.id => r = s

RowInv ==
    /\ now \in Nat
    /\ load \in Workloads
    /\ posted \subseteq RawSignals
    /\ IsFiniteSet(posted)
    /\ conn \in [Conns -> Request]
    /\ \A q \in Conns : conn[q].pc = "screen" => conn[q].batch # <<>>
    /\ DOMAIN signals \subseteq Kept
    /\ OneRowPerId

LEMMA IdleIsRequest == Idle \in Request /\ Idle.pc = "idle"
  BY EmptySeq DEF Idle, Request

LEMMA RowInit == Init => RowInv
<1> SUFFICES ASSUME Init PROVE RowInv
  OBVIOUS
<1>1. conn \in [Conns -> Request] /\ \A q \in Conns : conn[q].pc = "idle"
  BY IdleIsRequest DEF Init
<1>2. DOMAIN signals = {} /\ signals = [r \in DOMAIN signals |-> 1]
  BY DEF Init, EmptyBag, SetToBag
<1>3. IsFiniteSet(posted) /\ posted = {}
  BY FS_EmptySet DEF Init
<1> QED
  BY <1>1, <1>2, <1>3 DEF Init, RowInv, OneRowPerId

LEMMA BatchSet ==
  ASSUME NEW S, NEW b \in Seq(S)
  PROVE  ToSet(b) \subseteq S /\ IsFiniteSet(ToSet(b)) /\ b \in Seq(ToSet(b))
<1>1. PICK n \in Nat : b \in [1..n -> S] /\ n = Len(b)
  BY LenProperties
<1>2. ToSet(b) \subseteq S
  BY <1>1 DEF ToSet
<1>3. b \in Surjection(1..n, ToSet(b))
  BY <1>1 DEF Surjection, ToSet
<1>4. IsFiniteSet(ToSet(b))
  BY <1>3, FS_Interval, FS_Surjection
<1>5. b \in [1..n -> ToSet(b)]
  BY <1>1 DEF ToSet
<1> QED
  BY <1>2, <1>4, <1>5, SeqDef

LEMMA RowFrame ==
  ASSUME RowInv, UNCHANGED <<now, load, posted, conn, signals>> PROVE RowInv'
<1>1. Request' = Request /\ Kept' = Kept
  BY DEF Request, Kept
<1> QED
  BY <1>1 DEF RowInv, OneRowPerId

LEMMA RowPost ==
  ASSUME RowInv, NEW q \in Conns, NEW o \in Origins, Post(q, o) PROVE RowInv'
<1>1. PICK b \in load.batches :
         /\ b # <<>>
         /\ \/ /\ conn' = [conn EXCEPT ![q] = [pc |-> "screen", at |-> now, batch |-> b, accepted |-> <<>>]]
               /\ posted' = posted \cup ToSet(b)
            \/ UNCHANGED <<conn, posted>>
         /\ UNCHANGED <<now, load, signals>>
  BY DEF Post
<1>2. CASE UNCHANGED <<conn, posted>>
  BY <1>1, <1>2, RowFrame
<1>3. CASE /\ conn' = [conn EXCEPT ![q] = [pc |-> "screen", at |-> now, batch |-> b, accepted |-> <<>>]]
           /\ posted' = posted \cup ToSet(b)
  <2>1. b \in Seq(RawSignals)
    BY WorkloadAssumption DEF RowInv
  <2>2. ToSet(b) \subseteq RawSignals /\ IsFiniteSet(ToSet(b)) /\ b \in Seq(ToSet(b))
    BY <2>1, BatchSet
  <2>3. posted' \subseteq RawSignals /\ IsFiniteSet(posted')
    BY <1>3, <2>2, FS_Union DEF RowInv
  <2>4. posted \subseteq posted' /\ Kept \subseteq Kept' /\ b \in Seq(posted')
    BY <1>3, <2>2, SeqMonotonic DEF Kept
  <2>5. PICK r : r = [pc |-> "screen", at |-> now, batch |-> b, accepted |-> <<>>]
    OBVIOUS
  <2>6. r \in Request' /\ r.batch # <<>>
    <3>1. <<>> \in Seq(Kept')
      BY EmptySeq
    <3> QED
      BY <1>1, <2>4, <2>5, <3>1 DEF Request, RowInv
  <2>7. ASSUME NEW x \in Request PROVE x \in Request'
    <3>1. x.batch \in Seq(posted') /\ x.accepted \in Seq(Kept')
      BY <2>4, SeqMonotonic DEF Request
    <3> QED
      BY <3>1 DEF Request
  <2>8. /\ conn' \in [Conns -> Request']
        /\ \A p \in Conns : conn'[p].pc = "screen" => conn'[p].batch # <<>>
    <3>1. conn \in [Conns -> Request] /\ conn' = [conn EXCEPT ![q] = r]
      BY <1>3, <2>5 DEF RowInv
    <3>2. \A p \in Conns : conn'[p] = r \/ conn'[p] = conn[p]
      BY <3>1
    <3>3. conn' \in [Conns -> Request']
      BY <2>6, <2>7, <3>1
    <3> QED
      BY <2>6, <3>2, <3>3 DEF RowInv
  <2> QED
    BY <1>1, <2>3, <2>4, <2>8 DEF RowInv, OneRowPerId
<1> QED
  BY <1>1, <1>2, <1>3

LEMMA RowScreen == ASSUME RowInv, NEW q \in Conns, Screen(q) PROVE RowInv'
<1>1. PICK c : c = conn[q]
  OBVIOUS
<1>2. c \in Request /\ c.batch # <<>> /\ c.batch \in Seq(posted) /\ c.at \in Nat /\ c.accepted \in Seq(Kept)
  BY <1>1 DEF RowInv, Screen, Request
<1>3. PICK r : r = Head(c.batch)
  OBVIOUS
<1>4. r \in posted /\ Tail(c.batch) \in Seq(posted)
  BY <1>2, <1>3, HeadTailProperties
<1>5. Sanitize(r, c.at) \in Kept
  BY <1>2, <1>4 DEF Kept
<1>6. Append(c.accepted, Sanitize(r, c.at)) \in Seq(Kept)
  BY <1>2, <1>5, AppendProperties
<1>7. PICK accepted \in Seq(Kept) :
         conn' = [conn EXCEPT ![q] =
                    IF Tail(c.batch) # <<>> THEN [@ EXCEPT !.batch = Tail(c.batch), !.accepted = accepted]
                    ELSE IF accepted # <<>> THEN [@ EXCEPT !.pc = "write", !.batch = <<>>, !.accepted = accepted]
                    ELSE Idle]
  <2>1. PICK accepted : accepted = IF Acceptable(r, c.at) /\ Fresh(r.id)
                                     THEN Append(c.accepted, Sanitize(r, c.at)) ELSE c.accepted
    OBVIOUS
  <2>2. accepted \in Seq(Kept)
    BY <1>2, <1>6, <2>1
  <2> QED
    BY <1>1, <1>3, <2>1, <2>2 DEF Screen
<1>8. PICK d : d = IF Tail(c.batch) # <<>> THEN [c EXCEPT !.batch = Tail(c.batch), !.accepted = accepted]
                   ELSE IF accepted # <<>> THEN [c EXCEPT !.pc = "write", !.batch = <<>>, !.accepted = accepted]
                   ELSE Idle
  OBVIOUS
<1>9. d \in Request /\ (d.pc = "screen" => d.batch # <<>>)
  <2>1. CASE Tail(c.batch) # <<>>
    <3>1. d = [c EXCEPT !.batch = Tail(c.batch), !.accepted = accepted]
      BY <1>8, <2>1
    <3>2. d.batch = Tail(c.batch)
      BY <1>2, <3>1 DEF Request
    <3> QED
      BY <1>2, <1>4, <2>1, <3>1, <3>2 DEF Request
  <2>2. CASE Tail(c.batch) = <<>> /\ accepted # <<>>
    <3>1. d = [c EXCEPT !.pc = "write", !.batch = <<>>, !.accepted = accepted]
      BY <1>8, <2>2
    <3>2. <<>> \in Seq(posted)
      BY EmptySeq
    <3>3. d.pc = "write"
      BY <1>2, <3>1 DEF Request
    <3>4. d \in Request
      BY <1>2, <3>1, <3>2 DEF Request
    <3> QED
      BY <3>3, <3>4
  <2>3. CASE Tail(c.batch) = <<>> /\ accepted = <<>>
    BY <1>8, <2>3, IdleIsRequest
  <2> QED
    BY <2>1, <2>2, <2>3
<1>10. conn' = [conn EXCEPT ![q] = d] /\ conn \in [Conns -> Request]
  BY <1>1, <1>7, <1>8 DEF RowInv
<1>11. conn' \in [Conns -> Request] /\ \A p \in Conns : conn'[p] = d \/ conn'[p] = conn[p]
  BY <1>9, <1>10
<1>12. UNCHANGED <<now, load, posted, signals>>
  BY DEF Screen
<1>13. Request' = Request /\ Kept' = Kept
  BY <1>12 DEF Request, Kept
<1> QED
  BY <1>9, <1>11, <1>12, <1>13 DEF RowInv, OneRowPerId
\* WriteSignals: the rows that go in are new, one to an id.
LEMMA InsertKeepsOneRow ==
  ASSUME OneRowPerId, NEW rows \in Seq(Kept), NEW bag, bag = Insert(signals, rows)
  PROVE  /\ DOMAIN bag \subseteq DOMAIN signals \cup Kept
         /\ bag = [r \in DOMAIN bag |-> 1]
         /\ \A r, s \in DOMAIN bag : r.id = s.id => r = s
<1>0. PICK n \in Nat : DOMAIN rows = 1..n /\ \A i \in 1..n : rows[i] \in Kept
  BY LenProperties
<1> DEFINE stored(i) == \E s \in DOMAIN signals : s.id = rows[i].id
           repeated(i) == \E j \in 1..(i - 1) : rows[j].id = rows[i].id
           new == {rows[i] : i \in {i \in DOMAIN rows : ~stored(i) /\ ~repeated(i)}}
<1>1. bag = signals (+) SetToBag(new)
  BY DEF Insert
<1>2. ASSUME NEW x \in new
      PROVE  x \in Kept /\ \A s \in DOMAIN signals : s.id # x.id
  BY <1>0
<1>3. ASSUME NEW x \in new, NEW y \in new, x.id = y.id PROVE x = y
  <2>1. PICK i \in 1..n : x = rows[i] /\ ~repeated(i)
    BY <1>0
  <2>2. PICK j \in 1..n : y = rows[j] /\ ~repeated(j)
    BY <1>0
  <2>3. ~(i < j)
    BY <1>3, <2>1, <2>2
  <2>4. ~(j < i)
    BY <1>3, <2>1, <2>2
  <2> QED
    BY <2>1, <2>2, <2>3, <2>4
<1> HIDE DEF new
<1>4. DOMAIN bag = DOMAIN signals \cup new
  BY <1>1 DEF (+), SetToBag
<1>5. ASSUME NEW r \in DOMAIN bag PROVE bag[r] = 1
  <2>1. CASE r \in DOMAIN signals
    <3>1. r \notin new /\ signals[r] = 1
      BY <1>2, <2>1 DEF OneRowPerId
    <3> QED
      BY <1>1, <2>1, <3>1 DEF (+), SetToBag
  <2>2. CASE r \notin DOMAIN signals
    BY <1>1, <1>4, <2>2 DEF (+), SetToBag
  <2> QED
    BY <2>1, <2>2
<1>6. bag = [r \in DOMAIN bag |-> bag[r]]
  BY <1>1 DEF (+)
<1>7. bag = [r \in DOMAIN bag |-> 1]
  BY <1>5, <1>6
<1>8. ASSUME NEW r \in DOMAIN bag, NEW s \in DOMAIN bag, r.id = s.id PROVE r = s
  BY <1>2, <1>3, <1>4, <1>8 DEF OneRowPerId
<1> QED
  BY <1>2, <1>4, <1>7, <1>8

LEMMA RowWrite == ASSUME RowInv, NEW q \in Conns, Write(q) PROVE RowInv'
<1>1. /\ conn' = [conn EXCEPT ![q] = Idle] /\ UNCHANGED <<now, load, posted>>
      /\ signals' = Insert(signals, conn[q].accepted) \/ signals' = signals
  BY DEF Write
<1>2. Request' = Request /\ Kept' = Kept
  BY <1>1 DEF Request, Kept
<1>3. conn[q].accepted \in Seq(Kept)
  BY DEF RowInv, Request
<1>4. /\ conn' \in [Conns -> Request]
      /\ \A p \in Conns : conn'[p] = Idle \/ conn'[p] = conn[p]
  BY <1>1, IdleIsRequest DEF RowInv
<1>5. \A p \in Conns : conn'[p].pc = "screen" => conn'[p].batch # <<>>
  BY <1>4, IdleIsRequest DEF RowInv
<1>6. /\ DOMAIN signals' \subseteq DOMAIN signals \cup Kept
      /\ signals' = [r \in DOMAIN signals' |-> 1]
      /\ \A r, s \in DOMAIN signals' : r.id = s.id => r = s
  <2>1. CASE signals' = signals
    BY <2>1 DEF RowInv, OneRowPerId
  <2>2. CASE signals' = Insert(signals, conn[q].accepted)
    BY <1>3, <2>2, InsertKeepsOneRow DEF RowInv
  <2> QED
    BY <1>1, <2>1, <2>2
<1> QED
  BY <1>1, <1>2, <1>4, <1>5, <1>6 DEF RowInv, OneRowPerId

LEMMA RowPrune == ASSUME RowInv, Prune PROVE RowInv'
<1>1. /\ signals' = RestrictDomain(signals, LAMBDA r : ~Old(r))
      /\ UNCHANGED <<now, load, posted, conn>>
  BY DEF Prune
<1>2. Request' = Request /\ Kept' = Kept
  BY <1>1 DEF Request, Kept
<1>3. DOMAIN signals' \subseteq DOMAIN signals /\ signals' = [r \in DOMAIN signals' |-> signals[r]]
  BY <1>1 DEF RestrictDomain, Restrict
<1>4. \A r \in DOMAIN signals' : signals[r] = 1
  BY <1>3 DEF RowInv, OneRowPerId
<1>5. signals' = [r \in DOMAIN signals' |-> 1]
  BY <1>3, <1>4
<1> QED
  BY <1>1, <1>2, <1>3, <1>5 DEF RowInv, OneRowPerId

LEMMA RowRestart == ASSUME RowInv, Restart PROVE RowInv'
<1>1. conn' = [q \in Conns |-> Idle] /\ UNCHANGED <<now, load, posted, signals>>
  BY DEF Restart
<1>2. Request' = Request /\ Kept' = Kept
  BY <1>1 DEF Request, Kept
<1>3. conn' \in [Conns -> Request] /\ \A q \in Conns : conn'[q].pc = "idle"
  BY <1>1, IdleIsRequest
<1> QED
  BY <1>1, <1>2, <1>3 DEF RowInv, OneRowPerId

LEMMA RowTick == ASSUME RowInv, Tick PROVE RowInv'
<1>1. now' \in Nat /\ UNCHANGED <<load, posted, conn, signals>>
  BY DEF Tick, RowInv
<1>2. Request' = Request /\ Kept' = Kept
  BY <1>1 DEF Request, Kept
<1> QED
  BY <1>1, <1>2 DEF RowInv, OneRowPerId

LEMMA RowStep == ASSUME RowInv, [Next]_vars PROVE RowInv'
<1>1. ASSUME HandleHealth \/ UNCHANGED vars PROVE RowInv'
  BY <1>1, RowFrame DEF HandleHealth, vars
<1> QED
  BY <1>1, RowPost, RowScreen, RowWrite, RowPrune, RowRestart, RowTick DEF Next

\* The types of the requests, and the rows as posted signals with one row to an id, at all
\* times: across failed writes, lost answers, retries, expired ids and restarts.
THEOREM RowInvariant == Spec => []RowInv
  BY RowInit, RowStep, PTL DEF Spec

-----------------------------------------------------------------------------
(* The verdict.                                                            *)

LEMMA VerdictDead ==
  ASSUME NEW blocked, NEW degraded, NEW ok, Verdict(blocked, degraded, ok) = "dead"
  PROVE  blocked >= MinBlockedSources
  BY DEF Verdict

LEMMA MaxOutcome ==
  ASSUME NEW S, S \subseteq {0, 1, 2}, S # {} PROVE Max(S) \in S
<1>1. \E x \in S : \A y \in S : x >= y
  <2>1. CASE 2 \in S
    BY <2>1
  <2>2. CASE 2 \notin S /\ 1 \in S
    BY <2>2
  <2>3. CASE 2 \notin S /\ 1 \notin S
    <3>1. S = {0}
      BY <2>3
    <3> QED
      BY <3>1
  <2> QED
    BY <2>1, <2>2, <2>3
<1> QED
  BY <1>1 DEF Max

LEMMA Outcomes ==
  ASSUME NEW type PROVE Classify(type) \in {0, 1, 2} /\ (Classify(type) = 2 => type \notin {"ok", "throttle"})
  BY DEF Classify

\* A source whose worst outcome is a block has reported a block.
LEMMA WorstWasReported ==
  ASSUME NEW rows, NEW r0 \in rows, NEW src, src = SourceKey(r0), Worst(rows, src) = 2
  PROVE  \E r \in rows : SourceKey(r) = src /\ r.type \notin {"ok", "throttle"}
<1> DEFINE S == {Classify(r.type) : r \in {r \in rows : SourceKey(r) = src}}
<1>1. S \subseteq {0, 1, 2} /\ S # {}
  BY Outcomes
<1>2. Max(S) = 2
  BY DEF Worst
<1> HIDE DEF S
<1>3. 2 \in S
  BY <1>1, <1>2, MaxOutcome
<1>4. PICK r \in rows : SourceKey(r) = src /\ Classify(r.type) = 2
  BY <1>3 DEF S
<1> QED
  BY <1>4, Outcomes

\* The source of a row is the source of the signal, whenever it is sanitised.
LEMMA SourceIsTimeless ==
  ASSUME NEW m, NEW t, NEW u PROVE SourceKey(Sanitize(m, t)) = SourceKey(Sanitize(m, u))
  BY DEF SourceKey, Sanitize

LEMMA RowsAgree == ASSUME RowInv PROVE DeadMeansAgreed
<1> DEFINE current(m) == m.observed = Unset \/ InWindow(ToMinute(m.observed))
           speaking(k) == {m \in posted : /\ <<GeoCode[m.region], m.transport>> = k
                                          /\ m.type \notin {"ok", "throttle"}
                                          /\ current(m)}
           voices(k) == {SourceKey(Sanitize(m, now)) : m \in speaking(k)}
<1> SUFFICES ASSUME NEW k \in Keys, Aggregate(k).verdict = "dead"
             PROVE  Cardinality(voices(k)) >= MinBlockedSources
  BY DEF DeadMeansAgreed
<1>1. PICK rows : rows = Rows(k)
  OBVIOUS
<1> DEFINE blocked == {src \in {SourceKey(r) : r \in rows} : Worst(rows, src) = 2}
<1>2. Cardinality(blocked) >= MinBlockedSources
  <2>1. Verdict(Tally(rows, 2), Tally(rows, 1), Tally(rows, 0)) = "dead"
    BY <1>1 DEF Aggregate
  <2>2. Tally(rows, 2) >= MinBlockedSources
    BY <2>1, VerdictDead
  <2> QED
    BY <2>2 DEF Tally
<1>3. ASSUME NEW src \in blocked PROVE src \in voices(k)
  <2>1. PICK r \in rows : SourceKey(r) = src /\ r.type \notin {"ok", "throttle"}
    BY <1>3, WorstWasReported
  <2>2. r \in DOMAIN signals /\ InWindow(r.observed) /\ <<r.region, r.transport>> = k
    BY <1>1, <2>1 DEF Rows, Current, SignalsSince
  <2>3. PICK m \in posted, t \in Nat : r = Sanitize(m, t)
    BY <2>2 DEF RowInv, Kept
  <2>4. /\ r.region = GeoCode[m.region] /\ r.transport = m.transport /\ r.type = m.type
        /\ r.observed = ToMinute(ObservedAt(m, t))
    BY <2>3 DEF Sanitize
  <2>5. current(m)
    BY <2>2, <2>4 DEF ObservedAt
  <2>6. m \in speaking(k)
    BY <2>1, <2>2, <2>4, <2>5
  <2>7. src = SourceKey(Sanitize(m, now))
    BY <2>1, <2>3, SourceIsTimeless
  <2> QED
    BY <2>6, <2>7
<1>4. IsFiniteSet(voices(k))
  <2>1. IsFiniteSet(speaking(k))
    BY FS_Subset DEF RowInv
  <2>2. [m \in speaking(k) |-> SourceKey(Sanitize(m, now))] \in Surjection(speaking(k), voices(k))
    BY DEF Surjection
  <2> HIDE DEF speaking, voices
  <2> QED
    BY <2>1, <2>2, FS_Surjection
<1> HIDE DEF blocked, voices
<1>5. Cardinality(blocked) <= Cardinality(voices(k)) /\ IsFiniteSet(blocked)
  BY <1>3, <1>4, FS_Subset
<1>6. Cardinality(blocked) \in Nat /\ Cardinality(voices(k)) \in Nat
  BY <1>4, <1>5, FS_CardinalityType
<1> QED
  BY <1>2, <1>5, <1>6, Config DEF voices

\* A transport is called dead in a region only when MinBlockedSources different networks have
\* reported it blocked there for the current window, for every workload, every threshold and
\* every interleaving of requests, writes, pruning and restarts (applyVerdict, tally, sourceKey).
THEOREM DeadIsAgreed == Spec => []DeadMeansAgreed
<1>1. RowInv => DeadMeansAgreed
  BY RowsAgree
<1> QED
  BY <1>1, RowInvariant, PTL
-----------------------------------------------------------------------------
(* The count.                                                              *)

\* g adds up the weights w over the subsets of S.
AddsUp(g, w, S) ==
    /\ g \in [SUBSET S -> Nat]
    /\ g[{}] = 0
    /\ \A s \in SUBSET S : \A x \in s : g[s] = g[s \ {x}] + w[x]

\* A function that adds up like the fold is the fold's value: the least set on which they
\* differed would differ from itself without one of its elements.
LEMMA SumIs ==
  ASSUME NEW S, IsFiniteSet(S), NEW w, NEW g, AddsUp(g, w, S) PROVE SumOver(w, S) = g[S]
<1> DEFINE pick(s) == CHOOSE x \in s : TRUE
           Sums(f) == f = [s \in SUBSET S |-> IF s = {} THEN 0 ELSE f[s \ {pick(s)}] + w[pick(s)]]
           iter == CHOOSE f : Sums(f)
<1>1. SumOver(w, S) = iter[S]
  BY DEF SumOver, FoldSet, MapThenFoldSet
<1>2. \A s \in SUBSET S : s # {} => pick(s) \in s
  OBVIOUS
<1> HIDE DEF pick
<1>3. Sums(g)
  <2>1. \A s \in SUBSET S : g[s] = IF s = {} THEN 0 ELSE g[s \ {pick(s)}] + w[pick(s)]
    BY <1>2 DEF AddsUp
  <2> QED
    BY <2>1 DEF AddsUp
<1>4. Sums(iter)
  <2> HIDE DEF Sums
  <2> QED
    BY <1>3
<1> HIDE DEF iter
<1>5. \A s \in SUBSET S : iter[s] = IF s = {} THEN 0 ELSE iter[s \ {pick(s)}] + w[pick(s)]
  BY <1>4
<1> DEFINE Differ == {s \in SUBSET S : iter[s] # g[s]}
<1>6. Differ = {}
  <2> SUFFICES ASSUME Differ # {} PROVE FALSE
    OBVIOUS
  <2>1. IsWellFoundedOn(StrictSubsetOrdering(S), SUBSET S)
    <3>1. FiniteSubsetsOf(S) = SUBSET S
      BY FS_FiniteSubsetsOfFinite
    <3>2. IsWellFoundedOn(StrictSubsetOrdering(S), FiniteSubsetsOf(S))
      BY FS_StrictSubsetOrderingWellFounded
    <3> QED
      BY <3>1, <3>2
  <2>2. PICK s \in Differ : \A t \in Differ : <<t, s>> \notin StrictSubsetOrdering(S)
    <3>1. Differ \subseteq SUBSET S
      OBVIOUS
    <3> HIDE DEF Differ
    <3> QED
      BY <2>1, <3>1, WFMin
  <2>3. s \in SUBSET S /\ iter[s] # g[s]
    OBVIOUS
  <2>4. s # {}
    BY <1>5, <2>3 DEF AddsUp
  <2>5. PICK t : t = s \ {pick(s)}
    OBVIOUS
  <2>6. t \in SUBSET S /\ t \subseteq s /\ t # s
    BY <1>2, <2>3, <2>4, <2>5
  <2>7. <<t, s>> \in StrictSubsetOrdering(S)
    BY <2>3, <2>6 DEF StrictSubsetOrdering
  <2>8. iter[t] = g[t]
    BY <2>2, <2>6, <2>7
  <2> QED
    BY <1>2, <1>5, <2>3, <2>4, <2>5, <2>8 DEF AddsUp
<1> QED
  BY <1>1, <1>6
\* The total of a group is the number of its rows.
LEMMA TotalIsCardinality ==
  ASSUME OneRowPerId, NEW key, IsFiniteSet(Rows(key))
  PROVE  Aggregate(key).total = Cardinality(Rows(key))
<1>1. PICK rows : rows = Rows(key)
  OBVIOUS
<1>2. IsFiniteSet(rows) /\ \A r \in rows : signals[r] = 1
  BY <1>1 DEF Rows, Current, SignalsSince, OneRowPerId
<1>3. PICK g : g = [s \in SUBSET rows |-> Cardinality(s)]
  OBVIOUS
<1>4. \A s \in SUBSET rows : g[s] = Cardinality(s)
  BY <1>3
<1>5. g \in [SUBSET rows -> Nat]
  <2>1. \A s \in SUBSET rows : Cardinality(s) \in Nat
    BY <1>2, FS_Subset, FS_CardinalityType
  <2> QED
    BY <1>3, <2>1
<1>6. g[{}] = 0
  BY <1>4, FS_EmptySet
<1>7. ASSUME NEW s \in SUBSET rows, NEW x \in s PROVE g[s] = g[s \ {x}] + signals[x]
  <2>1. IsFiniteSet(s)
    BY <1>2, FS_Subset
  <2>2. Cardinality(s) \in Nat /\ Cardinality(s \ {x}) = Cardinality(s) - 1
    BY <2>1, FS_CardinalityType, FS_RemoveElement
  <2>3. g[s] = Cardinality(s) /\ g[s \ {x}] = Cardinality(s \ {x})
    BY <1>4
  <2> QED
    BY <1>2, <2>2, <2>3
<1>8. AddsUp(g, signals, rows)
  BY <1>5, <1>6, <1>7 DEF AddsUp
<1>9. SumOver(signals, rows) = g[rows]
  BY <1>2, <1>8, SumIs
<1> QED
  BY <1>1, <1>4, <1>9 DEF Aggregate

\* Together the groups count every current row once.
LEMMA TotalsAreRows ==
  ASSUME OneRowPerId, IsFiniteSet(Current), NEW total, total = [k \in Keys |-> Aggregate(k).total]
  PROVE  SumOver(total, Keys) = Cardinality(Current)
<1> DEFINE key(r) == <<r.region, r.transport>>
           under(s) == {r \in Current : key(r) \in s}
<1>1. IsFiniteSet(Keys)
  <2>1. [r \in Current |-> key(r)] \in Surjection(Current, Keys)
    BY DEF Keys, Surjection
  <2> HIDE DEF key
  <2> QED
    BY <2>1, FS_Surjection
<1>2. PICK g : g = [s \in SUBSET Keys |-> Cardinality(under(s))]
  OBVIOUS
<1> HIDE DEF under
<1>3. \A s \in SUBSET Keys : g[s] = Cardinality(under(s))
  BY <1>2
<1>4. g \in [SUBSET Keys -> Nat]
  <2>1. \A s : under(s) \in SUBSET Current
    BY DEF under
  <2>2. \A s : Cardinality(under(s)) \in Nat
    BY <2>1, FS_Subset, FS_CardinalityType
  <2> QED
    BY <1>2, <2>2
<1>5. g[{}] = 0
  <2>1. under({}) = {}
    BY DEF under
  <2> QED
    BY <1>3, <2>1, FS_EmptySet
<1>6. ASSUME NEW s \in SUBSET Keys, NEW k \in s PROVE g[s] = g[s \ {k}] + total[k]
  <2>1. under(s) = under(s \ {k}) \cup Rows(k) /\ under(s \ {k}) \cap Rows(k) = {}
    BY DEF under, Rows
  <2>2. Rows(k) \in SUBSET Current /\ under(s \ {k}) \in SUBSET Current
    BY DEF under, Rows
  <2>3. IsFiniteSet(Rows(k)) /\ IsFiniteSet(under(s \ {k}))
    BY <2>2, FS_Subset
  <2>4. /\ Cardinality(under(s)) = Cardinality(under(s \ {k})) + Cardinality(Rows(k)) - Cardinality({})
        /\ Cardinality({}) = 0
    <3> DEFINE A == under(s \ {k})
               B == Rows(k)
    <3>1. IsFiniteSet(A) /\ IsFiniteSet(B) /\ A \cap B = {} /\ under(s) = A \cup B
      BY <2>1, <2>3
    <3> HIDE DEF A, B
    <3>2. Cardinality(A \cup B) = Cardinality(A) + Cardinality(B) - Cardinality(A \cap B)
      BY <3>1, FS_Union
    <3>3. Cardinality(under(s)) = Cardinality(A) + Cardinality(B) - Cardinality({})
      BY <3>1, <3>2
    <3> QED
      BY <3>3, FS_EmptySet DEF A, B
  <2>5. Cardinality(under(s \ {k})) \in Nat /\ Cardinality(Rows(k)) \in Nat
    BY <2>3, FS_CardinalityType
  <2>6. total[k] = Cardinality(Rows(k))
    BY <2>3, TotalIsCardinality
  <2>7. g[s] = Cardinality(under(s)) /\ g[s \ {k}] = Cardinality(under(s \ {k}))
    BY <1>3
  <2> QED
    BY <2>4, <2>5, <2>6, <2>7
<1>7. SumOver(total, Keys) = g[Keys]
  <2>1. AddsUp(g, total, Keys)
    BY <1>4, <1>5, <1>6 DEF AddsUp
  <2> QED
    BY <1>1, <2>1, SumIs
<1>8. under(Keys) = Current
  BY DEF under, Keys
<1> QED
  BY <1>3, <1>7, <1>8

LEMMA RowsCountOnce == ASSUME RowInv PROVE CountedOnce
<1> DEFINE ids == {m.id : m \in posted}
<1>1. IsFiniteSet(ids)
  <2>1. [m \in posted |-> m.id] \in Surjection(posted, ids)
    BY DEF Surjection
  <2> HIDE DEF ids
  <2> QED
    BY <2>1, FS_Surjection DEF RowInv
<1>2. ASSUME NEW r \in Current PROVE r \in DOMAIN signals /\ r.id \in ids
  <2>1. r \in DOMAIN signals
    BY DEF Current, SignalsSince
  <2>2. PICK m \in posted, t \in Nat : r = Sanitize(m, t)
    BY <2>1 DEF RowInv, Kept
  <2>3. r.id = m.id
    BY <2>2 DEF Sanitize
  <2> QED
    BY <2>1, <2>3
<1>3. [r \in Current |-> r.id] \in Injection(Current, ids)
  <2>1. PICK f : f = [r \in Current |-> r.id]
    OBVIOUS
  <2>2. f \in [Current -> ids]
    BY <1>2, <2>1
  <2>3. ASSUME NEW r \in Current, NEW s \in Current, f[r] = f[s] PROVE r = s
    <3>1. r \in DOMAIN signals /\ s \in DOMAIN signals /\ r.id = s.id
      BY <1>2, <2>1, <2>3
    <3> QED
      BY <3>1 DEF RowInv, OneRowPerId
  <2> HIDE DEF ids
  <2> QED
    BY <2>1, <2>2, <2>3 DEF Injection, IsInjective
<1> HIDE DEF ids
<1>4. IsFiniteSet(Current) /\ Cardinality(Current) <= Cardinality(ids)
  BY <1>1, <1>3, FS_Injection
<1>5. PICK total : total = [k \in Keys |-> Aggregate(k).total]
  OBVIOUS
<1>6. SumOver(total, Keys) = Cardinality(Current)
  BY <1>4, <1>5, TotalsAreRows DEF RowInv
<1> QED
  BY <1>4, <1>5, <1>6 DEF CountedOnce, ids

\* A signal counts once in the aggregates, under one region and transport, whatever is posted
\* again after a restart, an expired id or a lost answer (Deduper.Fresh, ON CONFLICT DO NOTHING).
THEOREM SignalsCountOnce == Spec => []CountedOnce
<1>1. RowInv => CountedOnce
  BY RowsCountOnce
<1> QED
  BY <1>1, RowInvariant, PTL
=============================================================================
