--------------------------- MODULE DeliveryProofs ---------------------------
(***************************************************************************)
(* Proofs about the delivery service.  First the telegram bot, for any      *)
(* messages, any limits, any number of failures and crashes: no update is   *)
(* passed without an answer and no reminder is out of date when it is sent. *)
(* Then the delivery channels.                                              *)
(*                                                                         *)
(* The update loop works on one update at a time, the one after the durable *)
(* cursor.  So an update that has an invoice and is not done is the last    *)
(* one the limiter let through for its user, unless the limiter forgot the  *)
(* user; in both cases its retry is let through.                            *)
(***************************************************************************)
EXTENDS TelegramNotifier, DeliveryChannels, SequenceTheorems, FiniteSetTheorems, TLAPS

Account == [user : {"active", "suspended"}, invoice : {"none", "pending", "settled"}, term : Nat,
            phase : {"far", "soon", "grace", "over"}]

Bucket == [tokens : Int, idle : Int, cmd : Commands \cup {None}, since : Int, upd : Nat, live : BOOLEAN]

\* What the bot says, a line each.
Lines == {"menu", "error", "rate limited", "invoice", "refused", "usage", "plans", "no plans", "stale",
          "suspended", "link", "no subscription", "none", "pending", "confirmed",
          "confirmed, restricted", "confirmed, ended", "active", "ended", "not activated"}

Working == {"begin", "handle", "send", "complete"}

Poller == [pc : {"off", "poll"} \cup Working, cursor : Nat, upto : Nat, upd : Nat,
           reply : Seq(Lines) \cup {None}]

BotTypeOK ==
    /\ load \in Workloads
    /\ arrived \in 0..Len(load.updates)
    /\ cursor \in 0..arrived
    /\ status \in [Updates -> {"none", "pending", "done"}]
    /\ account \in [Users -> Account]
    /\ invoices \subseteq Updates
    /\ replies \in [Updates -> Seq(Seq(Lines))]
    /\ poller \in Poller
    /\ buckets \in [Users -> Bucket]

Sender(k) == load.updates[k].user

Answered(k) ==
    \/ load.updates[k].cmd = "group"
    \/ replies[k] # <<>>
    \/ k \in dropped /\ k \notin invoices

\* The updates behind the cursor are the ones that are done, and those are answered.
\* Nothing beyond the next one was touched.
DoneInv ==
    /\ \A k \in Updates : k <= cursor <=> status[k] = "done"
    /\ \A k \in Updates : k <= cursor => Answered(k)
    /\ \A k \in Updates : k \in invoices => k <= cursor + 1

\* The poller works on the update after its own cursor, which is not ahead.
PollerInv ==
    /\ poller.pc # "off" => poller.cursor <= cursor
    /\ poller.pc \in Working => /\ poller.upd = poller.cursor + 1
                                /\ poller.upd <= poller.upto /\ poller.upto <= arrived
    /\ poller.pc \in {"handle", "send"} => cursor < poller.upd
    /\ poller.pc = "send" => poller.reply \in Seq(Lines)
    /\ poller.pc = "complete" => Answered(poller.upd)

\* The limiter lets the update k of user u through again: it knows nothing about u, or
\* k is the last one it let through.
Known(u, k) == buckets[u].live => buckets[u].upd = k

LimiterInv == \A k \in Updates : k \in invoices /\ cursor < k => Known(Sender(k), k)

\* The inductive invariant of the update loop.
UpdatesInv == BotTypeOK /\ DoneInv /\ PollerInv /\ LimiterInv

\* The fields of a notifier's local state, and what a visit has to do.
Visit(n) ==
    /\ n = [pc |-> n.pc, page |-> n.page, events |-> n.events, allow |-> n.allow, seen |-> n.seen,
            todo |-> n.todo, e |-> n.e]
    /\ n.todo \subseteq Event

\* What the notifier's visit saw allows it to tell e.
Current(e) == nt.allow /\ (e.kind # "activation" => e.term = nt.seen)

\* The inductive invariant of the notifier: what it is about to send was staged, or left,
\* by a reconciliation with what this visit saw.
NotifierInv ==
    /\ Visit(nt)
    /\ notif \in [Users -> [Event -> {"none", "pending", "sent", "canceled"}]]
    /\ told \in [Users -> [Event -> Nat]]
    /\ nt.pc = "reconcile" => \A e \in nt.events : Current(e)
    /\ nt.pc = "pending" /\ Head(nt.page) \in Users =>
         \A e \in Event : notif[Head(nt.page)][e] = "pending" => Current(e)
    /\ nt.pc \in {"send", "mark"} /\ Head(nt.page) \in Users => \A e \in nt.todo : Current(e)

----------------------------------------------------------------------------
(* Facts about the operators.                                              *)

\* The updates are a sequence of messages with a sender and a command.
LEMMA UpdatesAreMessages ==
    ASSUME BotTypeOK
    PROVE  /\ Len(load.updates) \in Nat /\ Updates = 1..Len(load.updates)
           /\ \A k \in Updates : load.updates[k] \in [user : Users, cmd : Commands]
<1>1. load.updates \in Seq([user : Users, cmd : Commands])
  BY BotConstants DEF BotTypeOK
<1>. QED
  BY <1>1, LenProperties, ElementOfSeq DEF Updates

LEMMA ShortSequences ==
    ASSUME NEW S, NEW x \in S, NEW y \in S
    PROVE  <<x>> \in Seq(S) /\ <<x, y>> \in Seq(S)
  OBVIOUS

LEMMA LineIsReply == \A x \in Lines : <<x>> \in Seq(Lines)
  BY ShortSequences

LEMMA StatusIsReply ==
    ASSUME NEW a \in Account
    PROVE  renderStatus(a) \in Seq(Lines)
<1>1. invoiceStatusLine(a) \in Lines
  BY DEF invoiceStatusLine, Account, Lines
<1>2. \A x, y \in Lines : <<x, y>> \in Seq(Lines)
  BY ShortSequences
<1> DEFINE access == CASE a.term = 0       -> "no subscription"
                       [] Eligible(a)      -> "active"
                       [] a.phase = "over" -> "ended"
                       [] OTHER            -> "not activated"
<1>3. access \in Lines
  BY DEF Lines
<1>4. renderStatus(a) = <<invoiceStatusLine(a), access>>
  BY DEF renderStatus
<1> HIDE DEF access
<1>. QED
  BY <1>1, <1>2, <1>3, <1>4

\* Whatever a command leads to is answered with lines of text.
LEMMA OutcomesAreReplies ==
    ASSUME BotTypeOK, NEW k \in Updates, load.updates[k].cmd # "group", NEW o \in Outcomes(k)
    PROVE  o.reply \in Seq(Lines)
<1> DEFINE cmd == load.updates[k].cmd
           a == account[load.updates[k].user]
<1>1. load.updates[k] \in [user : Users, cmd : Commands]
  BY UpdatesAreMessages
<1>2. a \in Account /\ cmd \in Commands
  BY <1>1 DEF BotTypeOK
<1>3. \A r \in Seq(Lines) : \A x \in Reply(r) : x.reply \in Seq(Lines)
  BY DEF Reply
<1>4. \A x \in Failed : x.reply \in Seq(Lines)
  <2>1. <<"error">> \in Seq(Lines) /\ <<"rate limited">> \in Seq(Lines)
    BY LineIsReply DEF Lines
  <2>. QED
    BY <1>3, <2>1 DEF Failed
<1>5. \A x \in InvoiceOutcomes : x.reply \in Seq(Lines)
  <2>1. <<"invoice">> \in Seq(Lines) /\ <<"error">> \in Seq(Lines) /\ <<"refused">> \in Seq(Lines)
    BY LineIsReply DEF Lines
  <2>2. \A x \in InvoiceOutcomes : x.reply \in {<<"invoice">>, <<"error">>, <<"refused">>}
    BY DEF InvoiceOutcomes
  <2>. QED
    BY <2>1, <2>2
<1>6. CASE cmd \in {"other", "blank"}
  BY <1>3, <1>6, LineIsReply DEF Outcomes, Lines
<1>7. CASE cmd = "help"
  BY <1>3, <1>4, <1>7, LineIsReply DEF Outcomes, Lines
<1>8. CASE cmd = "status"
  BY <1>2, <1>3, <1>4, <1>8, StatusIsReply DEF Outcomes
<1>9. CASE cmd = "plans"
  BY <1>3, <1>4, <1>9, LineIsReply DEF Outcomes, PlanOutcomes, Lines
<1>10. CASE cmd = "pay"
  BY <1>3, <1>5, <1>10, LineIsReply DEF Outcomes, Lines
<1>11. CASE cmd = "button"
  BY <1>3, <1>4, <1>5, <1>11, LineIsReply DEF Outcomes, PlanOutcomes, Lines
<1>12. CASE cmd = "get"
  BY <1>3, <1>4, <1>12, LineIsReply DEF Outcomes, LinkOutcomes, Lines
<1>. QED
  BY <1>2, <1>6, <1>7, <1>8, <1>9, <1>10, <1>11, <1>12 DEF Commands

LEMMA NoBucketIsBucket == NoBucket \in Bucket /\ ~NoBucket.live
  BY DEF NoBucket, Bucket

\* What the limiter does to a bucket leaves a bucket.
LEMMA RefilledBucket ==
    ASSUME NEW b \in Bucket, NEW x \in Int, NEW y \in Int
    PROVE  [b EXCEPT !.tokens = x, !.idle = y] \in Bucket
  BY DEF Bucket

Spent(b, x, c, y, k) == [b EXCEPT !.tokens = x, !.cmd = c, !.since = y, !.upd = k]

LEMMA SpentBucket ==
    ASSUME NEW b \in Bucket, NEW x \in Int, NEW c \in Commands, NEW y \in Int, NEW k \in Nat
    PROVE  Spent(b, x, c, y, k) \in Bucket /\ Spent(b, x, c, y, k).upd = k
<1>1. [b EXCEPT !.tokens = x, !.cmd = c, !.since = y, !.upd = k] \in Bucket
  BY DEF Bucket
<1>2. [b EXCEPT !.tokens = x, !.cmd = c, !.since = y, !.upd = k].upd = k
  BY DEF Bucket
<1>. QED
  BY <1>1, <1>2 DEF Spent

LEMMA EvictKeeps ==
    ASSUME NEW bs \in [Users -> Bucket]
    PROVE  /\ Evict(bs) \in [Users -> Bucket]
           /\ \A u \in Users : Evict(bs)[u].live => Evict(bs)[u].upd = bs[u].upd
<1> DEFINE cap(x) == IF x > TTL + Cooldown THEN TTL + Cooldown ELSE x
<1>1. ASSUME NEW u \in Users
      PROVE  /\ [bs[u] EXCEPT !.since = cap(@)] \in Bucket
             /\ [bs[u] EXCEPT !.since = cap(@)].upd = bs[u].upd
  <2> DEFINE c == cap(bs[u].since)
  <2>1. bs[u] \in Bucket
    OBVIOUS
  <2>2. bs[u].since \in Int /\ TTL \in Int /\ Cooldown \in Int
    BY <2>1, BotConstants DEF Bucket
  <2>3. c \in Int
    BY <2>2
  <2> HIDE DEF c
  <2>4. [bs[u] EXCEPT !.since = c] \in Bucket
    BY <2>1, <2>3 DEF Bucket
  <2>5. [bs[u] EXCEPT !.since = c].upd = bs[u].upd
    BY <2>1 DEF Bucket
  <2>. QED
    BY <2>4, <2>5 DEF c
<1>. QED
  BY <1>1, NoBucketIsBucket DEF Evict

\* The limiter answers yes to an update it knows, and knows the update it says yes to.
LEMMA AllowKnows ==
    ASSUME BotTypeOK, NEW d \in Elapses, NEW u \in Users, NEW cmd \in Commands, NEW k \in Nat \ {0}
    PROVE  LET l == allow(d, u, cmd, k) IN
           /\ l.buckets \in [Users -> Bucket]
           /\ Known(u, k) => l.ok
           /\ l.ok => (l.buckets[u].live => l.buckets[u].upd = k)
<1> DEFINE bs == Aged(d)
           b  == BucketOf(bs, u)
           r  == Refilled(b)
           ok == ~(cmd # "blank" /\ cmd = r.cmd /\ r.since < Cooldown) /\ r.tokens >= 1
           s  == [bs EXCEPT ![u] =
                    IF ok THEN [r EXCEPT !.tokens = @ - 1, !.cmd = cmd, !.since = 0, !.upd = k] ELSE r]
           l  == allow(d, u, cmd, k)
<1>0. Burst \in Nat \ {0} /\ d \in Nat /\ None \notin Commands
  BY BotConstants
<1>1. /\ bs \in [Users -> Bucket]
      /\ \A v \in Users : bs[v].live <=> buckets[v].live
      /\ \A v \in Users : bs[v].live => bs[v].upd = buckets[v].upd
  <2>1. ASSUME NEW v \in Users, buckets[v].live
        PROVE  bs[v] \in Bucket /\ bs[v].live /\ bs[v].upd = buckets[v].upd
    <3>1. buckets[v] \in Bucket /\ bs[v] = [buckets[v] EXCEPT !.idle = @ + d, !.since = @ + d]
      BY <2>1 DEF Aged, BotTypeOK
    <3>2. buckets[v].idle + d \in Int /\ buckets[v].since + d \in Int
      BY <1>0, <3>1 DEF Bucket
    <3> HIDE DEF bs
    <3>3. bs[v] \in Bucket
      BY <3>1, <3>2 DEF Bucket
    <3>4. bs[v].live = buckets[v].live
      BY <3>1 DEF Bucket
    <3>5. bs[v].upd = buckets[v].upd
      BY <3>1 DEF Bucket
    <3>. QED
      BY <2>1, <3>3, <3>4, <3>5
  <2>2. ASSUME NEW v \in Users, ~buckets[v].live PROVE bs[v] = NoBucket
    BY <2>2 DEF Aged
  <2>3. bs = [v \in Users |-> bs[v]]
    BY DEF Aged
  <2> HIDE DEF bs
  <2>. QED
    BY <2>1, <2>2, <2>3, NoBucketIsBucket
<1>2. /\ b \in Bucket
      /\ bs[u].live => b = bs[u]
      /\ ~bs[u].live => b = [tokens |-> Burst, idle |-> 0, cmd |-> None, since |-> 0, upd |-> 0, live |-> TRUE]
  <2> HIDE DEF bs
  <2>1. [tokens |-> Burst, idle |-> 0, cmd |-> None, since |-> 0, upd |-> 0, live |-> TRUE] \in Bucket
    BY <1>0 DEF Bucket
  <2>. QED
    BY <1>1, <2>1 DEF BucketOf
<1>3. r \in Bucket /\ (~bs[u].live => r = b)
  <2> HIDE DEF bs, b
  <2>1. CASE b.idle = 0
    BY <1>2, <2>1 DEF Refilled
  <2>2. CASE b.idle # 0
    <3>1. bs[u].live
      BY <1>2, <2>2
    <3>2. (IF b.tokens + b.idle > Burst THEN Burst ELSE b.tokens + b.idle) \in Int
      BY <1>0, <1>2 DEF Bucket
    <3> DEFINE x == IF b.tokens + b.idle > Burst THEN Burst ELSE b.tokens + b.idle
    <3>3. r = [b EXCEPT !.tokens = x, !.idle = 0]
      BY <2>2 DEF Refilled
    <3> HIDE DEF x, r
    <3>4. x \in Int /\ 0 \in Int
      BY <3>2 DEF x
    <3>. QED
      BY <1>2, <3>1, <3>3, <3>4, RefilledBucket, Zenon
  <2>. QED
    BY <2>1, <2>2
<1>4. s \in [Users -> Bucket] /\ (ok => s[u].upd = k)
  <2> HIDE DEF bs, b, r
  <2> DEFINE t == [r EXCEPT !.tokens = @ - 1, !.cmd = cmd, !.since = 0, !.upd = k]
  <2>0. r.tokens - 1 \in Int
    BY <1>3 DEF Bucket
  <2> DEFINE x == r.tokens - 1
  <2>1. t = Spent(r, x, cmd, 0, k)
    BY DEF Spent
  <2>2. t \in Bucket /\ t.upd = k
    <3> HIDE DEF x, t
    <3>1. x \in Int /\ 0 \in Int /\ k \in Nat
      BY <2>0 DEF x
    <3>. QED
      BY <1>3, <2>1, <3>1, SpentBucket
  <2> HIDE DEF t, ok
  <2>3. s = [bs EXCEPT ![u] = IF ok THEN t ELSE r]
    BY DEF t
  <2>. QED
    BY <1>1, <1>3, <2>2, <2>3
<1>5. CASE k = b.upd
  <2>1. l = [ok |-> TRUE, buckets |-> [bs EXCEPT ![u] = [b EXCEPT !.idle = 0]]]
    BY <1>5 DEF allow
  <2>2. [b EXCEPT !.idle = 0] \in Bucket /\ [b EXCEPT !.idle = 0].upd = k
    BY <1>2, <1>5 DEF Bucket
  <2>. QED
    BY <1>1, <2>1, <2>2
<1>6. CASE k # b.upd
  <2>1. l = [ok |-> ok, buckets |-> Evict(s)]
    BY <1>6 DEF allow
  <2>2. Evict(s) \in [Users -> Bucket] /\ (Evict(s)[u].live => Evict(s)[u].upd = s[u].upd)
    BY <1>4, EvictKeeps
  <2>3. Known(u, k) => ok
    <3> SUFFICES ASSUME Known(u, k) PROVE ok
      OBVIOUS
    <3>1. ~bs[u].live
      BY <1>1, <1>2, <1>6 DEF Known
    <3>2. r = [tokens |-> Burst, idle |-> 0, cmd |-> None, since |-> 0, upd |-> 0, live |-> TRUE]
      BY <1>2, <1>3, <3>1
    <3>3. r.cmd = None /\ r.tokens = Burst
      BY <3>2
    <3>. QED
      BY <1>0, <3>3
  <2>4. l.ok = ok /\ l.buckets = Evict(s)
    BY <2>1
  <2>5. l.ok /\ l.buckets[u].live => l.buckets[u].upd = k
    BY <1>4, <2>2, <2>4
  <2>. QED
    BY <2>2, <2>3, <2>4, <2>5
<1>. QED
  BY <1>5, <1>6
----------------------------------------------------------------------------
(* The update loop keeps its invariant.                                    *)

\* The update the poller works on is one that telegram delivered.
LEMMA AtHand ==
    ASSUME UpdatesInv, poller.pc \in Working
    PROVE  /\ poller.upd \in Updates
           /\ load.updates[poller.upd] \in [user : Users, cmd : Commands]
           /\ poller.upd <= cursor + 1
<1>1. /\ arrived \in Nat /\ cursor \in Nat /\ arrived <= Len(load.updates)
      /\ poller \in Poller /\ Len(load.updates) \in Nat
  BY UpdatesAreMessages DEF UpdatesInv, BotTypeOK
<1>2. poller.cursor \in Nat /\ poller.upd \in Nat /\ poller.upto \in Nat
  BY <1>1 DEF Poller
<1>3. /\ poller.upd = poller.cursor + 1 /\ poller.upd <= arrived
      /\ poller.cursor <= cursor
  BY <1>1, <1>2 DEF UpdatesInv, PollerInv, Working
<1>4. poller.upd \in 1..Len(load.updates) /\ poller.upd <= cursor + 1
  BY <1>1, <1>2, <1>3
<1>. QED
  BY <1>4, UpdatesAreMessages DEF UpdatesInv

\* What is done stays so when neither the log nor the answers change.
LEMMA DoneFrame ==
    ASSUME UpdatesInv, UNCHANGED <<load, cursor, status, invoices, replies, dropped>>
    PROVE  DoneInv'
  BY DEF UpdatesInv, DoneInv, Answered, Updates

LEMMA LimiterFrame ==
    ASSUME UpdatesInv, UNCHANGED <<load, cursor, invoices, buckets>>
    PROVE  LimiterInv'
  BY DEF UpdatesInv, LimiterInv, Known, Sender, Updates

LEMMA IdlePollerKeeps ==
    ASSUME BotTypeOK, NEW c \in Nat
    PROVE  /\ [Off EXCEPT !.pc = "poll", !.cursor = c] \in Poller
           /\ [Off EXCEPT !.pc = "poll", !.cursor = c].pc = "poll"
           /\ [Off EXCEPT !.pc = "poll", !.cursor = c].cursor = c
<1>1. Off \in Poller
  BY DEF Off, Poller
<1> DEFINE p == [Off EXCEPT !.pc = "poll", !.cursor = c]
<1>2. p \in Poller
  BY <1>1 DEF Poller
<1>3. p.pc = "poll" /\ p.cursor = c
  BY <1>1 DEF Poller
<1>. QED
  BY <1>2, <1>3

LEMMA InitEstablishes == UpdatesInit => UpdatesInv
<1> SUFFICES ASSUME UpdatesInit PROVE UpdatesInv
  OBVIOUS
<1>1. load.updates \in Seq([user : Users, cmd : Commands])
  BY BotConstants DEF UpdatesInit
<1>2. Len(load.updates) \in Nat /\ Updates = 1..Len(load.updates)
  BY <1>1, LenProperties DEF Updates
<1>3. NewAccount \in Account
  BY DEF NewAccount, Account
<1>4. Off \in Poller /\ Off.pc = "off"
  BY DEF Off, Poller
<1>5. <<>> \in Seq(Seq(Lines))
  OBVIOUS
<1>6. BotTypeOK
  BY <1>2, <1>3, <1>4, <1>5, NoBucketIsBucket DEF UpdatesInit, BotTypeOK
<1>7. DoneInv
  BY <1>2 DEF UpdatesInit, DoneInv
<1>8. PollerInv
  BY <1>4 DEF UpdatesInit, PollerInv, Working
<1>9. LimiterInv
  BY DEF UpdatesInit, LimiterInv
<1>. QED
  BY <1>6, <1>7, <1>8, <1>9 DEF UpdatesInv

LEMMA ArriveKeeps ==
    ASSUME UpdatesInv, Arrive
    PROVE  UpdatesInv'
<1>1. BotTypeOK'
  BY UpdatesAreMessages DEF UpdatesInv, Arrive, BotTypeOK, Updates
<1>2. DoneInv' /\ LimiterInv'
  BY DoneFrame, LimiterFrame DEF Arrive
<1>3. arrived \in Nat /\ arrived <= arrived' /\ poller.upto \in Nat
  BY UpdatesAreMessages DEF UpdatesInv, Arrive, BotTypeOK, Poller
<1>4. PollerInv'
  BY <1>3 DEF UpdatesInv, Arrive, PollerInv, Answered
<1>. QED
  BY <1>1, <1>2, <1>4 DEF UpdatesInv

LEMMA StartKeeps ==
    ASSUME UpdatesInv, Start
    PROVE  UpdatesInv'
<1>1. cursor \in Nat
  BY UpdatesAreMessages DEF UpdatesInv, BotTypeOK
<1>2. poller' \in Poller /\ poller'.pc = "poll" /\ poller'.cursor = cursor
  BY <1>1, IdlePollerKeeps DEF Start, UpdatesInv
<1>3. BotTypeOK'
  BY <1>2 DEF UpdatesInv, Start, BotTypeOK, Updates
<1>4. DoneInv' /\ LimiterInv'
  BY DoneFrame, LimiterFrame DEF Start
<1>5. PollerInv'
  BY <1>1, <1>2 DEF Start, PollerInv, Working
<1>. QED
  BY <1>3, <1>4, <1>5 DEF UpdatesInv

LEMMA GetUpdatesKeeps ==
    ASSUME UpdatesInv, GetUpdates
    PROVE  UpdatesInv'
<1>1. arrived \in Nat /\ poller \in Poller /\ poller.cursor \in Nat
  BY UpdatesAreMessages DEF UpdatesInv, BotTypeOK, Poller
<1>2. poller.cursor + 1 \in Nat /\ poller.cursor + 1 <= arrived
  BY <1>1 DEF GetUpdates
<1>3. /\ poller' \in Poller
      /\ poller'.pc = "begin" /\ poller'.cursor = poller.cursor
      /\ poller'.upd = poller.cursor + 1 /\ poller'.upto = arrived
  BY <1>1, <1>2 DEF GetUpdates, Poller, Working
<1>4. BotTypeOK'
  BY <1>3 DEF UpdatesInv, GetUpdates, BotTypeOK, Updates
<1>5. DoneInv' /\ LimiterInv'
  BY DoneFrame, LimiterFrame DEF GetUpdates
<1>6. PollerInv'
  BY <1>1, <1>2, <1>3 DEF UpdatesInv, GetUpdates, PollerInv, Working
<1>. QED
  BY <1>4, <1>5, <1>6 DEF UpdatesInv

LEMMA BeginKeeps ==
    ASSUME UpdatesInv, BeginUpdate
    PROVE  UpdatesInv'
<1>1. poller.upd \in Updates /\ poller.upd \in Nat /\ cursor \in Nat
  BY AtHand, UpdatesAreMessages DEF BeginUpdate, Working, UpdatesInv, BotTypeOK
<1>2. /\ status \in [Updates -> {"none", "pending", "done"}]
      /\ status' \in [Updates -> {"none", "pending", "done"}]
      /\ \A k \in Updates : status'[k] = "done" <=> status[k] = "done"
  BY <1>1 DEF UpdatesInv, BotTypeOK, BeginUpdate
<1>3. /\ poller' \in Poller
      /\ poller'.pc = (IF status[poller.upd] # "done" THEN "handle" ELSE "complete")
      /\ poller'.cursor = poller.cursor /\ poller'.upd = poller.upd /\ poller'.upto = poller.upto
  BY DEF BeginUpdate, Begin, UpdatesInv, BotTypeOK, Poller, Working
<1>4. BotTypeOK'
  BY <1>2, <1>3 DEF UpdatesInv, BeginUpdate, BotTypeOK, Updates
<1>5. DoneInv'
  BY <1>2 DEF UpdatesInv, DoneInv, BeginUpdate, Answered, Updates
<1>6. LimiterInv'
  BY LimiterFrame DEF BeginUpdate
<1>7. PollerInv'
  <2>1. CASE status[poller.upd] # "done"
    <3>1. cursor < poller.upd
      BY <1>1, <2>1 DEF UpdatesInv, DoneInv
    <3>. QED
      BY <1>3, <2>1, <3>1 DEF UpdatesInv, BeginUpdate, PollerInv, Working
  <2>2. CASE status[poller.upd] = "done"
    <3>1. Answered(poller.upd)
      BY <1>1, <2>2 DEF UpdatesInv, DoneInv
    <3>2. Answered(poller.upd)'
      BY <1>3, <3>1 DEF BeginUpdate, Answered
    <3>. QED
      BY <1>3, <2>2, <3>2 DEF UpdatesInv, BeginUpdate, PollerInv, Working
  <2>. QED
    BY <2>1, <2>2
<1>. QED
  BY <1>4, <1>5, <1>6, <1>7 DEF UpdatesInv

LEMMA IgnoreKeeps ==
    ASSUME UpdatesInv, IgnoreUpdate
    PROVE  UpdatesInv'
<1>1. /\ poller' \in Poller /\ poller'.pc = "complete"
      /\ poller'.cursor = poller.cursor /\ poller'.upd = poller.upd /\ poller'.upto = poller.upto
  BY DEF IgnoreUpdate, UpdatesInv, BotTypeOK, Poller, Working
<1>2. BotTypeOK'
  BY <1>1 DEF UpdatesInv, IgnoreUpdate, BotTypeOK, Updates
<1>3. DoneInv' /\ LimiterInv'
  BY DoneFrame, LimiterFrame DEF IgnoreUpdate
<1>4. PollerInv'
  BY <1>1 DEF UpdatesInv, IgnoreUpdate, PollerInv, Working, Answered
<1>. QED
  BY <1>2, <1>3, <1>4 DEF UpdatesInv
\* The update that is being handled is the only one with an invoice that is not done.
LEMMA OnlyOneOpen ==
    ASSUME UpdatesInv, poller.pc = "handle"
    PROVE  /\ poller.upd = cursor + 1
           /\ \A j \in Updates : j \in invoices /\ cursor < j => j = poller.upd
<1>1. poller.upd \in Nat /\ cursor \in Nat /\ \A j \in Updates : j \in Nat
  BY UpdatesAreMessages DEF UpdatesInv, BotTypeOK, Poller
<1>2. cursor < poller.upd /\ poller.upd <= cursor + 1
  BY AtHand DEF UpdatesInv, PollerInv, Working
<1>3. \A j \in Updates : j \in invoices => j <= cursor + 1
  BY DEF UpdatesInv, DoneInv
<1>. QED
  BY <1>1, <1>2, <1>3

\* The limiter refuses: there is no invoice for the update, so passing it is an answer.
LEMMA RefusedKeeps ==
    ASSUME UpdatesInv, poller.pc = "handle",
           NEW d \in Elapses,
           ~allow(d, Sender(poller.upd), load.updates[poller.upd].cmd, poller.upd).ok,
           buckets' = allow(d, Sender(poller.upd), load.updates[poller.upd].cmd, poller.upd).buckets,
           dropped' = dropped \cup {poller.upd},
           poller' = [poller EXCEPT !.pc = "complete"],
           UNCHANGED <<load, arrived, cursor, status, replies, invoices, account>>
    PROVE  UpdatesInv'
<1> DEFINE k == poller.upd
<1>1. /\ k \in Updates /\ k \in Nat \ {0} /\ cursor \in Nat
      /\ Sender(k) \in Users /\ load.updates[k].cmd \in Commands
  BY AtHand, UpdatesAreMessages DEF Working, UpdatesInv, BotTypeOK, Sender
<1>2. buckets' \in [Users -> Bucket] /\ ~Known(Sender(k), k)
  BY <1>1, AllowKnows DEF UpdatesInv
<1>3. k \notin invoices
  BY <1>1, <1>2 DEF UpdatesInv, LimiterInv, PollerInv
<1>4. /\ poller' \in Poller /\ poller'.pc = "complete"
      /\ poller'.cursor = poller.cursor /\ poller'.upd = poller.upd /\ poller'.upto = poller.upto
  BY DEF UpdatesInv, BotTypeOK, Poller, Working
<1>5. BotTypeOK'
  BY <1>2, <1>4 DEF UpdatesInv, BotTypeOK, Updates
<1>6. DoneInv'
  BY DEF UpdatesInv, DoneInv, Answered, Updates
<1>7. PollerInv'
  BY <1>3, <1>4 DEF UpdatesInv, PollerInv, Working, Answered
<1>8. LimiterInv'
  BY <1>3, OnlyOneOpen DEF LimiterInv, Updates
<1>. QED
  BY <1>5, <1>6, <1>7, <1>8 DEF UpdatesInv

\* The limiter lets it through, and remembers it: its retry will be let through too.
LEMMA ServedKeeps ==
    ASSUME UpdatesInv, poller.pc = "handle", load.updates[poller.upd].cmd # "group",
           NEW d \in Elapses,
           allow(d, Sender(poller.upd), load.updates[poller.upd].cmd, poller.upd).ok,
           buckets' = allow(d, Sender(poller.upd), load.updates[poller.upd].cmd, poller.upd).buckets,
           NEW o \in Outcomes(poller.upd),
           invoices' = IF o.acted THEN invoices \cup {poller.upd} ELSE invoices,
           account' = IF invoices' = invoices THEN account
                      ELSE [account EXCEPT ![Sender(poller.upd)].invoice = "pending"],
           poller' = [poller EXCEPT !.pc = "send", !.reply = o.reply],
           UNCHANGED <<load, arrived, cursor, status, replies, dropped>>
    PROVE  UpdatesInv'
<1> DEFINE k == poller.upd
<1>1. /\ k \in Updates /\ k \in Nat \ {0} /\ cursor \in Nat
      /\ Sender(k) \in Users /\ load.updates[k].cmd \in Commands
  BY AtHand, UpdatesAreMessages DEF Working, UpdatesInv, BotTypeOK, Sender
<1>2. /\ buckets' \in [Users -> Bucket]
      /\ buckets'[Sender(k)].live => buckets'[Sender(k)].upd = k
  BY <1>1, AllowKnows DEF UpdatesInv
<1>3. invoices \subseteq invoices' /\ invoices' \subseteq invoices \cup {k}
  OBVIOUS
<1>4. \A j \in Updates : j \in invoices' => j \in invoices \/ j = k
  BY <1>3
<1>5. account' \in [Users -> Account]
  <2>1. account \in [Users -> Account]
    BY DEF UpdatesInv, BotTypeOK
  <2>2. account[Sender(k)] \in Account
    BY <1>1, <2>1
  <2>3. [account[Sender(k)] EXCEPT !.invoice = "pending"] \in Account
    BY <2>2 DEF Account
  <2>4. account' = account \/ account' = [account EXCEPT ![Sender(k)] = [account[Sender(k)] EXCEPT !.invoice = "pending"]]
    OBVIOUS
  <2>. QED
    BY <1>1, <2>1, <2>3, <2>4
<1>6. o.reply \in Seq(Lines)
  BY <1>1, OutcomesAreReplies DEF UpdatesInv
<1>7. /\ poller' \in Poller /\ poller'.pc = "send" /\ poller'.reply = o.reply
      /\ poller'.cursor = poller.cursor /\ poller'.upd = poller.upd /\ poller'.upto = poller.upto
  BY <1>6 DEF UpdatesInv, BotTypeOK, Poller, Working
<1>8. BotTypeOK'
  <2>1. invoices' \subseteq Updates
    BY <1>1, <1>3 DEF UpdatesInv, BotTypeOK
  <2>. QED
    BY <1>2, <1>5, <1>7, <2>1 DEF UpdatesInv, BotTypeOK, Updates
<1>9. k = cursor + 1 /\ \A j \in Updates : j \in invoices' /\ cursor < j => j = k
  BY <1>4, OnlyOneOpen
<1>10. DoneInv'
  <2>1. \A j \in Updates : j <= cursor => (j \in invoices' => j \in invoices)
    BY <1>1, <1>4, <1>9
  <2>2. \A j \in Updates : j \in invoices' => j <= cursor + 1
    BY <1>1, <1>4, <1>9 DEF UpdatesInv, DoneInv
  <2>. QED
    BY <2>1, <2>2 DEF UpdatesInv, DoneInv, Answered, Updates
<1>11. PollerInv'
  BY <1>6, <1>7 DEF UpdatesInv, PollerInv, Working
<1>12. LimiterInv'
  BY <1>2, <1>9 DEF LimiterInv, Known, Sender, Updates
<1>. QED
  BY <1>8, <1>10, <1>11, <1>12 DEF UpdatesInv

LEMMA HandleKeeps ==
    ASSUME UpdatesInv, HandleUpdate
    PROVE  UpdatesInv'
<1> DEFINE k == poller.upd
           l(d) == allow(d, Sender(k), load.updates[k].cmd, k)
<1>1. PICK d \in Elapses :
        /\ buckets' = l(d).buckets
        /\ \/ /\ ~l(d).ok
              /\ dropped' = dropped \cup {k}
              /\ poller' = [poller EXCEPT !.pc = "complete"]
              /\ UNCHANGED <<invoices, account>>
           \/ /\ l(d).ok
              /\ \E o \in Outcomes(k) :
                   /\ invoices' = IF o.acted THEN invoices \cup {k} ELSE invoices
                   /\ account' = IF invoices' = invoices THEN account
                                 ELSE [account EXCEPT ![Sender(k)].invoice = "pending"]
                   /\ poller' = [poller EXCEPT !.pc = "send", !.reply = o.reply]
              /\ UNCHANGED dropped
  BY Zenon DEF HandleUpdate, Sender
<1>2. /\ poller.pc = "handle" /\ load.updates[k].cmd # "group"
      /\ UNCHANGED <<load, arrived, cursor, status, replies>>
  BY DEF HandleUpdate
<1>3. CASE ~l(d).ok
  BY <1>1, <1>2, <1>3, RefusedKeeps
<1>4. CASE l(d).ok
  <2>1. UNCHANGED dropped
    BY <1>1, <1>4
  <2>2. PICK o \in Outcomes(k) :
          /\ invoices' = IF o.acted THEN invoices \cup {k} ELSE invoices
          /\ account' = IF invoices' = invoices THEN account
                        ELSE [account EXCEPT ![Sender(k)].invoice = "pending"]
          /\ poller' = [poller EXCEPT !.pc = "send", !.reply = o.reply]
    BY <1>1, <1>4
  <2>. QED
    BY <1>1, <1>2, <1>4, <2>1, <2>2, ServedKeeps
<1>. QED
  BY <1>3, <1>4

LEMMA LongerReplies ==
    ASSUME BotTypeOK, NEW k \in Updates, NEW x \in Seq(Lines)
    PROVE  LET r == [replies EXCEPT ![k] = Append(@, x)] IN
           /\ r \in [Updates -> Seq(Seq(Lines))]
           /\ r[k] # <<>>
           /\ \A j \in Updates : replies[j] # <<>> => r[j] # <<>>
<1>1. replies[k] \in Seq(Seq(Lines))
  BY DEF BotTypeOK
<1>2. Append(replies[k], x) \in Seq(Seq(Lines)) /\ Append(replies[k], x) # <<>>
  BY <1>1, AppendProperties
<1>. QED
  BY <1>2 DEF BotTypeOK

LEMMA SendKeeps ==
    ASSUME UpdatesInv, SendReply
    PROVE  UpdatesInv'
<1> DEFINE k == poller.upd
<1>1. k \in Updates /\ poller.reply \in Seq(Lines)
  BY AtHand DEF SendReply, UpdatesInv, PollerInv, Working
<1>2. /\ replies' \in [Updates -> Seq(Seq(Lines))] /\ replies'[k] # <<>>
      /\ \A j \in Updates : replies[j] # <<>> => replies'[j] # <<>>
  BY <1>1, LongerReplies DEF SendReply, UpdatesInv
<1>3. /\ poller' \in Poller /\ poller'.pc = "complete"
      /\ poller'.cursor = poller.cursor /\ poller'.upd = poller.upd /\ poller'.upto = poller.upto
  BY DEF SendReply, UpdatesInv, BotTypeOK, Poller, Working
<1>4. BotTypeOK'
  BY <1>2, <1>3 DEF UpdatesInv, SendReply, BotTypeOK, Updates
<1>5. DoneInv'
  BY <1>2 DEF UpdatesInv, SendReply, DoneInv, Answered, Updates
<1>6. PollerInv'
  BY <1>2, <1>3 DEF UpdatesInv, SendReply, PollerInv, Working, Answered
<1>7. LimiterInv'
  BY LimiterFrame DEF SendReply
<1>. QED
  BY <1>4, <1>5, <1>6, <1>7 DEF UpdatesInv
\* The commit of an update that was answered.
LEMMA CommitKeeps ==
    ASSUME UpdatesInv, poller.pc = "complete",
           status' = [status EXCEPT ![poller.upd] = "done"],
           cursor' = IF poller.upd > cursor THEN poller.upd ELSE cursor,
           UNCHANGED <<load, arrived, invoices, replies, dropped, buckets>>
    PROVE  /\ status' \in [Updates -> {"none", "pending", "done"}]
           /\ cursor' \in 0..arrived
           /\ cursor <= cursor' /\ poller.upd <= cursor'
           /\ DoneInv' /\ LimiterInv'
<1> DEFINE k == poller.upd
<1>1. /\ k \in Updates /\ k \in Nat /\ k <= cursor + 1 /\ cursor \in Nat /\ arrived \in Nat
      /\ k <= arrived /\ cursor <= arrived /\ \A j \in Updates : j \in Nat
  BY AtHand, UpdatesAreMessages DEF UpdatesInv, BotTypeOK, PollerInv, Working, Poller
<1>2. /\ status' \in [Updates -> {"none", "pending", "done"}]
      /\ \A j \in Updates : status'[j] = "done" <=> status[j] = "done" \/ j = k
  BY <1>1 DEF UpdatesInv, BotTypeOK
<1>3. cursor' \in 0..arrived /\ cursor <= cursor' /\ k <= cursor'
  BY <1>1
<1>4. \A j \in Updates : j <= cursor' <=> j <= cursor \/ j = k
  BY <1>1
<1>5. Answered(k)
  BY DEF UpdatesInv, PollerInv
<1>6. DoneInv'
  <2>1. \A j \in Updates : j <= cursor' <=> status'[j] = "done"
    BY <1>2, <1>4 DEF UpdatesInv, DoneInv
  <2>2. \A j \in Updates : j <= cursor' => Answered(j)
    BY <1>4, <1>5 DEF UpdatesInv, DoneInv
  <2>3. \A j \in Updates : j \in invoices => j <= cursor' + 1
    BY <1>1, <1>3 DEF UpdatesInv, DoneInv
  <2>. QED
    BY <2>1, <2>2, <2>3 DEF DoneInv, Answered, Updates
<1>7. LimiterInv'
  <2>1. \A j \in Updates : cursor' < j => cursor < j
    BY <1>1, <1>3
  <2>. QED
    BY <2>1 DEF UpdatesInv, LimiterInv, Known, Sender, Updates
<1>. QED
  BY <1>2, <1>3, <1>6, <1>7

LEMMA CompleteKeeps ==
    ASSUME UpdatesInv, Complete
    PROVE  UpdatesInv'
<1> DEFINE k == poller.upd
<1>1. /\ status' \in [Updates -> {"none", "pending", "done"}] /\ cursor' \in 0..arrived
      /\ k <= cursor' /\ DoneInv' /\ LimiterInv'
  BY CommitKeeps DEF Complete
<1>2. k \in Nat /\ arrived \in Nat /\ poller \in Poller /\ poller.upto \in Nat /\ poller.upto <= arrived
  BY UpdatesAreMessages DEF UpdatesInv, BotTypeOK, Poller, PollerInv, Working, Complete
<1>3. CASE k < poller.upto
  <2>1. poller' = [poller EXCEPT !.pc = "begin", !.cursor = k, !.upd = k + 1, !.reply = None]
    BY <1>3 DEF Complete, Advance
  <2>2. k + 1 \in Nat /\ k + 1 <= poller.upto
    BY <1>2, <1>3
  <2>3. poller' \in Poller
    BY <1>2, <2>1, <2>2 DEF Poller, Working
  <2>4. /\ poller'.pc = "begin"
        /\ poller'.cursor = k /\ poller'.upd = k + 1 /\ poller'.upto = poller.upto
    BY <1>2, <2>1 DEF Poller
  <2>5. BotTypeOK'
    BY <1>1, <2>3 DEF UpdatesInv, Complete, BotTypeOK, Updates
  <2>6. PollerInv'
    BY <1>1, <1>2, <2>2, <2>4 DEF Complete, PollerInv, Working
  <2>. QED
    BY <1>1, <2>5, <2>6 DEF UpdatesInv
<1>4. CASE ~(k < poller.upto)
  <2>1. poller' \in Poller /\ poller'.pc = "poll" /\ poller'.cursor = k
    BY <1>2, <1>4, IdlePollerKeeps DEF Complete, Advance, UpdatesInv
  <2>2. BotTypeOK'
    BY <1>1, <2>1 DEF UpdatesInv, Complete, BotTypeOK, Updates
  <2>3. PollerInv'
    BY <1>1, <2>1 DEF PollerInv, Working
  <2>. QED
    BY <1>1, <2>2, <2>3 DEF UpdatesInv
<1>. QED
  BY <1>3, <1>4

\* After a failure the poller asks again from where it was.
LEMMA RetryKeeps ==
    ASSUME UpdatesInv, poller.pc # "off", Retry, cursor' \in Nat, cursor <= cursor'
    PROVE  poller' \in Poller /\ PollerInv'
<1>1. poller.cursor \in Nat /\ cursor \in Nat /\ poller.cursor <= cursor
  BY UpdatesAreMessages DEF UpdatesInv, BotTypeOK, Poller, PollerInv
<1>2. poller' \in Poller /\ poller'.pc = "poll" /\ poller'.cursor = poller.cursor
  BY <1>1, IdlePollerKeeps DEF Retry, UpdatesInv
<1>3. poller.cursor <= cursor'
  BY <1>1
<1>. QED
  BY <1>2, <1>3 DEF PollerInv, Working

LEMMA CompleteUnknownKeeps ==
    ASSUME UpdatesInv, CompleteUnknown
    PROVE  UpdatesInv'
<1>1. /\ status' \in [Updates -> {"none", "pending", "done"}] /\ cursor' \in 0..arrived
      /\ cursor <= cursor' /\ DoneInv' /\ LimiterInv'
  BY CommitKeeps DEF CompleteUnknown
<1>2. cursor' \in Nat
  BY <1>1, UpdatesAreMessages DEF UpdatesInv, BotTypeOK
<1>3. poller' \in Poller /\ PollerInv'
  BY <1>1, <1>2, RetryKeeps DEF CompleteUnknown
<1>4. BotTypeOK'
  BY <1>1, <1>3 DEF UpdatesInv, CompleteUnknown, BotTypeOK, Updates
<1>. QED
  BY <1>1, <1>3, <1>4 DEF UpdatesInv

LEMMA StepFailsKeeps ==
    ASSUME UpdatesInv, StepFails
    PROVE  UpdatesInv'
<1>1. poller' \in Poller /\ PollerInv'
  BY RetryKeeps, UpdatesAreMessages DEF StepFails, UpdatesInv, BotTypeOK
<1>2. /\ replies' \in [Updates -> Seq(Seq(Lines))]
      /\ \A j \in Updates : replies[j] # <<>> => replies'[j] # <<>>
  <2>1. CASE UNCHANGED replies
    BY <2>1 DEF UpdatesInv, BotTypeOK
  <2>2. CASE poller.pc = "send" /\ replies' = [replies EXCEPT ![poller.upd] = Append(@, poller.reply)]
    <3>1. poller.upd \in Updates /\ poller.reply \in Seq(Lines)
      BY <2>2, AtHand DEF UpdatesInv, PollerInv, Working
    <3>. QED
      BY <2>2, <3>1, LongerReplies DEF UpdatesInv
  <2>. QED
    BY <2>1, <2>2 DEF StepFails
<1>3. BotTypeOK'
  BY <1>1, <1>2 DEF UpdatesInv, StepFails, BotTypeOK, Updates
<1>4. DoneInv'
  BY <1>2 DEF UpdatesInv, StepFails, DoneInv, Answered, Updates
<1>5. LimiterInv'
  BY LimiterFrame DEF StepFails
<1>. QED
  BY <1>1, <1>3, <1>4, <1>5 DEF UpdatesInv

\* Nothing of the loop changes but the accounts.
LEMMA AccountFrame ==
    ASSUME UpdatesInv, account' \in [Users -> Account],
           UNCHANGED <<load, arrived, cursor, status, invoices, replies, dropped, poller, buckets>>
    PROVE  UpdatesInv'
<1>1. BotTypeOK'
  BY DEF UpdatesInv, BotTypeOK, Updates
<1>2. DoneInv' /\ LimiterInv'
  BY DoneFrame, LimiterFrame
<1>3. PollerInv'
  BY DEF UpdatesInv, PollerInv, Answered
<1>. QED
  BY <1>1, <1>2, <1>3 DEF UpdatesInv

LEMMA AccountChangesKeeps ==
    ASSUME UpdatesInv, AccountChanges
    PROVE  UpdatesInv'
<1>1. PICK u \in Users : Order(u) \/ Pay(u) \/ TimePasses(u) \/ Moderate(u)
  BY DEF AccountChanges
<1> DEFINE a == account[u]
<1>2. account \in [Users -> Account] /\ a \in Account /\ a.term + 1 \in Nat
  BY DEF UpdatesInv, BotTypeOK, Account
<1>3. \E b \in Account : account' = [account EXCEPT ![u] = b]
  <2>1. CASE Order(u)
    <3>1. [a EXCEPT !.invoice = "pending"] \in Account
      BY <1>2 DEF Account
    <3>. QED
      BY <2>1, <3>1 DEF Order
  <2>2. CASE Pay(u)
    <3>1. [a EXCEPT !.invoice = "settled", !.term = a.term + 1, !.phase = "far"] \in Account
      BY <1>2 DEF Account
    <3>2. account' = [account EXCEPT ![u] = [a EXCEPT !.invoice = "settled", !.term = a.term + 1, !.phase = "far"]]
      BY <1>2, <2>2 DEF Pay, Account
    <3>. QED
      BY <3>1, <3>2
  <2>3. CASE TimePasses(u)
    <3>1. NextPhase[a.phase] \in {"far", "soon", "grace", "over"}
      BY <1>2, <2>3 DEF TimePasses, NextPhase, Account
    <3>2. [a EXCEPT !.phase = NextPhase[a.phase]] \in Account
      BY <1>2, <3>1 DEF Account
    <3>. QED
      BY <2>3, <3>2 DEF TimePasses
  <2>4. CASE Moderate(u)
    <3>1. [a EXCEPT !.user = IF a.user = "active" THEN "suspended" ELSE "active"] \in Account
      BY <1>2 DEF Account
    <3>. QED
      BY <2>4, <3>1 DEF Moderate
  <2>. QED
    BY <1>1, <2>1, <2>2, <2>3, <2>4
<1>4. account' \in [Users -> Account]
  BY <1>2, <1>3
<1>. QED
  BY <1>4, AccountFrame DEF AccountChanges

LEMMA CrashKeeps ==
    ASSUME UpdatesInv, Crash
    PROVE  UpdatesInv'
<1>1. poller' \in Poller /\ poller'.pc = "off"
  BY DEF Crash, Forget, Off, Poller
<1>2. buckets' \in [Users -> Bucket] /\ \A u \in Users : ~buckets'[u].live
  BY NoBucketIsBucket DEF Crash, Forget
<1>3. BotTypeOK'
  BY <1>1, <1>2 DEF UpdatesInv, Crash, BotTypeOK, Updates
<1>4. DoneInv'
  BY DoneFrame DEF Crash
<1>5. PollerInv'
  BY <1>1 DEF PollerInv, Working
<1>6. LimiterInv'
  <2>1. \A k \in Updates : Sender(k) \in Users
    BY UpdatesAreMessages DEF UpdatesInv, Sender
  <2>. QED
    BY <1>2, <2>1 DEF Crash, LimiterInv, Known, Sender, Updates
<1>. QED
  BY <1>3, <1>4, <1>5, <1>6 DEF UpdatesInv

----------------------------------------------------------------------------
(* The notifier keeps its invariant.                                       *)

LEMMA IdleVisits ==
    /\ Visit(Idle) /\ Idle.pc = "idle"
    /\ \A p, n : n = [Idle EXCEPT !.pc = "status", !.page = p] => Visit(n) /\ n.pc = "status"
<1>1. Visit(Idle) /\ Idle.pc = "idle"
  BY DEF Visit, Idle
<1>2. ASSUME NEW p, NEW n, n = [Idle EXCEPT !.pc = "status", !.page = p]
      PROVE  Visit(n) /\ n.pc = "status"
  BY <1>1, <1>2 DEF Visit
<1>. QED
  BY <1>1, <1>2

\* Going on keeps a list that is current.
LEMMA NextNoteKeeps ==
    ASSUME Visit(nt), NEW rest \in SUBSET Event, NextNote(rest),
           Head(nt.page) \in Users => \A e \in rest : Current(e)
    PROVE  /\ Visit(nt') /\ nt'.pc \in {"idle", "status", "send"}
           /\ nt'.pc = "send" /\ Head(nt'.page) \in Users => \A e \in nt'.todo : Current(e)'
<1>1. CASE rest = {}
  <2>1. NextUser
    BY <1>1 DEF NextNote
  <2>. QED
    BY <2>1, IdleVisits DEF NextUser
<1>2. CASE rest # {}
  <2>1. nt' = [nt EXCEPT !.pc = "send", !.todo = rest, !.e = None]
    BY <1>2 DEF NextNote
  <2>2. /\ Visit(nt') /\ nt'.pc = "send" /\ nt'.page = nt.page /\ nt'.todo = rest
        /\ nt'.allow = nt.allow /\ nt'.seen = nt.seen
    BY <2>1 DEF Visit
  <2>3. \A e \in rest : Current(e) => Current(e)'
    BY <2>2 DEF Current
  <2>. QED
    BY <2>2, <2>3
<1>. QED
  BY <1>1, <1>2
\* A step of the visit that goes on with a list that is current, the tables being well formed.
LEMMA GoingOn ==
    ASSUME NotifierInv, NEW rest \in SUBSET Event, NextNote(rest),
           Head(nt.page) \in Users => \A e \in rest : Current(e),
           notif' \in [Users -> [Event -> {"none", "pending", "sent", "canceled"}]],
           told' \in [Users -> [Event -> Nat]]
    PROVE  NotifierInv'
<1>1. /\ Visit(nt') /\ nt'.pc \in {"idle", "status", "send"}
      /\ nt'.pc = "send" /\ Head(nt'.page) \in Users => \A e \in nt'.todo : Current(e)'
  BY NextNoteKeeps DEF NotifierInv
<1>. QED
  BY <1>1 DEF NotifierInv

\* A step after which the notifier has nothing in hand.
LEMMA NothingInHand ==
    ASSUME NotifierInv, Visit(nt'), nt'.pc \in {"idle", "status"}, UNCHANGED <<notif, told>>
    PROVE  NotifierInv'
  BY DEF NotifierInv

LEMMA ReadStatusKeeps ==
    ASSUME NotifierInv, ReadStatus
    PROVE  NotifierInv'
<1> DEFINE a == account[Head(nt.page)]
<1>1. /\ nt' = [nt EXCEPT !.pc = "reconcile", !.events = notificationEvents(a),
                          !.allow = Eligible(a), !.seen = a.term]
      /\ UNCHANGED <<notif, told>>
  BY DEF ReadStatus
<1>2. \A e \in notificationEvents(a) : Eligible(a) /\ e.term = a.term
  BY DEF notificationEvents
<1> HIDE DEF a
<1>3. /\ Visit(nt') /\ nt'.pc = "reconcile" /\ nt'.events = notificationEvents(a)
      /\ nt'.allow = Eligible(a) /\ nt'.seen = a.term
  BY <1>1 DEF NotifierInv, Visit
<1>4. \A e \in nt'.events : Current(e)'
  BY <1>2, <1>3 DEF Current
<1>. QED
  BY <1>1, <1>3, <1>4 DEF NotifierInv

LEMMA ReconcileKeeps ==
    ASSUME NotifierInv, ReconcileNotifications
    PROVE  NotifierInv'
<1> DEFINE u == Head(nt.page)
           S == {"none", "pending", "sent", "canceled"}
<1>1. /\ Visit(nt') /\ nt'.pc = "pending" /\ nt'.page = nt.page
      /\ nt'.allow = nt.allow /\ nt'.seen = nt.seen
  BY DEF ReconcileNotifications, NotifierInv, Visit
<1>2. notif' = [notif EXCEPT ![u] = Reconciled(notif[u], nt.events, nt.allow)] /\ told' = told
  BY DEF ReconcileNotifications
<1>3. ASSUME u \in Users
      PROVE  /\ Reconciled(notif[u], nt.events, nt.allow) \in [Event -> S]
             /\ \A e \in Event : Reconciled(notif[u], nt.events, nt.allow)[e] = "pending" => Current(e)
  <2>1. notif[u] \in [Event -> S]
    BY <1>3 DEF NotifierInv
  <2>2. \A e \in nt.events : Current(e)
    BY DEF NotifierInv, ReconcileNotifications
  <2>3. ASSUME NEW e \in Event, Reconciled(notif[u], nt.events, nt.allow)[e] = "pending", e \notin nt.events
        PROVE  e.kind = "activation" /\ nt.allow
    BY <2>3 DEF Reconciled
  <2>4. \A e \in Event : Reconciled(notif[u], nt.events, nt.allow)[e] = "pending" => Current(e)
    BY <2>2, <2>3 DEF Current
  <2>5. Reconciled(notif[u], nt.events, nt.allow) \in [Event -> S]
    BY <2>1 DEF Reconciled
  <2>. QED
    BY <2>4, <2>5
<1>4. notif' \in [Users -> [Event -> S]]
  BY <1>2, <1>3 DEF NotifierInv
<1>5. u \in Users => \A e \in Event : notif'[u][e] = "pending" => Current(e)
  BY <1>2, <1>3 DEF NotifierInv
<1>6. \A e \in Event : Current(e) => Current(e)'
  BY <1>1 DEF Current
<1>. QED
  BY <1>1, <1>2, <1>4, <1>5, <1>6 DEF NotifierInv

LEMMA PendingKeeps ==
    ASSUME NotifierInv, PendingNotifications
    PROVE  NotifierInv'
<1>1. PICK s \in PendingBatch(Head(nt.page)) : NextNote(s)
  BY DEF PendingNotifications
<1>2. s \in SUBSET {e \in Event : notif[Head(nt.page)][e] = "pending"}
  BY DEF PendingBatch
<1>3. Head(nt.page) \in Users => \A e \in s : Current(e)
  BY <1>2 DEF NotifierInv, PendingNotifications
<1>. QED
  BY <1>1, <1>2, <1>3, GoingOn DEF NotifierInv, PendingNotifications

LEMMA ToldIsCounted ==
    ASSUME NotifierInv, NEW u, NEW e \in Event, NEW t, t = [told EXCEPT ![u][e] = @ + 1]
    PROVE  /\ t \in [Users -> [Event -> Nat]]
           /\ \A v \in Users, f \in Event : t[v][f] > told[v][f] => v = u /\ f = e
<1>1. told \in [Users -> [Event -> Nat]] /\ \A v \in Users, f \in Event : told[v][f] \in Nat
  BY DEF NotifierInv
<1>2. CASE u \in Users
  <2> DEFINE r == [told[u] EXCEPT ![e] = told[u][e] + 1]
  <2>1. told[u] \in [Event -> Nat] /\ told[u][e] \in Nat
    BY <1>1, <1>2
  <2>2. r \in [Event -> Nat] /\ \A f \in Event : f # e => r[f] = told[u][f]
    BY <2>1
  <2>3. t = [told EXCEPT ![u] = r]
    BY <2>1
  <2> HIDE DEF r
  <2>4. t \in [Users -> [Event -> Nat]] /\ t[u] = r /\ \A v \in Users : v # u => t[v] = told[v]
    BY <1>1, <1>2, <2>2, <2>3
  <2>5. ASSUME NEW v \in Users, NEW f \in Event, t[v][f] > told[v][f]
        PROVE  v = u /\ f = e
    <3>1. t[v][f] # told[v][f]
      BY <1>1, <2>5
    <3>. QED
      BY <2>2, <2>4, <3>1
  <2>. QED
    BY <2>4, <2>5
<1>3. CASE u \notin Users
  <2>1. t = told
    BY <1>1, <1>3
  <2>2. \A v \in Users, f \in Event : ~(told[v][f] > told[v][f])
    BY <1>1
  <2>. QED
    BY <1>1, <2>1, <2>2, Zenon
<1>. QED
  BY <1>2, <1>3

LEMMA MarkedRows ==
    ASSUME NotifierInv, NEW u, NEW e
    PROVE  [notif EXCEPT ![u][e] = IF @ = "pending" THEN "sent" ELSE @]
             \in [Users -> [Event -> {"none", "pending", "sent", "canceled"}]]
  BY DEF NotifierInv

LEMMA SendNotificationKeeps ==
    ASSUME NotifierInv, SendNotification
    PROVE  NotifierInv'
<1>1. PICK e \in nt.todo : /\ told' = [told EXCEPT ![Head(nt.page)][e] = @ + 1]
                           /\ nt' = [nt EXCEPT !.pc = "mark", !.e = e]
  BY DEF SendNotification
<1>2. told' \in [Users -> [Event -> Nat]]
  <2>1. e \in Event
    BY DEF NotifierInv, Visit
  <2>2. told' = [told EXCEPT ![Head(nt.page)][e] = @ + 1] => told' \in [Users -> [Event -> Nat]]
    BY <2>1, ToldIsCounted
  <2>. QED
    BY <1>1, <2>2
<1>3. /\ Visit(nt') /\ nt'.pc = "mark" /\ nt'.page = nt.page /\ nt'.todo = nt.todo
      /\ nt'.allow = nt.allow /\ nt'.seen = nt.seen
  BY <1>1 DEF NotifierInv, Visit
<1>4. \A x \in nt.todo : Current(x) => Current(x)'
  BY <1>3 DEF Current
<1>. QED
  BY <1>2, <1>3, <1>4 DEF NotifierInv, SendNotification

LEMMA MarkKeeps ==
    ASSUME NotifierInv, MarkNotificationSent
    PROVE  NotifierInv'
<1>1. notif' \in [Users -> [Event -> {"none", "pending", "sent", "canceled"}]]
  BY MarkedRows DEF MarkNotificationSent
<1>2. nt.todo \ {nt.e} \in SUBSET Event
  BY DEF NotifierInv, Visit
<1>3. Head(nt.page) \in Users => \A e \in nt.todo \ {nt.e} : Current(e)
  BY DEF NotifierInv, MarkNotificationSent
<1>. QED
  BY <1>1, <1>2, <1>3, GoingOn DEF NotifierInv, MarkNotificationSent

LEMMA NotifierFailsKeeps ==
    ASSUME NotifierInv, NotifierFails
    PROVE  NotifierInv'
<1>1. CASE UNCHANGED <<nt, notif, told>>
  BY <1>1 DEF NotifierInv, Visit, Current
<1>2. CASE NextUser /\ UNCHANGED <<notif, told>>
  <2>1. Visit(nt') /\ nt'.pc \in {"idle", "status"}
    BY <1>2, IdleVisits DEF NextUser
  <2>. QED
    BY <1>2, <2>1, NothingInHand
<1>3. CASE /\ nt.pc = "send"
           /\ \E e \in nt.todo : /\ NextNote(nt.todo \ {e})
                                 /\ told' \in {told, [told EXCEPT ![Head(nt.page)][e] = @ + 1]}
           /\ UNCHANGED notif
  <2>1. PICK e \in nt.todo : /\ NextNote(nt.todo \ {e})
                             /\ told' \in {told, [told EXCEPT ![Head(nt.page)][e] = @ + 1]}
    BY <1>3
  <2>2. told' \in [Users -> [Event -> Nat]]
    <3>1. e \in Event /\ told \in [Users -> [Event -> Nat]]
      BY DEF NotifierInv, Visit
    <3>2. told' = [told EXCEPT ![Head(nt.page)][e] = @ + 1] => told' \in [Users -> [Event -> Nat]]
      BY <3>1, ToldIsCounted
    <3>. QED
      BY <2>1, <3>1, <3>2
  <2>3. nt.todo \ {e} \in SUBSET Event
    BY DEF NotifierInv, Visit
  <2>4. Head(nt.page) \in Users => \A x \in nt.todo \ {e} : Current(x)
    BY <1>3 DEF NotifierInv
  <2>. QED
    BY <1>3, <2>1, <2>2, <2>3, <2>4, GoingOn DEF NotifierInv
<1>4. CASE /\ nt.pc = "mark" /\ NextNote(nt.todo \ {nt.e})
           /\ notif' \in {notif, [notif EXCEPT ![Head(nt.page)][nt.e] = IF @ = "pending" THEN "sent" ELSE @]}
           /\ UNCHANGED told
  <2>1. notif' \in [Users -> [Event -> {"none", "pending", "sent", "canceled"}]]
    <3>1. [notif EXCEPT ![Head(nt.page)][nt.e] = IF @ = "pending" THEN "sent" ELSE @]
            \in [Users -> [Event -> {"none", "pending", "sent", "canceled"}]]
      BY MarkedRows
    <3>2. notif \in [Users -> [Event -> {"none", "pending", "sent", "canceled"}]]
      BY DEF NotifierInv
    <3>. QED
      BY <1>4, <3>1, <3>2
  <2>2. nt.todo \ {nt.e} \in SUBSET Event
    BY DEF NotifierInv, Visit
  <2>3. Head(nt.page) \in Users => \A e \in nt.todo \ {nt.e} : Current(e)
    BY <1>4 DEF NotifierInv
  <2>. QED
    BY <1>4, <2>1, <2>2, <2>3, GoingOn DEF NotifierInv
<1>. QED
  BY <1>1, <1>2, <1>3, <1>4 DEF NotifierFails
----------------------------------------------------------------------------
(* The theorems.                                                           *)

LEMMA BotInvInit == Init => UpdatesInv /\ NotifierInv
<1> SUFFICES ASSUME Init PROVE UpdatesInv /\ NotifierInv
  OBVIOUS
<1>1. UpdatesInv
  BY InitEstablishes DEF Init
<1>2. NotifierInv
  BY IdleVisits DEF Init, NotifierInv
<1>. QED
  BY <1>1, <1>2

LEMMA UpdatesInvNext == UpdatesInv /\ [Next]_vars => UpdatesInv'
<1> SUFFICES ASSUME UpdatesInv, [Next]_vars PROVE UpdatesInv'
  OBVIOUS
<1>1. CASE UpdatesNext
  BY <1>1, ArriveKeeps, StartKeeps, GetUpdatesKeeps, BeginKeeps, IgnoreKeeps, HandleKeeps, SendKeeps,
     CompleteKeeps, CompleteUnknownKeeps, StepFailsKeeps DEF UpdatesNext, PollerStep
<1>2. CASE AccountChanges
  BY <1>2, AccountChangesKeeps
<1>3. CASE NotifierStep \/ NotifierFails \/ UNCHANGED vars
  <2>1. UNCHANGED <<load, arrived, cursor, status, account, invoices, replies, dropped, poller, buckets>>
    BY <1>3 DEF NotifierStep, NotificationUsers, ReadStatus, ReconcileNotifications, PendingNotifications,
                SendNotification, MarkNotificationSent, NotifierFails, vars, botVars
  <2>2. account' \in [Users -> Account]
    BY <2>1 DEF UpdatesInv, BotTypeOK
  <2>. QED
    BY <2>1, <2>2, AccountFrame
<1>4. CASE Crash
  BY <1>4, CrashKeeps
<1>. QED
  BY <1>1, <1>2, <1>3, <1>4 DEF Next

LEMMA NotifierInvNext == NotifierInv /\ [Next]_vars => NotifierInv'
<1> SUFFICES ASSUME NotifierInv, [Next]_vars PROVE NotifierInv'
  OBVIOUS
<1>1. CASE UNCHANGED notifierVars
  BY <1>1 DEF notifierVars, NotifierInv, Visit, Current
<1>2. CASE NotificationUsers
  <2>1. Visit(nt') /\ nt'.pc = "status" /\ UNCHANGED <<notif, told>>
    BY <1>2, IdleVisits DEF NotificationUsers
  <2>. QED
    BY <2>1, NothingInHand
<1>3. CASE Crash
  <2>1. Visit(nt') /\ nt'.pc = "idle" /\ UNCHANGED <<notif, told>>
    BY <1>3, IdleVisits DEF Crash
  <2>. QED
    BY <2>1, NothingInHand
<1>4. CASE ReadStatus \/ ReconcileNotifications \/ PendingNotifications \/ SendNotification
           \/ MarkNotificationSent \/ NotifierFails
  BY <1>4, ReadStatusKeeps, ReconcileKeeps, PendingKeeps, SendNotificationKeeps, MarkKeeps,
     NotifierFailsKeeps
<1>. QED
  BY <1>1, <1>2, <1>3, <1>4 DEF Next, NotifierStep, vars

\* An update behind the durable cursor was answered, or refused by the limiter and then
\* without an invoice: Poller.Run, Bot.HandleUpdate and the limiter, whatever fails.
THEOREM UpdatesAreAnswered == Spec => []ServedIsAnswered
<1>1. UpdatesInv => ServedIsAnswered
  <2> SUFFICES ASSUME UpdatesInv, NEW k \in Updates, k <= cursor, load.updates[k].cmd # "group",
                      replies[k] = <<>>
               PROVE  k \in dropped /\ k \notin invoices
    BY DEF ServedIsAnswered
  <2>. QED
    BY DEF UpdatesInv, DoneInv, Answered
<1>. QED
  BY <1>1, BotInvInit, UpdatesInvNext, PTL DEF Spec

\* A message the notifier sends is about what this visit saw: the account was admitted
\* and a reminder is about its present term (Notifier.RunOnce, ReconcileNotifications).
THEOREM RemindersAreCurrent == Spec => ReminderIsCurrent
<1> DEFINE Told == \A u \in Users, e \in Event : told'[u][e] > told[u][e] =>
                      nt.allow /\ (e.kind # "activation" => e.term = nt.seen)
<1>1. NotifierInv /\ [Next]_vars => [Told]_vars
  <2> SUFFICES ASSUME NotifierInv, Next, NEW u \in Users, NEW e \in Event, told'[u][e] > told[u][e]
               PROVE  Current(e)
    BY DEF Current
  <2>1. told[u][e] \in Nat
    BY DEF NotifierInv
  <2>2. told' # told
    BY <2>1
  <2>3. /\ nt.pc = "send"
        /\ \E f \in nt.todo : told' = [told EXCEPT ![Head(nt.page)][f] = @ + 1]
    BY <2>2 DEF Next, notifierVars, NotifierStep, NotificationUsers, ReadStatus, ReconcileNotifications,
                PendingNotifications, SendNotification, MarkNotificationSent, NotifierFails, Crash
  <2>4. PICK f \in nt.todo : told' = [told EXCEPT ![Head(nt.page)][f] = @ + 1]
    BY <2>3
  <2>5. f \in Event
    BY DEF NotifierInv, Visit
  <2>6. u = Head(nt.page) /\ e = f
    BY <2>4, <2>5, ToldIsCounted
  <2>. QED
    BY <2>3, <2>6 DEF NotifierInv
<1>. QED
  BY <1>1, BotInvInit, NotifierInvNext, PTL DEF Spec, ReminderIsCurrent

-----------------------------------------------------------------------------
(***************************************************************************)
(* The delivery channels, for any channels, places, keys and limits, any    *)
(* faults and changes of the registry.  A resolve walks down the copy of    *)
(* the registry it made, so what it has left is an end of that copy, and    *)
(* the kinds it has passed were each not good at the step that passed them. *)
(***************************************************************************)
IsSequence(s) == \E S : s \in Seq(S)

\* The kinds that a resolve r has tried are the first of its snapshot.
Passed(r) == Len(r.snapshot) - Len(r.todo)

Walk(r) ==
    /\ r = [pc |-> r.pc, snapshot |-> r.snapshot, todo |-> r.todo, kind |-> r.kind, blob |-> r.blob]
    /\ r.pc \in {"idle", "try", "accepted", "failed", "canceled", "cut"}
    /\ IsSequence(r.snapshot) /\ IsSequence(r.todo)
    /\ Passed(r) \in Nat
    /\ r.pc = "try" => r.todo # <<>>
    /\ \A i \in 1..Len(r.todo) : r.todo[i] = r.snapshot[i + Passed(r)]

\* None of the kinds that r has passed is in S; all are passed when it failed.
Misses(r, S) ==
    /\ \A i \in 1..Passed(r) : r.snapshot[i] \notin S
    /\ r.pc = "failed" => \A i \in 1..Len(r.snapshot) : r.snapshot[i] \notin S

FailoverInv ==
    /\ IsSequence(entries)
    /\ mirrorCursor \in Nat
    /\ steady \subseteq Good
    /\ Walk(resolver)
    /\ Misses(resolver, steady)

LEMMA SequenceByLength ==
  ASSUME NEW n \in Nat, NEW s, s = [i \in 1..n |-> s[i]] PROVE IsSequence(s) /\ Len(s) = n
<1>1. s \in Seq({s[i] : i \in 1..n}) /\ DOMAIN s = 1..n
  OBVIOUS
<1>2. IsSequence(s)
  BY <1>1 DEF IsSequence
<1>3. PICK m \in Nat : m = Len(s) /\ DOMAIN s = 1..m
  BY <1>1
<1>4. m \in 1..m \/ m = 0
  BY <1>3
<1>5. n \in 1..n \/ n = 0
  OBVIOUS
<1>6. m = n
  BY <1>1, <1>3, <1>4, <1>5
<1> QED
  BY <1>2, <1>3, <1>6

LEMMA SequenceDomain ==
  ASSUME NEW s, IsSequence(s)
  PROVE  Len(s) \in Nat /\ DOMAIN s = 1..Len(s) /\ s = [i \in 1..Len(s) |-> s[i]]
<1>1. PICK S : s \in Seq(S)
  BY DEF IsSequence
<1> QED
  BY <1>1

LEMMA OrderedIsSequence ==
  ASSUME IsSequence(entries)
  PROVE  IsSequence(Ordered) /\ Len(Ordered) = Len(entries)
<1>1. PICK n \in Nat : n = Len(entries) /\ DOMAIN entries = 1..n
  BY SequenceDomain
<1>2. Ordered = [i \in 1..n |-> Ordered[i]]
  BY <1>1 DEF Ordered
<1> HIDE DEF Ordered
<1> QED
  BY <1>1, <1>2, SequenceByLength

\* Every place of a good kind serves, so the first one tried answers with a copy that the
\* resolver accepts.
LEMMA GoodIsAccepted ==
  ASSUME mirrorCursor \in Nat, NEW k \in Good
  PROVE  Verifies(Fetch(k)) /\ Fresh(Fetch(k))
<1>1. PICK n \in Nat : n >= 1 /\ n = Len(Places[k]) /\ DOMAIN Places[k] = 1..n
  <2>1. k \in Kinds
    BY DEF Good
  <2>2. Places[k] \in Seq(AllPlaces) /\ Places[k] # <<>>
    BY <2>1, ChannelsAssumption
  <2>3. Len(Places[k]) \in Nat /\ Len(Places[k]) >= 1 /\ DOMAIN Places[k] = 1..Len(Places[k])
    BY <2>2
  <2> QED
    BY <2>3
<1>2. \A i \in 1..n : Mirror(k, i) \in ToSet(Places[k])
  <2> SUFFICES ASSUME NEW i \in 1..n PROVE Mirror(k, i) \in ToSet(Places[k])
    OBVIOUS
  <2>1. PICK x \in Int : x = mirrorCursor + i - 1
    OBVIOUS
  <2>2. n >= 1
    BY <1>1
  <2>3. (x % n) + 1 \in 1..n
    BY <2>2
  <2> QED
    BY <1>1, <2>1, <2>3 DEF Mirror, ToSet
<1>3. \A i \in 1..n : Serves(Mirror(k, i))
  BY <1>2 DEF Good
<1>4. \A i \in 1..n : Answers(Mirror(k, i))
  BY <1>3 DEF Serves, Answers
<1>5. PICK i \in 1..n : Fetch(k) = medium[Mirror(k, i)]
  <2> DEFINE first(i) == /\ Answers(Mirror(k, i))
                         /\ \A j \in 1..(i - 1) : ~Answers(Mirror(k, j))
             c == CHOOSE i \in 1..n : first(i)
  <2>1. 1 \in 1..n /\ first(1)
    BY <1>1, <1>4
  <2>2. c \in 1..n
    BY <2>1
  <2>3. Fetch(k) = medium[Mirror(k, c)]
    BY <1>1, <1>4, <2>1 DEF Fetch
  <2> QED
    BY <2>2, <2>3
<1> QED
  BY <1>3, <1>5 DEF Serves, Verifies, Decodes

LEMMA SortedIsSequence ==
  ASSUME NEW s, IsSequence(s) PROVE IsSequence(Sorted(s))
<1>1. PICK n \in Nat : DOMAIN s = 1..n
  BY SequenceDomain
<1> DEFINE t == Sorted(s)
<1>2. t = [i \in 1..n |-> t[i]]
  BY <1>1 DEF Sorted
<1> HIDE DEF t
<1>3. IsSequence(t)
  BY <1>2, SequenceByLength
<1> QED
  BY <1>3 DEF t

LEMMA ReconfiguredIsSequence ==
  ASSUME IsSequence(entries), NEW k
  PROVE  /\ \A p : IsSequence(WithChannel(k, p))
         /\ IsSequence(WithoutChannel(k))
<1>1. PICK n \in Nat : n = Len(entries) /\ DOMAIN entries = 1..n
  BY SequenceDomain
<1>2. ASSUME NEW p PROVE IsSequence(WithChannel(k, p))
  <2> DEFINE e == [kind |-> k, priority |-> p]
             other == [i \in DOMAIN entries |->
                          IF i \in Registration(k) THEN e ELSE entries[i]]
  <2>1. IsSequence(Append(entries, e))
    <3>1. PICK S : entries \in Seq(S)
      BY DEF IsSequence
    <3> HIDE DEF e
    <3>2. entries \in Seq(S \cup {e}) /\ e \in S \cup {e}
      BY <3>1
    <3>3. Append(entries, e) \in Seq(S \cup {e})
      BY <3>2
    <3> QED
      BY <3>3 DEF IsSequence
  <2>2. IsSequence(other)
    <3>1. other = [i \in 1..n |-> other[i]]
      BY <1>1
    <3> HIDE DEF other
    <3> QED
      BY <3>1, SequenceByLength
  <2>3. \/ WithChannel(k, p) = Sorted(Append(entries, e))
        \/ WithChannel(k, p) = Sorted(other)
    BY DEF WithChannel
  <2> HIDE DEF e, other
  <2> QED
    BY <2>1, <2>2, <2>3, SortedIsSequence
<1>3. IsSequence(WithoutChannel(k))
  <2>1. CASE Registration(k) = {}
    BY <2>1 DEF WithoutChannel
  <2>2. CASE Registration(k) # {}
    <3> DEFINE i == CHOOSE i \in Registration(k) : TRUE
    <3>1. i \in 1..n
      BY <1>1, <2>2 DEF Registration
    <3>2. WithoutChannel(k) = SubSeq(entries, 1, i - 1) \o SubSeq(entries, i + 1, n)
      BY <1>1, <2>2 DEF WithoutChannel, RemoveAt
    <3> HIDE DEF i
    <3>3. PICK S : entries \in Seq(S)
      BY DEF IsSequence
    <3>4. SubSeq(entries, 1, i - 1) \in Seq(S) /\ SubSeq(entries, i + 1, n) \in Seq(S)
      BY <1>1, <3>1, <3>3
    <3>5. SubSeq(entries, 1, i - 1) \o SubSeq(entries, i + 1, n) \in Seq(S)
      BY <3>4
    <3> QED
      BY <3>2, <3>5 DEF IsSequence
  <2> QED
    BY <2>1, <2>2
<1> QED
  BY <1>2, <1>3

LEMMA FailoverInit == ASSUME ChannelsInit PROVE FailoverInv
<1>1. IsSequence(entries)
  <2>1. PICK n \in Nat : DOMAIN Registered = 1..n
    BY ChannelsAssumption
  <2>2. entries = [i \in 1..n |-> entries[i]]
    BY <2>1 DEF ChannelsInit
  <2> QED
    BY <2>2, SequenceByLength
<1>2. /\ resolver.pc = "idle" /\ resolver.snapshot = <<>> /\ resolver.todo = <<>>
      /\ resolver = [pc |-> resolver.pc, snapshot |-> resolver.snapshot, todo |-> resolver.todo,
                     kind |-> resolver.kind, blob |-> resolver.blob]
  BY DEF ChannelsInit, NoResolve
<1>3. <<>> \in Seq({}) /\ Len(<<>>) = 0
  OBVIOUS
<1>4. Walk(resolver) /\ Misses(resolver, steady)
  BY <1>2, <1>3 DEF Walk, Misses, Passed, IsSequence
<1> QED
  BY <1>1, <1>4 DEF FailoverInv, ChannelsInit

\* A step of the rest of the world: what the resolve has passed stays passed.
LEMMA FailoverFrame ==
  ASSUME FailoverInv, resolver' = resolver, steady' = steady \cap Good',
         IsSequence(entries'), mirrorCursor' \in Nat
  PROVE  FailoverInv'
<1>1. Misses(resolver, steady')
  BY DEF FailoverInv, Misses
<1> QED
  BY <1>1 DEF FailoverInv

LEMMA CursorMoves ==
  ASSUME mirrorCursor \in Nat, NEW k PROVE NextCursor(k) \in Nat
<1>1. (mirrorCursor + 1) % CursorSpan \in Nat
  BY ChannelsAssumption
<1> QED
  BY <1>1 DEF NextCursor

LEMMA FailoverChanges ==
  ASSUME FailoverInv, Changes, steady' = steady \cap Good'
  PROVE  FailoverInv'
<1>0. IsSequence(entries) /\ mirrorCursor \in Nat
  BY DEF FailoverInv
<1>1. resolver' = resolver
  BY DEF Changes, Pack, Broadcast, Replicate, Disturb,
         Reconfigure, FetchViaChannel, Tick
<1>2. \/ entries' = entries
      \/ \E k : entries' = WithoutChannel(k) \/ \E p : entries' = WithChannel(k, p)
  BY DEF Changes, Pack, Broadcast, Replicate, Disturb,
         Reconfigure, FetchViaChannel, Tick
<1>3. mirrorCursor' = mirrorCursor \/ \E k : mirrorCursor' = NextCursor(k)
  BY DEF Changes, Pack, Broadcast, Replicate, Disturb,
         Reconfigure, FetchViaChannel, Tick
<1>4. IsSequence(entries')
  BY <1>0, <1>2, ReconfiguredIsSequence
<1>5. mirrorCursor' \in Nat
  BY <1>0, <1>3, CursorMoves
<1> QED
  BY <1>1, <1>4, <1>5, FailoverFrame

LEMMA FailoverResolve ==
  ASSUME FailoverInv, Resolve, steady' = Good' PROVE FailoverInv'
<1>1. IsSequence(Ordered)
  BY OrderedIsSequence DEF FailoverInv
<1>2. PICK s : s = Ordered
  OBVIOUS
<1>3. /\ resolver'.pc = IF s = <<>> THEN "failed" ELSE "try"
      /\ resolver'.snapshot = s /\ resolver'.todo = s
      /\ resolver' = [pc |-> resolver'.pc, snapshot |-> resolver'.snapshot,
                      todo |-> resolver'.todo, kind |-> resolver'.kind, blob |-> resolver'.blob]
  BY <1>2 DEF Resolve, NoResolve
<1>4. Len(s) \in Nat
  BY <1>1, <1>2, SequenceDomain
<1>5. Passed(resolver') = 0
  BY <1>3, <1>4 DEF Passed
<1>6. Walk(resolver')
  BY <1>1, <1>2, <1>3, <1>4, <1>5 DEF Walk
<1>7. Misses(resolver', steady')
  BY <1>3, <1>5 DEF Misses
<1> QED
  BY <1>6, <1>7 DEF FailoverInv, Resolve

LEMMA FailoverTry ==
  ASSUME FailoverInv, Try, steady' = steady \cap Good'
  PROVE  FailoverInv'
<1>0. /\ entries' = entries /\ mirrorCursor' \in Nat
      /\ Walk(resolver) /\ Misses(resolver, steady') /\ resolver.pc = "try"
      /\ IsSequence(entries) /\ mirrorCursor \in Nat /\ steady \subseteq Good
  BY CursorMoves DEF Try, FailoverInv, Misses
<1> DEFINE k == Head(resolver.todo)
<1>1. CASE Verifies(Fetch(k)) /\ Fresh(Fetch(k))
  <2>1. resolver' = [resolver EXCEPT !.pc = "accepted", !.kind = k, !.blob = Fetch(k)]
    BY <1>1 DEF Try
  <2>2. /\ resolver'.pc = "accepted"
        /\ resolver'.snapshot = resolver.snapshot /\ resolver'.todo = resolver.todo
        /\ resolver' = [pc |-> resolver'.pc, snapshot |-> resolver'.snapshot,
                        todo |-> resolver'.todo, kind |-> resolver'.kind, blob |-> resolver'.blob]
    BY <1>0, <2>1 DEF Walk
  <2>3. Passed(resolver') = Passed(resolver)
    BY <2>2 DEF Passed
  <2>4. Walk(resolver') /\ Misses(resolver', steady')
    BY <1>0, <2>2, <2>3 DEF Walk, Misses
  <2> QED
    BY <1>0, <2>4 DEF FailoverInv
<1>2. CASE ~(Verifies(Fetch(k)) /\ Fresh(Fetch(k)))
  <2>1. k \notin steady
    BY <1>0, <1>2, GoodIsAccepted
  <2>2. PICK rest : rest = Tail(resolver.todo)
    OBVIOUS
  <2>3. resolver' = [resolver EXCEPT !.pc = IF rest = <<>> THEN "failed" ELSE "try", !.todo = rest]
    BY <1>2, <2>2 DEF Try, MoveOn
  <2>4. /\ resolver'.pc = IF rest = <<>> THEN "failed" ELSE "try"
        /\ resolver'.snapshot = resolver.snapshot /\ resolver'.todo = rest
        /\ resolver' = [pc |-> resolver'.pc, snapshot |-> resolver'.snapshot,
                        todo |-> resolver'.todo, kind |-> resolver'.kind, blob |-> resolver'.blob]
    BY <1>0, <2>3 DEF Walk
  <2>5. PICK n \in Nat : n >= 1 /\ n = Len(resolver.todo)
    <3>1. PICK S : resolver.todo \in Seq(S) /\ resolver.todo # <<>>
      BY <1>0 DEF Walk, IsSequence
    <3>2. Len(resolver.todo) \in Nat /\ Len(resolver.todo) >= 1
      BY <3>1
    <3> QED
      BY <3>2
  <2>6. /\ IsSequence(rest) /\ Len(rest) = n - 1 /\ k = resolver.todo[1]
        /\ \A i \in 1..(n - 1) : rest[i] = resolver.todo[i + 1]
        /\ rest = <<>> <=> n = 1
    <3>1. PICK S : resolver.todo \in Seq(S) /\ resolver.todo # <<>>
      BY <1>0 DEF Walk, IsSequence
    <3>2. rest \in Seq(S) /\ Len(rest) = n - 1 /\ \A i \in 1..(n - 1) : rest[i] = resolver.todo[i + 1]
      BY <2>2, <2>5, <3>1
    <3>3. rest = <<>> <=> n = 1
      <4>1. rest = <<>> <=> Len(rest) = 0
        BY <3>2
      <4>2. n - 1 = 0 <=> n = 1
        OBVIOUS
      <4> QED
        BY <3>2, <4>1, <4>2
    <3>4. k = resolver.todo[1]
      BY <3>1
    <3> QED
      BY <3>2, <3>3, <3>4 DEF IsSequence
  <2>7. PICK m \in Nat : m = Len(resolver.snapshot) /\ Passed(resolver) = m - n /\ m - n \in Nat
    <3>1. Len(resolver.snapshot) \in Nat
      BY <1>0, SequenceDomain DEF Walk
    <3> QED
      BY <1>0, <2>5, <3>1 DEF Walk, Passed
  <2>8. Passed(resolver') = m - n + 1
    BY <2>4, <2>5, <2>6, <2>7 DEF Passed
  <2>9. resolver.snapshot[m - n + 1] = k /\ k \notin steady'
    BY <1>0, <2>1, <2>5, <2>6, <2>7 DEF Walk
  <2>10. Walk(resolver')
    <3>1. \A i \in 1..(n - 1) : rest[i] = resolver.snapshot[i + (m - n + 1)]
      <4> SUFFICES ASSUME NEW i \in 1..(n - 1) PROVE rest[i] = resolver.snapshot[i + (m - n + 1)]
        OBVIOUS
      <4>1. rest[i] = resolver.todo[i + 1] /\ i + 1 \in 1..n
        BY <2>5, <2>6
      <4>2. resolver.todo[i + 1] = resolver.snapshot[(i + 1) + (m - n)]
        BY <1>0, <2>5, <2>7, <4>1 DEF Walk
      <4>3. (i + 1) + (m - n) = i + (m - n + 1)
        OBVIOUS
      <4> QED
        BY <4>1, <4>2, <4>3
    <3> QED
      BY <1>0, <2>4, <2>6, <2>7, <2>8, <3>1 DEF Walk
  <2>11. Misses(resolver', steady')
    <3>1. \A i \in 1..(m - n) : resolver.snapshot[i] \notin steady'
      BY <1>0, <2>7 DEF Misses
    <3>2. m - n \in Nat
      BY <2>7
    <3>3. \A i \in 1..(m - n + 1) : i \in 1..(m - n) \/ i = m - n + 1
      BY <3>2
    <3>4. \A i \in 1..(m - n + 1) : resolver.snapshot[i] \notin steady'
      BY <2>9, <3>1, <3>3
    <3>5. n = 1 => m - n + 1 = m
      OBVIOUS
    <3>6. \A i \in 1..Passed(resolver') : resolver'.snapshot[i] \notin steady'
      BY <2>4, <2>8, <3>4
    <3>7. resolver'.pc = "failed" => \A i \in 1..Len(resolver'.snapshot) : resolver'.snapshot[i] \notin steady'
      BY <2>4, <2>6, <2>7, <3>4, <3>5
    <3> QED
      BY <3>6, <3>7 DEF Misses
  <2> QED
    BY <1>0, <2>10, <2>11 DEF FailoverInv
<1> QED
  BY <1>1, <1>2

\* The context ends: the channel under way and the ones after it are not passed over.
LEMMA FailoverInterrupt ==
  ASSUME FailoverInv, Interrupt, steady' = steady \cap Good'
  PROVE  FailoverInv'
<1>1. /\ entries' = entries /\ IsSequence(entries) /\ mirrorCursor \in Nat
      /\ Walk(resolver) /\ Misses(resolver, steady')
  BY DEF FailoverInv, Misses, Interrupt, ContextEnds, FetchCut
<1>2. mirrorCursor' \in Nat
  BY <1>1, CursorMoves DEF Interrupt, ContextEnds, FetchCut
<1>3. PICK pc \in {"canceled", "cut"} : resolver' = [resolver EXCEPT !.pc = pc]
  BY DEF Interrupt, ContextEnds, FetchCut
<1>4. /\ resolver'.pc = pc
      /\ resolver'.snapshot = resolver.snapshot /\ resolver'.todo = resolver.todo
      /\ resolver' = [pc |-> resolver'.pc, snapshot |-> resolver'.snapshot,
                      todo |-> resolver'.todo, kind |-> resolver'.kind, blob |-> resolver'.blob]
  BY <1>1, <1>3 DEF Walk
<1>5. Passed(resolver') = Passed(resolver)
  BY <1>4 DEF Passed
<1>6. Walk(resolver') /\ Misses(resolver', steady')
  BY <1>1, <1>4, <1>5 DEF Walk, Misses
<1> QED
  BY <1>1, <1>2, <1>6 DEF FailoverInv

LEMMA FailoverNext == FailoverInv /\ [ChannelsNext]_channelVars => FailoverInv'
<1> SUFFICES ASSUME FailoverInv, [ChannelsNext]_channelVars PROVE FailoverInv'
  OBVIOUS
<1>1. CASE UNCHANGED channelVars
  <2>1. Good' = Good
    BY <1>1 DEF channelVars, Good, Serves, Fresh
  <2> QED
    BY <1>1, <2>1 DEF channelVars, FailoverInv
<1> QED
  BY <1>1, FailoverChanges, FailoverInterrupt, FailoverResolve, FailoverTry DEF ChannelsNext, Attempt

LEMMA FailoverInvSuffices == ASSUME FailoverInv PROVE FailoverFinds
<1>1. PICK m \in Nat : /\ m = Len(resolver.snapshot)
                       /\ resolver.snapshot = [i \in 1..m |-> resolver.snapshot[i]]
  BY SequenceDomain DEF FailoverInv, Walk
<1>2. PICK j \in Nat : j = Passed(resolver) /\ j <= m
  <2>1. Len(resolver.todo) \in Nat
    BY SequenceDomain DEF FailoverInv, Walk
  <2>2. Passed(resolver) \in Nat /\ Passed(resolver) = m - Len(resolver.todo)
    BY <1>1 DEF FailoverInv, Walk, Passed
  <2>3. m - Len(resolver.todo) <= m
    BY <2>1
  <2> QED
    BY <2>2, <2>3
<1>3. ToSet(resolver.snapshot) = {resolver.snapshot[i] : i \in 1..m}
  BY <1>1 DEF ToSet
<1>4. ToSet(SubSeq(resolver.snapshot, 1, j)) = {resolver.snapshot[i] : i \in 1..j}
  <2>1. PICK S : resolver.snapshot \in Seq(S)
    BY DEF FailoverInv, Walk, IsSequence
  <2>2. SubSeq(resolver.snapshot, 1, j) = [i \in 1..j |-> resolver.snapshot[i]]
    BY <1>1, <1>2, <2>1
  <2> QED
    BY <2>2 DEF ToSet
<1>5. /\ \A i \in 1..j : resolver.snapshot[i] \notin steady
      /\ resolver.pc = "failed" => \A i \in 1..m : resolver.snapshot[i] \notin steady
  BY <1>1, <1>2 DEF FailoverInv, Misses
<1> QED
  BY <1>2, <1>3, <1>4, <1>5 DEF FailoverFinds, Passed

\* A resolve never passes over a channel that was good throughout, and one whose context
\* lasts fails only when no channel of its list was: for every registry, every order of
\* mirrors, every key set and every schedule of faults, deadlines and reconfigurations
\* (Resolver.Resolve, gitraw.Fetch).
THEOREM FailoverNeverMisses == ChannelsSpec => []FailoverFinds
<1>1. ChannelsInit => FailoverInv
  BY FailoverInit
<1>2. FailoverInv /\ [ChannelsNext]_channelVars => FailoverInv'
  BY FailoverNext
<1>3. FailoverInv => FailoverFinds
  BY FailoverInvSuffices
<1> QED
  BY <1>1, <1>2, <1>3, PTL DEF ChannelsSpec
=============================================================================
