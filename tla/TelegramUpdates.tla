-------------------------- MODULE TelegramUpdates --------------------------
(***************************************************************************)
(* The telegram bot's update loop: a poller that takes updates in order     *)
(* with a durable cursor, the per-user limiter, the handlers of the bot's   *)
(* commands with the onboarding client behind them, and the replies.  The   *)
(* process may crash at any point; calls to the control plane and billing   *)
(* are retried and may take effect although their answer is lost.           *)
(***************************************************************************)
EXTENDS Integers, Sequences, FiniteSets, SequencesExt

CONSTANTS
    Users,        \* telegram ids, positive integers
    Workloads,    \* bound: what users send and pay for in one behaviour
    Burst,        \* tokens of a full bucket; one token comes back per unit of time
    Cooldown,     \* least distance of two identical commands
    TTL,          \* a bucket idle for longer is dropped
    Elapses,      \* bound: how much time may pass before an update is served
    None

\* What a message asks for; "other" is text the bot does not know, "blank" one without
\* text, "group" one from a chat that is not private.
Commands == {"help", "status", "plans", "pay", "button", "get", "other", "blank", "group"}

\* updates: what telegram will deliver, in the order of the ids; terms: how often
\* each user pays; recorded: who has written to the bot before; notifier: whether its
\* loop is looked at too; faults: how many failures there are.
ASSUME BotConstants ==
    /\ Users \subseteq Nat \ {0}
    /\ \A w \in Workloads :
         /\ w.terms \in [Users -> Nat] /\ w.recorded \subseteq Users
         /\ w.notifier \in BOOLEAN /\ w.faults \in Nat
         /\ w.updates \in Seq([user : Users, cmd : Commands])
    /\ Burst \in Nat \ {0}
    /\ Cooldown \in Nat /\ TTL \in Nat
    /\ Elapses \subseteq Nat /\ Elapses # {}
    /\ None \notin Commands

VARIABLES
    load,       \* the workload of this behaviour
    arrived,    \* how many updates telegram holds
    cursor,     \* delivery_telegram_cursor
    status,     \* delivery_telegram_updates: update -> none, pending, done
    recorded,   \* delivery_bot_users
    account,    \* user -> what control plane and billing say about him
    invoices,   \* the updates that billing has made an invoice for
    replies,    \* update -> messages that reached the user
    dropped,    \* updates the limiter refused
    poller,     \* the poller's local state
    buckets,    \* limiter: user -> bucket
    failures

\* Everything but what the account's owner, the notifier and the bounds change.
botVars == <<load, arrived, cursor, status, recorded, account, invoices, replies, dropped, poller,
             buckets, failures>>

\* One account: the state of the user (active, suspended), his latest invoice (none,
\* pending, settled), the number of the paid term and where in it the present is: far
\* from its end, within the notifier's window of it (soon), in the grace period, over.
NewAccount == [user |-> "active", invoice |-> "none", term |-> 0, phase |-> "far"]

Updates == DOMAIN load.updates

NoBucket == [tokens |-> 0, idle |-> 0, cmd |-> None, since |-> 0, upd |-> 0, live |-> FALSE]

Off == [pc |-> "off", cursor |-> 0, upto |-> 0, upd |-> 0, reply |-> None]

Fail == failures < load.faults /\ failures' = failures + 1

----------------------------------------------------------------------------
(* The limiter.                                                            *)

\* now: d units of time have passed since the limiter was last asked.
Aged(d) ==
    [u \in Users |-> IF buckets[u].live
                     THEN [buckets[u] EXCEPT !.idle = @ + d, !.since = @ + d] ELSE NoBucket]

\* evictLocked, and a cap on ages that are past every limit.
Evict(bs) ==
    LET cap(x) == IF x > TTL + Cooldown THEN TTL + Cooldown ELSE x
    IN [u \in Users |-> IF ~bs[u].live \/ bs[u].idle > TTL THEN NoBucket
                        ELSE [bs[u] EXCEPT !.since = cap(@)]]

\* The bucket of u, made full on first sight.
BucketOf(bs, u) ==
    IF bs[u].live THEN bs[u]
    ELSE [tokens |-> Burst, idle |-> 0, cmd |-> None, since |-> 0, upd |-> 0, live |-> TRUE]

Refilled(b) ==
    IF b.idle = 0 THEN b
    ELSE [b EXCEPT !.tokens = IF @ + b.idle > Burst THEN Burst ELSE @ + b.idle, !.idle = 0]

\* Slip: a retried update is treated like a new one.
allowRetryAgain(d, u, cmd, k) ==
    LET bs == Aged(d)
        b  == Refilled(BucketOf(bs, u))
        ok == ~(cmd # "blank" /\ cmd = b.cmd /\ b.since < Cooldown) /\ b.tokens >= 1
    IN [ok |-> ok,
        buckets |-> Evict([bs EXCEPT ![u] =
          IF ok THEN [b EXCEPT !.tokens = @ - 1, !.cmd = cmd, !.since = 0, !.upd = k] ELSE b])]

\* allow: the update that was let through last is let through again; otherwise the
\* same command must be Cooldown apart and a token is spent.
allow(d, u, cmd, k) ==
    LET bs  == Aged(d)
        b   == BucketOf(bs, u)
        r   == Refilled(b)
        ok  == ~(cmd # "blank" /\ cmd = r.cmd /\ r.since < Cooldown) /\ r.tokens >= 1
    IN IF k = b.upd THEN [ok |-> TRUE, buckets |-> [bs EXCEPT ![u] = [b EXCEPT !.idle = 0]]]
       ELSE [ok |-> ok,
             buckets |-> Evict([bs EXCEPT ![u] =
               IF ok THEN [r EXCEPT !.tokens = @ - 1, !.cmd = cmd, !.since = 0, !.upd = k] ELSE r])]

----------------------------------------------------------------------------
(* The onboarding client.                                                  *)

\* eligible: the control plane admits the account now.
Eligible(a) == a.user = "active" /\ a.term > 0 /\ a.phase # "over"

\* What a command leads to: the lines of the reply, and whether billing acted on it.
Reply(r) == {[reply |-> r, acted |-> FALSE]}

\* sendKnownError of calls that only read.
Failed == Reply(<<"error">>) \cup Reply(<<"rate limited">>)

\* CreateInvoice with the retries of doJSON: an attempt is answered, all fail, or the
\* last is refused; billing may have acted on one whose answer was lost.
InvoiceOutcomes ==
    {[reply |-> <<"invoice">>, acted |-> TRUE]}
    \cup {[reply |-> r, acted |-> b] : r \in {<<"error">>, <<"refused">>}, b \in BOOLEAN}

\* The catalog decides about buttons: none left, or this one is gone.
PlanOutcomes(found, gone) == found \cup Reply(<<gone>>) \cup Failed

\* SubscriptionLink.
LinkOutcomes(a) ==
    Failed \cup Reply(CASE a.user # "active" -> <<"suspended">>
                        [] Eligible(a)      -> <<"link">>
                        [] OTHER            -> <<"no subscription">>)

\* invoiceStatusLine.
invoiceStatusLine(a) ==
    CASE a.invoice # "settled"  -> a.invoice
      [] Eligible(a)            -> "confirmed"
      [] a.user # "active"      -> "confirmed, restricted"
      [] OTHER                  -> "confirmed, ended"

\* renderStatus: the lines about the payment and about access.
renderStatus(a) ==
    <<invoiceStatusLine(a),
      CASE a.term = 0       -> "no subscription"
        [] Eligible(a)      -> "active"
        [] a.phase = "over" -> "ended"
        [] OTHER            -> "not activated">>

\* The switch of HandleUpdate.
Outcomes(k) ==
    LET cmd == load.updates[k].cmd
        a   == account[load.updates[k].user]
    IN CASE cmd \in {"other", "blank"} -> Reply(<<"menu">>)
         [] cmd = "help"   -> Reply(<<"menu">>) \cup Failed
         [] cmd = "status" -> Reply(renderStatus(a)) \cup Failed
         [] cmd = "plans"  -> PlanOutcomes(Reply(<<"plans">>), "no plans")
         [] cmd = "pay"    -> InvoiceOutcomes \cup Reply(<<"usage">>)
         [] cmd = "button" -> PlanOutcomes(InvoiceOutcomes, "stale")
         [] cmd = "get"    -> LinkOutcomes(a)

----------------------------------------------------------------------------
(* The poller.                                                             *)

\* Telegram receives the next update.
Arrive ==
    /\ arrived < Len(load.updates)
    /\ arrived' = arrived + 1
    /\ UNCHANGED <<load, cursor, status, recorded, account, invoices, replies, dropped, poller,
                   buckets, failures>>

\* readCursor, at the start of Run.
Start ==
    /\ poller.pc = "off"
    /\ poller' = [Off EXCEPT !.pc = "poll", !.cursor = cursor]
    /\ UNCHANGED <<load, arrived, cursor, status, recorded, account, invoices, replies, dropped,
                   buckets, failures>>

\* GetUpdates(cursor + 1): the updates telegram holds now, by id.
GetUpdates ==
    /\ poller.pc = "poll"
    /\ arrived > poller.cursor
    /\ poller' = [poller EXCEPT !.pc = "begin", !.upd = poller.cursor + 1, !.upto = arrived]
    /\ UNCHANGED <<load, arrived, cursor, status, recorded, account, invoices, replies, dropped,
                   buckets, failures>>

\* Slip: the update that failed is left behind.
RetryNext == poller' = [Off EXCEPT !.pc = "poll", !.cursor = poller.upd]

\* Back to GetUpdates: after a failure, with the local cursor as it is.
Retry == poller' = [Off EXCEPT !.pc = "poll", !.cursor = poller.cursor]

\* The next update of the batch, or the next poll.
Advance(k) ==
    poller' = IF k < poller.upto
              THEN [poller EXCEPT !.pc = "begin", !.cursor = k, !.upd = k + 1, !.reply = None]
              ELSE [Off EXCEPT !.pc = "poll", !.cursor = k]

\* Begin reports whether the update is to be processed.
Begin(k) == status[k] # "done"

BeginUpdate ==
    /\ poller.pc = "begin"
    /\ status' = [status EXCEPT ![poller.upd] = IF @ = "none" THEN "pending" ELSE @]
    /\ poller' = [poller EXCEPT !.pc = IF Begin(poller.upd) THEN "handle" ELSE "complete"]
    /\ UNCHANGED <<load, arrived, cursor, recorded, account, invoices, replies, dropped, buckets,
                   failures>>

\* HandleUpdate of a message that is not private: nothing.
IgnoreUpdate ==
    /\ poller.pc = "handle"
    /\ load.updates[poller.upd].cmd = "group"
    /\ poller' = [poller EXCEPT !.pc = "complete"]
    /\ UNCHANGED <<load, arrived, cursor, status, recorded, account, invoices, replies, dropped,
                   buckets, failures>>

\* HandleUpdate up to its reply: the sender is recorded, the limiter asked, and the
\* command's calls made.  The key is that of the update: billing answers a repeated one
\* with the invoice it has (OneInvoicePerKey of InvoiceIntent).
HandleUpdate ==
    /\ poller.pc = "handle"
    /\ load.updates[poller.upd].cmd # "group"
    /\ recorded' = recorded \cup {load.updates[poller.upd].user}
    /\ \E d \in Elapses :
         LET k  == poller.upd
             up == load.updates[k]
             l  == allow(d, up.user, up.cmd, k)
         IN /\ buckets' = l.buckets
            /\ \/ /\ ~l.ok
                  /\ dropped' = dropped \cup {k}
                  /\ poller' = [poller EXCEPT !.pc = "complete"]
                  /\ UNCHANGED <<invoices, account>>
               \/ /\ l.ok
                  /\ \E o \in Outcomes(k) :
                       /\ invoices' = IF o.acted THEN invoices \cup {k} ELSE invoices
                       /\ account' = IF invoices' = invoices THEN account
                                     ELSE [account EXCEPT ![up.user].invoice = "pending"]
                       /\ poller' = [poller EXCEPT !.pc = "send", !.reply = o.reply]
                  /\ UNCHANGED dropped
    /\ UNCHANGED <<load, arrived, cursor, status, replies, failures>>

\* The reply reaches the user.
SendReply ==
    /\ poller.pc = "send"
    /\ replies' = [replies EXCEPT ![poller.upd] = Append(@, poller.reply)]
    /\ poller' = [poller EXCEPT !.pc = "complete"]
    /\ UNCHANGED <<load, arrived, cursor, status, recorded, account, invoices, dropped, buckets,
                   failures>>

\* Complete: done and the cursor in one transaction.
Complete ==
    /\ poller.pc = "complete"
    /\ status' = [status EXCEPT ![poller.upd] = "done"]
    /\ cursor' = IF poller.upd > cursor THEN poller.upd ELSE cursor
    /\ Advance(poller.upd)
    /\ UNCHANGED <<load, arrived, recorded, account, invoices, replies, dropped, buckets, failures>>

\* Complete commits but the poller is told that it failed.
CompleteUnknown ==
    /\ Fail
    /\ poller.pc = "complete"
    /\ status' = [status EXCEPT ![poller.upd] = "done"]
    /\ cursor' = IF poller.upd > cursor THEN poller.upd ELSE cursor
    /\ Retry
    /\ UNCHANGED <<load, arrived, recorded, account, invoices, replies, dropped, buckets>>

\* A store call or the send fails: the batch ends and is asked for again.  A send
\* that fails may have reached the user.
StepFails ==
    /\ Fail
    /\ poller.pc \in {"begin", "handle", "send", "complete"}
    /\ Retry
    /\ \/ UNCHANGED replies
       \/ poller.pc = "send" /\ replies' = [replies EXCEPT ![poller.upd] = Append(@, poller.reply)]
    /\ UNCHANGED <<load, arrived, cursor, status, recorded, account, invoices, dropped, buckets>>

\* The process dies: the poller's and the limiter's memory is gone.
Forget ==
    /\ poller' = Off
    /\ buckets' = [u \in Users |-> NoBucket]

----------------------------------------------------------------------------
(* What happens to accounts.                                               *)

\* The user asks for an invoice elsewhere, pays, or time passes.
Order(u) ==
    /\ account[u].term < load.terms[u]
    /\ account[u].invoice # "pending"
    /\ account' = [account EXCEPT ![u].invoice = "pending"]

Pay(u) ==
    /\ account[u].term < load.terms[u]
    /\ account[u].invoice = "pending"
    /\ account' = [account EXCEPT ![u].invoice = "settled", ![u].term = @ + 1, ![u].phase = "far"]

NextPhase == [far |-> "soon", soon |-> "grace", grace |-> "over"]

TimePasses(u) ==
    /\ account[u].term > 0 /\ account[u].phase # "over"
    /\ account' = [account EXCEPT ![u].phase = NextPhase[@]]

\* The operator suspends or reinstates the user (bound: in the first term).
Moderate(u) ==
    /\ account[u].term = 1 /\ account[u].invoice = "settled"
    /\ account' = [account EXCEPT ![u].user = IF @ = "active" THEN "suspended" ELSE "active"]

AccountChanges ==
    /\ \E u \in Users : Order(u) \/ Pay(u) \/ TimePasses(u) \/ Moderate(u)
    /\ UNCHANGED <<load, arrived, cursor, status, recorded, invoices, replies, dropped, poller,
                   buckets, failures>>

----------------------------------------------------------------------------

UpdatesInit ==
    /\ load \in Workloads
    /\ arrived = 0 /\ cursor = 0
    /\ status = [k \in Updates |-> "none"]
    /\ recorded = load.recorded
    /\ account = [u \in Users |-> NewAccount]
    /\ invoices = {}
    /\ replies = [k \in Updates |-> <<>>]
    /\ dropped = {}
    /\ poller = Off
    /\ buckets = [u \in Users |-> NoBucket]
    /\ failures = 0

PollerStep == Start \/ GetUpdates \/ BeginUpdate \/ IgnoreUpdate \/ HandleUpdate \/ SendReply \/ Complete

UpdatesNext == Arrive \/ PollerStep \/ CompleteUnknown \/ StepFails

----------------------------------------------------------------------------
(* Properties.                                                             *)

\* An update behind the cursor was answered, unless the limiter refused it: a failed
\* send, a failed commit or a crash does not lose it, and the limiter does not swallow
\* the retry of an update for which an invoice may already exist.
ServedIsAnswered ==
    \A k \in Updates : k <= cursor /\ load.updates[k].cmd # "group" =>
        \/ replies[k] # <<>>
        \/ k \in dropped /\ k \notin invoices

\* The loop catches up with what arrives: after failures, restarts and redelivery the
\* cursor is again and again behind the last update.
UpdatesAreFinished == []<>(cursor = arrived)
=============================================================================
