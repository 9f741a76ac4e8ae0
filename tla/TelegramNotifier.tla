-------------------------- MODULE TelegramNotifier --------------------------
(***************************************************************************)
(* The telegram bot's notifier next to its update loop: pages of users with *)
(* a durable cursor, the account status of each, the reconciliation of the  *)
(* pending notifications with it, and their delivery.                       *)
(***************************************************************************)
EXTENDS TelegramUpdates

CONSTANTS
    BatchSize,  \* users per page, and pending notifications per visit
    MaxTerm     \* bound: terms a user pays for

ASSUME NotifierConstants == BatchSize \in Nat \ {0} /\ MaxTerm \in Nat

VARIABLES
    ncursor,  \* delivery_notification_cursor
    notif,    \* delivery_bot_notifications: user -> event -> status
    told,     \* user -> event -> how often the message reached the user
    nt        \* the notifier's local state

notifierVars == <<ncursor, notif, told, nt>>
vars == <<botVars, notifierVars>>

\* The event keys of a user; activation carries the invoice, reminders the date.
Event == [kind : {"activation", "expiry", "grace"}, term : 1..MaxTerm]

Idle == [pc |-> "idle", page |-> <<>>, events |-> {}, allow |-> FALSE, seen |-> 0, todo |-> {}, e |-> None]

----------------------------------------------------------------------------
(* The store.                                                              *)

\* The recorded users after id, in order, at most BatchSize.
PageAfter(id) ==
    LET later == {u \in recorded : u > id}
        rank(u) == Cardinality({v \in later : v <= u})
        n == IF Cardinality(later) < BatchSize THEN Cardinality(later) ELSE BatchSize
    IN [i \in 1..n |-> CHOOSE u \in later : rank(u) = i]

\* Slip: the page after the last one is empty for ever.
PageNoWrap == PageAfter(ncursor)

\* NotificationUsers, its page: from the start again after the last one.
NotificationPage == IF PageAfter(ncursor) = <<>> THEN PageAfter(0) ELSE PageAfter(ncursor)

\* notificationEvents of account a.
notificationEvents(a) ==
    IF ~Eligible(a) THEN {}
    ELSE {[kind |-> "activation", term |-> a.term] : x \in {i \in {a.invoice} : i = "settled"}}
         \cup {[kind |-> "expiry", term |-> a.term] : x \in {p \in {a.phase} : p = "soon"}}
         \cup {[kind |-> "grace", term |-> a.term] : x \in {p \in {a.phase} : p = "grace"}}

\* Slip: reminders that are pending stay so.
ReconciledKeepsReminders(rows, current, allowActivation) ==
    [e \in Event |->
       CASE e \in current -> IF rows[e] = "sent" THEN "sent" ELSE "pending"
         [] e \notin current /\ rows[e] = "pending" /\ e.kind = "activation" /\ ~allowActivation -> "canceled"
         [] OTHER -> rows[e]]

\* ReconcileNotifications, one transaction: pending reminders are canceled, pending
\* activations too unless allowed, then the current events staged; sent ones stay sent.
Reconciled(rows, current, allowActivation) ==
    [e \in Event |->
       CASE e \in current -> IF rows[e] = "sent" THEN "sent" ELSE "pending"
         [] e \notin current /\ rows[e] = "pending" /\ (e.kind # "activation" \/ ~allowActivation) -> "canceled"
         [] OTHER -> rows[e]]

\* PendingNotifications: at most BatchSize of them; which ones are the oldest is left open.
PendingBatch(u) ==
    LET pending == {e \in Event : notif[u][e] = "pending"}
    IN {s \in SUBSET pending : \/ s = pending /\ Cardinality(s) <= BatchSize
                               \/ Cardinality(s) = BatchSize}

----------------------------------------------------------------------------
(* RunOnce.                                                                *)

\* On to the next user of the page.
NextUser == nt' = IF Len(nt.page) > 1 THEN [Idle EXCEPT !.pc = "status", !.page = Tail(nt.page)] ELSE Idle

\* The rest of the user's pending notifications, or the next user.
NextNote(rest) == IF rest = {} THEN NextUser ELSE nt' = [nt EXCEPT !.pc = "send", !.todo = rest, !.e = None]

NotificationUsers ==
    /\ nt.pc = "idle" /\ load.notifier
    /\ NotificationPage # <<>>
    /\ ncursor' = Last(NotificationPage)
    /\ nt' = [Idle EXCEPT !.pc = "status", !.page = NotificationPage]
    /\ UNCHANGED <<botVars, notif, told>>

\* Status: user, latest invoice and subscription, taken as one look.
ReadStatus ==
    /\ nt.pc = "status"
    /\ LET a == account[Head(nt.page)]
       IN nt' = [nt EXCEPT !.pc = "reconcile", !.events = notificationEvents(a),
                           !.allow = Eligible(a), !.seen = a.term]
    /\ UNCHANGED <<botVars, ncursor, notif, told>>

ReconcileNotifications ==
    /\ nt.pc = "reconcile"
    /\ notif' = [notif EXCEPT ![Head(nt.page)] = Reconciled(@, nt.events, nt.allow)]
    /\ nt' = [nt EXCEPT !.pc = "pending", !.events = {}]
    /\ UNCHANGED <<botVars, ncursor, told>>

PendingNotifications ==
    /\ nt.pc = "pending"
    /\ \E s \in PendingBatch(Head(nt.page)) : NextNote(s)
    /\ UNCHANGED <<botVars, ncursor, notif, told>>

SendNotification ==
    /\ nt.pc = "send"
    /\ \E e \in nt.todo :
         /\ told' = [told EXCEPT ![Head(nt.page)][e] = @ + 1]
         /\ nt' = [nt EXCEPT !.pc = "mark", !.e = e]
    /\ UNCHANGED <<botVars, ncursor, notif>>

MarkNotificationSent ==
    /\ nt.pc = "mark"
    /\ notif' = [notif EXCEPT ![Head(nt.page)][nt.e] = IF @ = "pending" THEN "sent" ELSE @]
    /\ NextNote(nt.todo \ {nt.e})
    /\ UNCHANGED <<botVars, ncursor, told>>

\* A failed read or transaction skips the page or the user, a failed send or mark the
\* notification.  What failed may have happened: the page is passed, the message sent,
\* the row marked.
NotifierFails ==
    /\ Fail
    /\ \/ /\ nt.pc = "idle" /\ load.notifier /\ NotificationPage # <<>>
          /\ ncursor' = Last(NotificationPage)
          /\ UNCHANGED <<nt, notif, told>>
       \/ /\ nt.pc \in {"status", "reconcile", "pending"} /\ NextUser
          /\ UNCHANGED <<ncursor, notif, told>>
       \/ /\ nt.pc = "send"
          /\ \E e \in nt.todo : /\ NextNote(nt.todo \ {e})
                               /\ told' \in {told, [told EXCEPT ![Head(nt.page)][e] = @ + 1]}
          /\ UNCHANGED <<ncursor, notif>>
       \/ /\ nt.pc = "mark" /\ NextNote(nt.todo \ {nt.e})
          /\ notif' \in {notif, [notif EXCEPT ![Head(nt.page)][nt.e] = IF @ = "pending" THEN "sent" ELSE @]}
          /\ UNCHANGED <<ncursor, told>>
    /\ UNCHANGED <<load, arrived, cursor, status, recorded, account, invoices, replies, dropped, poller,
                   buckets>>

----------------------------------------------------------------------------

Crash ==
    /\ Fail
    /\ Forget
    /\ nt' = Idle
    /\ UNCHANGED <<load, arrived, cursor, status, recorded, account, invoices, replies, dropped,
                   ncursor, notif, told>>

Init ==
    /\ UpdatesInit
    /\ ncursor = 0
    /\ notif = [u \in Users |-> [e \in Event |-> "none"]]
    /\ told = [u \in Users |-> [e \in Event |-> 0]]
    /\ nt = Idle

NotifierStep ==
    \/ NotificationUsers
    \/ ReadStatus
    \/ ReconcileNotifications
    \/ PendingNotifications
    \/ SendNotification
    \/ MarkNotificationSent

Next ==
    \/ (UpdatesNext \/ AccountChanges) /\ UNCHANGED notifierVars
    \/ NotifierStep
    \/ NotifierFails
    \/ Crash

\* The two loops of the process run; failures, arrivals and accounts are not owed.
Spec ==
    /\ Init /\ [][Next]_vars
    /\ WF_vars(PollerStep /\ UNCHANGED notifierVars)
    /\ WF_vars(NotifierStep)

----------------------------------------------------------------------------
(* Properties.                                                             *)

\* A notification goes to an account that was admitted when this visit looked, and a
\* reminder is about the term it saw: one left over from a visit whose send failed is
\* not sent after the user has renewed or was suspended.
ReminderIsCurrent ==
    [][\A u \in Users, e \in Event : told'[u][e] > told[u][e] =>
         nt.allow /\ (e.kind # "activation" => e.term = nt.seen)]_vars

\* A user who paid is told, however many users there are, unless his account changes
\* before his turn comes.
Announced(u, t) ==
    /\ load.notifier /\ u \in recorded /\ Eligible(account[u])
    /\ account[u].invoice = "settled" /\ account[u].term = t
ActivationIsAnnounced ==
    \A u \in Users, t \in 1..MaxTerm :
        Announced(u, t) ~> (told[u][[kind |-> "activation", term |-> t]] > 0 \/ ~Announced(u, t))
=============================================================================
