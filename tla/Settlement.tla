------------------------------ MODULE Settlement ------------------------------
(***************************************************************************)
(* How the billing service turns a confirmed payment into paid access.      *)
(*                                                                         *)
(* Several billing instances share one Postgres.  HTTP handlers process    *)
(* payment events, one poller per instance recovers unfinished work and    *)
(* expires invoices, one sweeper per instance moves lapsed subscriptions   *)
(* to past_due and expired.  Every change of a subscription is first       *)
(* STAGED as a row of billing_deliveries that carries a revision (in the   *)
(* transaction that changes schedules), then sent to the control-plane,    *)
(* which accepts a revision at most once, then marked delivered.           *)
(*                                                                         *)
(* A worker step is one store call or one remote call.  A worker may fail  *)
(* or crash between any two steps, and a request that its sender has given *)
(* up on may still reach the control-plane later.                          *)
(***************************************************************************)
EXTENDS Integers, FiniteSets

CONSTANTS
    Users,          \* anonymous accounts; each has at most one subscription
    Invoices,       \* invoices, all created before the behaviour starts
    Plans,          \* catalogue plans
    UserOf,         \* the account an invoice belongs to
    PlanOf,         \* the plan an invoice pays for
    Duration,       \* plan -> length of one paid period
    Grace,          \* plan -> grace after the end of the term
    Deadline,       \* invoice -> payment deadline (expires_at)
    Events,         \* what gateways report: records [id, inv, kind]
    Handlers,       \* concurrent HTTP webhook handlers
    Pollers,        \* settlement poller loops, one per instance
    Sweepers,       \* expiry sweeper loops, one per instance
    StaleThreshold, \* age after which recovery may touch a claim or delivery
    LeaseFor,       \* recovery lease length
    Batch,          \* rows leased by one recovery pass
    Cancellable,    \* accounts whose subscription an operator cancels
    Horizon,        \* bound: last instant; every outstanding delay is over then
    MaxFailures,    \* bound: failed steps and crashes in one behaviour
    None

Kinds == {"settled", "expired", "invalid", "underpaid", "foreign"}

ASSUME NoneAssumption == None \notin Invoices \cup Handlers \cup Pollers \cup Sweepers

ASSUME FunctionsAssumption ==
    /\ UserOf \in [Invoices -> Users]
    /\ PlanOf \in [Invoices -> Plans]
    /\ Duration \in [Plans -> Nat \ {0}]
    /\ Grace \in [Plans -> Nat]
    /\ Deadline \in [Invoices -> Nat]

ASSUME EventsAssumption == \A e \in Events : e.inv \in Invoices /\ e.kind \in Kinds

ASSUME BoundsAssumption ==
    /\ StaleThreshold \in Nat
    /\ LeaseFor \in Nat
    /\ Batch \in Nat \ {0}
    /\ Horizon \in Nat
    /\ MaxFailures \in Nat

VARIABLES
    now,        \* wall clock
    seen,       \* seen_events: events processed to completion
    status,     \* invoices.status
    claimed,    \* settlements: invoices whose credit is claimed
    claimedAt,  \* settlements.claimed_at
    stuckLease, \* settlements.reconcile_leased_until
    sched,      \* schedules: user -> billing state (revision 0: no row)
    outbox,     \* billing_deliveries: every delivery ever staged
    delivered,  \* rows of outbox with delivered_at set
    dlvLease,   \* billing_deliveries.leased_until, a function on outbox
    holder,     \* advisory lock: user -> the worker holding it
    cp,         \* control-plane subscription of each user
    inflight,   \* SetBillingState requests on their way to the control-plane
    wk,         \* worker -> its local state
    failures    \* failures so far (see MaxFailures)

vars == <<now, seen, status, claimed, claimedAt, stuckLease, sched,
          outbox, delivered, dlvLease, holder, cp, inflight, wk, failures>>

invoiceVars == <<seen, status, claimed, claimedAt, stuckLease>>
outboxVars  == <<sched, outbox, delivered, dlvLease>>
remoteVars  == <<cp, inflight>>

Workers == Handlers \cup Pollers \cup Sweepers

----------------------------------------------------------------------------
(* Data.                                                                   *)

SubStatus == {"none", "active", "past_due", "expired", "canceled"}

\* contracts.BillingState, and a schedules row.
BillingState == [rev : Nat, plan : Plans \cup {None}, status : SubStatus,
                 exp : Nat, grace : Nat]

NoState == [rev |-> 0, plan |-> None, status |-> "none", exp |-> 0, grace |-> 0]

\* model.BillingDelivery without its delivery marks, which never change it.
Delivery == [sub : Users, inv : Invoices \cup {None}, created : Nat,
             state : BillingState]

\* The control-plane row: the billing state of its revision (billing_state_hash
\* stands for it) and the status column, which an operator may also set.
Subscription == [hash : BillingState, status : SubStatus]

PCs == {"idle", "setStatus", "settle", "record", "lock", "ensure", "stage",
        "send", "await", "replied", "deliver", "leaseStuck", "finish",
        "expire", "sweep", "sweepLock", "sweepRead", "sweepStage"}

\* A worker: program counter, where it goes when the current item is done
\* (ret), the event, invoice, user and delivery at hand, the rest of its batch,
\* the clock value, the row count or revision it has read and the status it is
\* about to write.
Worker == [pc : PCs, ret : PCs, ev : Events \cup {None}, inv : Invoices \cup {None},
           sub : Users \cup {None}, dlv : Delivery \cup {None},
           todo : SUBSET (Delivery \cup Invoices \cup Users), at : 0..Horizon, n : Nat,
           next : SubStatus]

Idle == [pc |-> "idle", ret |-> "idle", ev |-> None, inv |-> None, sub |-> None,
         dlv |-> None, todo |-> {}, at |-> 0, n |-> 0, next |-> "none"]

Later(a, b) == IF a >= b THEN a ELSE b

\* An instant t is reached; at the Horizon every delay has run out.
Reached(t) == t <= now \/ now = Horizon

Goto(w, pc) == wk' = [wk EXCEPT ![w] = [wk[w] EXCEPT !.pc = pc]]

Unlocked(w) == [u \in Users |-> IF holder[u] = w THEN None ELSE holder[u]]

\* The worker's item is finished: a handler goes on to record its event, a
\* loop takes its next item; the lock it may hold is released.
ItemDone(w) ==
    /\ wk' = [wk EXCEPT ![w] = [wk[w] EXCEPT !.pc = wk[w].ret, !.inv = None,
                                             !.sub = None, !.dlv = None]]
    /\ holder' = Unlocked(w)

----------------------------------------------------------------------------
(* Time.                                                                   *)

Tick ==
    /\ now < Horizon
    /\ now' = now + 1
    /\ UNCHANGED <<invoiceVars, outboxVars, holder, remoteVars, wk, failures>>

----------------------------------------------------------------------------
(* Process: one notification, from the replay guards to RecordEvent.       *)

\* Entry of Process: an event arrives, for the first time or again, and is not
\* yet recorded.  A recorded event, one past the replay window and one that is
\* merely pending change nothing: they are the behaviours in which this step is
\* not taken.
Process(h, e) ==
    /\ wk[h].pc = "idle"
    /\ e \notin seen
    /\ wk' = [wk EXCEPT ![h] = [Idle EXCEPT
                !.pc = IF e.kind \in {"expired", "invalid"} THEN "setStatus" ELSE "settle",
                !.ret = "record", !.ev = e]]
    /\ UNCHANGED <<now, invoiceVars, outboxVars, holder, remoteVars, failures>>

\* Expired / Invalid: the status is overwritten whatever it was.
SetInvoiceStatus(h) ==
    /\ wk[h].pc = "setStatus"
    /\ status' = [status EXCEPT ![wk[h].ev.inv] = wk[h].ev.kind]
    /\ Goto(h, "record")
    /\ UNCHANGED <<now, seen, claimed, claimedAt, stuckLease,
                   outboxVars, holder, remoteVars, failures>>

\* The checks of settle that precede the claim: the event is of the invoice's
\* own gateway and currency and reports no amount below the invoice's.
Genuine(e) == e.kind = "settled"

\* settle refuses the event.  An underpaid invoice becomes invalid; the event
\* is not recorded, so the gateway's retry is processed again.
RefuseEvent(h) ==
    LET e == wk[h].ev IN
    /\ wk[h].pc = "settle"
    /\ ~Genuine(e)
    /\ status' = IF e.kind = "underpaid" THEN [status EXCEPT ![e.inv] = "invalid"]
                                         ELSE status
    /\ wk' = [wk EXCEPT ![h] = Idle]
    /\ UNCHANGED <<now, seen, claimed, claimedAt, stuckLease,
                   outboxVars, holder, remoteVars, failures>>

\* ClaimSettlement: the first caller inserts the row and credits the invoice,
\* every later one goes straight to RecordEvent.
ClaimSettlement(h) ==
    LET i == wk[h].ev.inv IN
    /\ wk[h].pc = "settle"
    /\ Genuine(wk[h].ev)
    /\ \/ /\ i \notin claimed
          /\ claimed' = claimed \cup {i}
          /\ claimedAt' = [claimedAt EXCEPT ![i] = now]
          /\ wk' = [wk EXCEPT ![h] = [wk[h] EXCEPT !.pc = "lock", !.inv = i,
                                                   !.sub = UserOf[i]]]
       \/ /\ i \in claimed
          /\ Goto(h, "record")
          /\ UNCHANGED <<claimed, claimedAt>>
    /\ UNCHANGED <<now, seen, status, stuckLease, outboxVars,
                   holder, remoteVars, failures>>

RecordEvent(h) ==
    /\ wk[h].pc = "record"
    /\ seen' = seen \cup {wk[h].ev}
    /\ wk' = [wk EXCEPT ![h] = Idle]
    /\ UNCHANGED <<now, status, claimed, claimedAt, stuckLease,
                   outboxVars, holder, remoteVars, failures>>

----------------------------------------------------------------------------
(* CreditInvoice and Deliver, shared by handlers and pollers.              *)

\* WithUserLock: wait for the account's advisory lock.
AcquireUserLock(w) ==
    /\ wk[w].pc \in {"lock", "sweepLock"}
    /\ holder[wk[w].sub] = None
    /\ holder' = [holder EXCEPT ![wk[w].sub] = w]
    /\ Goto(w, IF wk[w].pc = "lock" THEN "ensure" ELSE "sweepRead")
    /\ UNCHANGED <<now, invoiceVars, outboxVars, remoteVars, failures>>

\* EnsureSubscription: the control-plane creates the account's subscription,
\* unpaid and expired, unless it has one.
EnsureSubscription(w) ==
    LET u == wk[w].sub IN
    /\ wk[w].pc = "ensure"
    /\ cp' = IF cp[u].status = "none" THEN [cp EXCEPT ![u].status = "expired"] ELSE cp
    /\ Goto(w, "stage")
    /\ UNCHANGED <<now, invoiceVars, outboxVars, holder, inflight, failures>>

\* The delivery that credits invoice i: one period after the later of now and
\* the end of the current term, under the next revision.
NewCredit(i) ==
    LET s    == sched[UserOf[i]]
        plan == PlanOf[i]
        end  == Later(now, s.exp) + Duration[plan]
    IN [sub |-> UserOf[i], inv |-> i, created |-> now,
        state |-> [rev |-> s.rev + 1, plan |-> plan, status |-> "active",
                   exp |-> end, grace |-> end + Grace[plan]]]

\* Slip: the schedule write is left out of the transaction.
StageWithoutSchedule(w, d) ==
    /\ outbox' = outbox \cup {d}
    /\ dlvLease' = [x \in outbox \cup {d} |-> IF x \in outbox THEN dlvLease[x] ELSE 0]
    /\ wk' = [wk EXCEPT ![w] = [wk[w] EXCEPT !.pc = "send", !.dlv = d]]
    /\ UNCHANGED sched

\* insertDelivery and the schedule write of the same transaction.
Stage(w, d) ==
    /\ outbox' = outbox \cup {d}
    /\ dlvLease' = [x \in outbox \cup {d} |-> IF x \in outbox THEN dlvLease[x] ELSE 0]
    /\ sched' = [sched EXCEPT ![d.sub] = d.state]
    /\ wk' = [wk EXCEPT ![w] = [wk[w] EXCEPT !.pc = "send", !.dlv = d]]

\* Slip: a retry does not look for the delivery it has already staged.
StageInvoiceCreditAgain(w) ==
    /\ wk[w].pc = "stage"
    /\ Stage(w, NewCredit(wk[w].inv))
    /\ UNCHANGED <<now, invoiceVars, delivered, holder, remoteVars, failures>>

\* StageInvoiceCredit: a delivery already staged for the invoice is returned
\* unchanged, otherwise a new one is staged.
StageInvoiceCredit(w) ==
    LET i == wk[w].inv IN
    /\ wk[w].pc = "stage"
    /\ \/ \E d \in outbox :
            /\ d.inv = i
            /\ wk' = [wk EXCEPT ![w] = [wk[w] EXCEPT !.pc = "send", !.dlv = d]]
            /\ UNCHANGED <<sched, outbox, dlvLease>>
       \/ /\ \A d \in outbox : d.inv # i
          /\ Stage(w, NewCredit(i))
    /\ UNCHANGED <<now, invoiceVars, delivered, holder, remoteVars, failures>>

\* SetBillingState leaves the billing service.
SetBillingState(w) ==
    /\ wk[w].pc = "send"
    /\ inflight' = inflight \cup {[from |-> w, dlv |-> wk[w].dlv]}
    /\ Goto(w, "await")
    /\ UNCHANGED <<now, invoiceVars, outboxVars, holder, cp, failures>>

\* The control-plane's fence: the same revision must carry the same state.
Conflicts(sub, state) == sub.hash.rev = state.rev /\ sub.hash # state

\* Slips: no revision fence; a fence that lets the current revision through.
ApplyUnfenced(sub, state) == [hash |-> state, status |-> state.status]

ApplySameRevision(sub, state) ==
    IF sub.hash.rev <= state.rev THEN [hash |-> state, status |-> state.status] ELSE sub

\* ... and only a higher revision is written; a lower one is ignored.
ApplyBillingState(sub, state) ==
    IF sub.hash.rev < state.rev THEN [hash |-> state, status |-> state.status] ELSE sub

\* The control-plane handles a request.  Its sender, if still waiting, gets the
\* reply; a conflict is answered with an error, and the sender stays where Fail
\* is its only step.
HandleBillingState(m) ==
    /\ m \in inflight
    /\ inflight' = inflight \ {m}
    /\ cp' = [cp EXCEPT ![m.dlv.sub] = ApplyBillingState(@, m.dlv.state)]
    /\ wk' = IF /\ wk[m.from].pc = "await"
                /\ wk[m.from].dlv = m.dlv
                /\ ~Conflicts(cp[m.dlv.sub], m.dlv.state)
             THEN [wk EXCEPT ![m.from] = [wk[m.from] EXCEPT !.pc = "replied"]]
             ELSE wk
    /\ UNCHANGED <<now, invoiceVars, outboxVars, holder, failures>>

\* CompleteBillingDelivery: delivered_at is set, the lease dropped and the
\* delivery's invoice, if any, becomes settled, in one transaction; the item is
\* then done.
CompleteBillingDelivery(w) ==
    LET d == wk[w].dlv IN
    /\ wk[w].pc = "replied"
    /\ delivered' = delivered \cup {d}
    /\ dlvLease' = [dlvLease EXCEPT ![d] = 0]
    /\ status' = IF d.inv = None THEN status ELSE [status EXCEPT ![d.inv] = "settled"]
    /\ ItemDone(w)
    /\ UNCHANGED <<now, seen, claimed, claimedAt, stuckLease,
                   sched, outbox, remoteVars, failures>>

----------------------------------------------------------------------------
(* The poller: Reconcile, then ExpireOverdue.                              *)

\* ORDER BY t LIMIT k over the rows S: a batch of the oldest rows, ties in any
\* order.
Batches(S, t, k) ==
    {B \in SUBSET S : /\ Cardinality(B) = (IF Cardinality(S) < k THEN Cardinality(S) ELSE k)
                      /\ \A x \in B, y \in S \ B : t[x] <= t[y]}

\* Slip: a row that was leased once is never leased again.
UndeliveredNeverLeased == {d \in outbox : /\ d \notin delivered
                                          /\ d.created + StaleThreshold < now \/ now = Horizon
                                          /\ dlvLease[d] = 0}

\* LeaseBillingDeliveries: undelivered rows older than the threshold whose
\* lease is not live.
Undelivered == {d \in outbox : /\ d \notin delivered
                               /\ d.created + StaleThreshold < now \/ now = Horizon
                               /\ Reached(dlvLease[d])}

LeaseBillingDeliveries(p) ==
    /\ wk[p].pc = "idle"
    /\ \E B \in Batches(Undelivered, [d \in outbox |-> d.created], Batch) :
         /\ dlvLease' = [d \in outbox |-> IF d \in B THEN now + LeaseFor ELSE dlvLease[d]]
         /\ wk' = [wk EXCEPT ![p] = [Idle EXCEPT !.pc = "deliver", !.ret = "deliver",
                                                 !.todo = B, !.n = Cardinality(B)]]
    /\ UNCHANGED <<now, invoiceVars, sched, outbox, delivered, holder, remoteVars,
                   failures>>

\* The next leased delivery, sent without the account lock; after the last one
\* the pass turns to stuck settlements if the batch has room left.
DeliverNext(p) ==
    /\ wk[p].pc = "deliver"
    /\ \/ \E d \in wk[p].todo :
            wk' = [wk EXCEPT ![p] = [wk[p] EXCEPT !.pc = "send", !.dlv = d,
                                                  !.todo = wk[p].todo \ {d}]]
       \/ /\ wk[p].todo = {}
          /\ Goto(p, IF wk[p].n < Batch THEN "leaseStuck" ELSE "expire")
    /\ UNCHANGED <<now, invoiceVars, outboxVars, holder, remoteVars, failures>>

\* Slip: a claim that was leased once is never leased again.
StuckNeverLeased == {i \in claimed : /\ status[i] = "pending"
                                     /\ Reached(claimedAt[i] + StaleThreshold)
                                     /\ stuckLease[i] = 0}

\* LeaseStuckSettlements: claims of invoices that are still pending.
Stuck == {i \in claimed : /\ status[i] = "pending"
                          /\ Reached(claimedAt[i] + StaleThreshold)
                          /\ Reached(stuckLease[i])}

LeaseStuckSettlements(p) ==
    /\ wk[p].pc = "leaseStuck"
    /\ \E B \in Batches(Stuck, claimedAt, Batch - wk[p].n) :
         /\ stuckLease' = [i \in Invoices |-> IF i \in B THEN now + LeaseFor ELSE stuckLease[i]]
         /\ wk' = [wk EXCEPT ![p] = [Idle EXCEPT !.pc = "finish", !.ret = "finish", !.todo = B]]
    /\ UNCHANGED <<now, seen, status, claimed, claimedAt,
                   outboxVars, holder, remoteVars, failures>>

\* finishSettlement of the next leased claim (activated_at is never set, so an
\* unsettled invoice is always credited), or the end of the recovery pass.
FinishSettlement(p) ==
    /\ wk[p].pc = "finish"
    /\ \/ \E i \in wk[p].todo :
            /\ status[i] = "settled"
            /\ wk' = [wk EXCEPT ![p] = [wk[p] EXCEPT !.todo = wk[p].todo \ {i}]]
       \/ \E i \in wk[p].todo :
            /\ status[i] # "settled"
            /\ wk' = [wk EXCEPT ![p] = [wk[p] EXCEPT !.pc = "lock", !.inv = i,
                           !.sub = UserOf[i], !.todo = wk[p].todo \ {i}]]
       \/ /\ wk[p].todo = {}
          /\ Goto(p, "expire")
    /\ UNCHANGED <<now, invoiceVars, outboxVars, holder, remoteVars, failures>>

\* ExpireOverdue for webhook gateways: pending, past the deadline, unclaimed.
ExpireOverdue(p) ==
    /\ wk[p].pc = "expire"
    /\ status' = [i \in Invoices |->
                    IF status[i] = "pending" /\ now > Deadline[i] /\ i \notin claimed
                    THEN "expired" ELSE status[i]]
    /\ wk' = [wk EXCEPT ![p] = Idle]
    /\ UNCHANGED <<now, seen, claimed, claimedAt, stuckLease,
                   outboxVars, holder, remoteVars, failures>>

----------------------------------------------------------------------------
(* The sweeper.                                                            *)

\* Slip: the grace period is forgotten.
transitionNoGrace(s, t) == IF t >= s.exp THEN "expired" ELSE ""

\* transition: the status a schedule should have at instant t; "" for none.
transition(s, t) ==
    IF t >= s.grace THEN "expired" ELSE IF t >= s.exp THEN "past_due" ELSE ""

\* DueSchedules at the start of a sweep; a sweep without due schedules changes
\* nothing.  The clock value read here is used for the whole sweep.
DueSchedules(s) ==
    LET due == {u \in Users : /\ sched[u].rev > 0
                              /\ sched[u].status # "expired"
                              /\ sched[u].exp <= now}
    IN /\ wk[s].pc = "idle"
       /\ due # {}
       /\ wk' = [wk EXCEPT ![s] = [Idle EXCEPT !.pc = "sweep", !.ret = "sweep",
                                               !.todo = due, !.at = now]]
       /\ UNCHANGED <<now, invoiceVars, outboxVars, holder, remoteVars, failures>>

SweepNext(s) ==
    /\ wk[s].pc = "sweep"
    /\ \/ \E u \in wk[s].todo :
            wk' = [wk EXCEPT ![s] = [wk[s] EXCEPT !.pc = "sweepLock", !.sub = u,
                                                  !.todo = wk[s].todo \ {u}]]
       \/ wk[s].todo = {} /\ wk' = [wk EXCEPT ![s] = Idle]
    /\ UNCHANGED <<now, invoiceVars, outboxVars, holder, remoteVars, failures>>

\* Under the lock the schedule is read again: the due list was only a hint.
SweepRead(s) ==
    LET cur  == sched[wk[s].sub]
        next == transition(cur, wk[s].at)
    IN /\ wk[s].pc = "sweepRead"
       /\ IF next = "" \/ next = cur.status
          THEN ItemDone(s)
          ELSE /\ wk' = [wk EXCEPT ![s] = [wk[s] EXCEPT !.pc = "sweepStage",
                                                        !.n = cur.rev, !.next = next]]
               /\ UNCHANGED holder
       /\ UNCHANGED <<now, invoiceVars, outboxVars, remoteVars, failures>>

\* The delivery that moves a user's schedule to the next status, term unchanged.
NewTransition(u, next, t) ==
    [sub |-> u, inv |-> None, created |-> t,
     state |-> [sched[u] EXCEPT !.rev = sched[u].rev + 1, !.status = next]]

\* StageScheduleTransition: a compare-and-set on the revision read before.
StageScheduleTransition(s) ==
    LET u == wk[s].sub IN
    /\ wk[s].pc = "sweepStage"
    /\ IF sched[u].rev # wk[s].n
       THEN ItemDone(s) /\ UNCHANGED <<sched, outbox, dlvLease>>
       ELSE Stage(s, NewTransition(u, wk[s].next, wk[s].at)) /\ UNCHANGED holder
    /\ UNCHANGED <<now, invoiceVars, delivered, remoteVars, failures>>

----------------------------------------------------------------------------
(* Operator and failures.                                                  *)

\* CancelSubscription sets the status and leaves the billing revision alone.
CancelSubscription(u) ==
    /\ u \in Cancellable
    /\ cp[u].status \notin {"none", "canceled"}
    /\ cp' = [cp EXCEPT ![u].status = "canceled"]
    /\ UNCHANGED <<now, invoiceVars, outboxVars, holder, inflight, wk, failures>>

Failing == failures < MaxFailures /\ failures' = failures + 1

\* The worker's request is lost, or is still under way and will be handled.
RequestMayBeLost(w) ==
    \/ inflight' = inflight
    \/ inflight' = {m \in inflight : m.from # w \/ m.dlv # wk[w].dlv}

\* A step of a loop's current item returns an error (store error, timeout, lost
\* reply): the item is abandoned and the loop goes on.
Fail(w) ==
    /\ Failing
    /\ wk[w].pc \in {"lock", "ensure", "stage", "send", "await", "replied",
                     "sweepLock", "sweepRead", "sweepStage"}
    /\ RequestMayBeLost(w)
    /\ ItemDone(w)
    /\ UNCHANGED <<now, invoiceVars, outboxVars, cp>>

\* A lease query fails: the recovery pass ends and the cycle goes on.
LeaseQueryFails(p) ==
    /\ Failing
    /\ wk[p].pc \in {"idle", "leaseStuck"}
    /\ wk' = [wk EXCEPT ![p] = [Idle EXCEPT !.pc = "expire"]]
    /\ UNCHANGED <<now, invoiceVars, outboxVars, holder, remoteVars>>

\* The status write of an Expired / Invalid event fails; its error is ignored.
StatusWriteFails(h) ==
    /\ Failing
    /\ wk[h].pc = "setStatus"
    /\ Goto(h, "record")
    /\ UNCHANGED <<now, invoiceVars, outboxVars, holder, remoteVars>>

\* A handler's step returns an error, or the process dies: local state is lost,
\* the database session and with it the lock are gone.
Crash(w) ==
    /\ Failing
    /\ wk[w].pc # "idle"
    /\ RequestMayBeLost(w)
    /\ wk' = [wk EXCEPT ![w] = Idle]
    /\ holder' = Unlocked(w)
    /\ UNCHANGED <<now, invoiceVars, outboxVars, cp>>

----------------------------------------------------------------------------

Init ==
    /\ now = 0
    /\ seen = {}
    /\ status = [i \in Invoices |-> "pending"]
    /\ claimed = {}
    /\ claimedAt = [i \in Invoices |-> 0]
    /\ stuckLease = [i \in Invoices |-> 0]
    /\ sched = [u \in Users |-> NoState]
    /\ outbox = {}
    /\ delivered = {}
    /\ dlvLease = [d \in {} |-> 0]
    /\ holder = [u \in Users |-> None]
    /\ cp = [u \in Users |-> [hash |-> NoState, status |-> "none"]]
    /\ inflight = {}
    /\ wk = [w \in Workers |-> Idle]
    /\ failures = 0

CreditStep(w) ==
    \/ AcquireUserLock(w)
    \/ EnsureSubscription(w)
    \/ StageInvoiceCredit(w)
    \/ SetBillingState(w)
    \/ CompleteBillingDelivery(w)

HandlerStep(h) ==
    \/ SetInvoiceStatus(h)
    \/ RefuseEvent(h)
    \/ ClaimSettlement(h)
    \/ RecordEvent(h)
    \/ CreditStep(h)

PollerStep(p) ==
    \/ LeaseBillingDeliveries(p)
    \/ DeliverNext(p)
    \/ LeaseStuckSettlements(p)
    \/ FinishSettlement(p)
    \/ ExpireOverdue(p)
    \/ CreditStep(p)

SweeperStep(s) ==
    \/ DueSchedules(s)
    \/ SweepNext(s)
    \/ SweepRead(s)
    \/ StageScheduleTransition(s)
    \/ CreditStep(s)

Next ==
    \/ Tick
    \/ \E h \in Handlers : (\E e \in Events : Process(h, e)) \/ HandlerStep(h)
    \/ \E p \in Pollers : PollerStep(p)
    \/ \E s \in Sweepers : SweeperStep(s)
    \/ \E m \in inflight : HandleBillingState(m)
    \/ \E u \in Users : CancelSubscription(u)
    \/ \E w \in Pollers \cup Sweepers : Fail(w)
    \/ \E p \in Pollers : LeaseQueryFails(p)
    \/ \E h \in Handlers : StatusWriteFails(h)
    \/ \E w \in Workers : Crash(w)

Spec == Init /\ [][Next]_vars

\* Loops run forever, a started handler runs on, requests in flight are
\* handled, time passes; Postgres grants a lock in the order of its queue, so
\* a waiting worker is not overtaken forever.
Fairness ==
    /\ WF_vars(Tick)
    /\ \A h \in Handlers : WF_vars(HandlerStep(h)) /\ SF_vars(AcquireUserLock(h))
    /\ \A p \in Pollers : WF_vars(PollerStep(p)) /\ SF_vars(AcquireUserLock(p))
    /\ \A s \in Sweepers : WF_vars(SweeperStep(s)) /\ SF_vars(AcquireUserLock(s))
    /\ WF_vars(\E m \in inflight : HandleBillingState(m))

FairSpec == Spec /\ Fairness

----------------------------------------------------------------------------
(* Properties.                                                             *)

StoreTypeOK ==
    /\ now \in 0..Horizon /\ failures \in Nat
    /\ seen \subseteq Events
    /\ status \in [Invoices -> {"pending", "settled", "expired", "invalid"}]
    /\ claimed \subseteq Invoices
    /\ claimedAt \in [Invoices -> Nat]
    /\ stuckLease \in [Invoices -> Nat]
    /\ sched \in [Users -> BillingState]
    /\ outbox \subseteq Delivery
    /\ delivered \subseteq outbox
    /\ dlvLease \in [outbox -> Nat]
    /\ holder \in [Users -> Workers \cup {None}]
    /\ cp \in [Users -> Subscription]
    /\ inflight \subseteq [from : Workers, dlv : outbox]

\* Every variable has its type; the deliveries that workers and requests carry
\* are rows of the outbox (a delivery is staged before it is sent).
TypeOK ==
    /\ StoreTypeOK
    /\ wk \in [Workers -> Worker]
    /\ \A w \in Workers : wk[w].dlv \in outbox \cup {None}

Credits == {d \in outbox : d.inv # None}

\* The term a delivery found when it was staged: that of the revision before.
TermBefore(d) ==
    IF d.state.rev = 1 THEN 0
    ELSE (CHOOSE p \in outbox : p.sub = d.sub /\ p.state.rev = d.state.rev - 1).state.exp

\* A confirmed payment credits exactly one period however often its webhook is
\* delivered, retried or recovered (StageInvoiceCredit): an invoice has one
\* delivery, and that delivery moves the term by one period from the later of
\* the staging instant and the previous term.
ExactlyOnePeriod ==
    /\ \A c, d \in Credits : c.inv = d.inv => c = d
    /\ \A d \in Credits :
         d.state.exp = Later(d.created, TermBefore(d)) + Duration[PlanOf[d.inv]]

\* Two writers never use the same revision for different states, so the fence
\* of ApplyBillingState never answers a retry or a late request with a conflict.
NoRevisionConflict ==
    \A m \in inflight : ~Conflicts(cp[m.dlv.sub], m.dlv.state)

\* The control-plane always holds a state that billing staged, and never one
\* newer than the schedule (an operator's cancel changes the status only).
ControlPlaneFollowsSchedule ==
    \A u \in Users :
        /\ cp[u].hash.rev <= sched[u].rev
        /\ cp[u].hash.rev > 0 => \E d \in outbox : d.sub = u /\ d.state = cp[u].hash
        /\ cp[u].hash.rev = sched[u].rev => cp[u].hash = sched[u]

\* The sweeper never takes time away that is paid for: it lapses a
\* subscription only at an instant the newest staged term has ended.
NoEarlyLapse ==
    \A d \in outbox :
        /\ d.state.status = "past_due" => d.created >= d.state.exp
        /\ d.state.status = "expired" => d.created >= d.state.grace

\* A late or repeated request never shortens the term the control-plane serves
\* and never takes its revision back (ApplyBillingState).
TermNeverShrinks ==
    [][\A u \in Users : /\ cp'[u].hash.exp >= cp[u].hash.exp
                        /\ cp'[u].hash.rev >= cp[u].hash.rev]_vars

\* A retry of a revision the control-plane already has does not bring back a
\* subscription an operator canceled; only a new revision does.
RetryKeepsCancel ==
    [][\A u \in Users : cp[u].status = "canceled" /\ cp'[u].status # "canceled"
                          => cp'[u].hash.rev > cp[u].hash.rev]_vars

\* Billing implements its ledger: the outbox is the ledger, the schedules are its
\* heads, the control-plane's billing state is the published copy.
Ledger == INSTANCE BillingLedger WITH
            ledger <- outbox, head <- sched,
            published <- [u \in Users |-> cp[u].hash],
            Instants <- 0..Horizon

\* Every step of every worker, failed or not, is one step of the ledger or
\* leaves it alone.
ImplementsLedger == Ledger!Spec

\* Whatever fails, billing's schedule and the control-plane's copy of it agree
\* again (the outbox is drained by Reconcile).
ControlPlaneCatchesUp == \A u \in Users : []<>(cp[u].hash = sched[u])

\* A claim is not left behind by failures: Reconcile finishes it as long as the
\* invoice stays pending.
PendingClaimIsFinished ==
    \A i \in Invoices :
        i \in claimed ~> \/ \E d \in delivered : d.inv = i
                         \/ status[i] \in {"expired", "invalid"}

\* A claimed settlement is finished: the invoice gets its period.  The comment
\* on settle promises it: "The claim (and activated_at=NULL) is exactly what the
\* durable Reconcile pass finishes later."
ClaimIsFinished ==
    \A i \in Invoices : i \in claimed ~> \E d \in delivered : d.inv = i
=============================================================================
