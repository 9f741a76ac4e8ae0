---------------------------- MODULE OnChainPolling ----------------------------
(***************************************************************************)
(* How the billing pollers watch a chain for payments and when they give   *)
(* up on an invoice.  An on-chain invoice is checked under a durable poll  *)
(* lease; it is expired by a sweep only when a negative check was recorded *)
(* at or after its effective deadline and nobody holds a live lease or a   *)
(* settlement claim.  What happens after the claim is Settlement's matter: *)
(* here crediting is one step that succeeds or fails.                      *)
(***************************************************************************)
EXTENDS Integers

CONSTANTS
    Invoices,      \* on-chain invoices, created before the behaviour starts
    Pollers,       \* one settlement poller per billing instance
    ExpiresAt,     \* invoice -> payment deadline
    Grace,         \* extra window in which a confirmation is accepted
    PollLease,     \* length of a poll lease
    ChainTimeout,  \* bound on one chain check
    Horizon,       \* bound: last instant
    MaxFailures,   \* bound: failed steps and crashes in one behaviour
    None

ASSUME TimesAssumption ==
    /\ ExpiresAt \in [Invoices -> Nat]
    /\ Grace \in Nat \ {0}
    /\ ChainTimeout \in Nat
    /\ PollLease \in Nat
    /\ Horizon \in Nat
    /\ MaxFailures \in Nat
    /\ None \notin Int
    /\ None \notin Pollers

\* OnChain.Validate, at startup.
ASSUME LeaseAssumption == PollLease > ChainTimeout

VARIABLES
    now,       \* wall clock, of the pollers and of Postgres
    paidAt,    \* when the chain confirmed the payment of an invoice, or None
    status,    \* invoices.status
    negAt,     \* invoices.last_negative_check_at, or None
    lease,     \* poll_leases: [owner, until]; NoLease when there is no row
    claimed,   \* settlements
    seen,      \* seen_events: invoices whose settled event was processed
    wk,        \* poller -> its local state
    failures,  \* failures so far (see MaxFailures)
    stall      \* whether pollers may stall beyond their lease in this behaviour

vars == <<now, paidAt, status, negAt, lease, claimed, seen, wk, failures, stall>>

\* A poller: program counter, the open invoices still to poll, the invoice at
\* hand, when its check started, when its lease lapses, what the chain said and
\* the instant it is about to record.
Idle == [pc |-> "idle", todo |-> {}, inv |-> None, start |-> 0, until |-> 0,
         paid |-> FALSE, at |-> 0]

NoLease == [owner |-> None, until |-> 0]

EffectiveDeadline(i) == ExpiresAt[i] + Grace

Goto(p, pc) == wk' = [wk EXCEPT ![p] = [wk[p] EXCEPT !.pc = pc]]

\* The steps between the lease and the durable handoff.
Checking(p) == wk[p].pc \in {"check", "decide", "clear", "process", "writeNeg"}

----------------------------------------------------------------------------
(* Time and the chain.                                                     *)

\* A poller that does not stall has the answer of CheckInvoice within
\* ChainTimeout and has handed it over before its lease lapses.
Prompt(p) ==
    /\ wk[p].pc \in {"check", "decide"} => now < wk[p].start + ChainTimeout
    /\ Checking(p) => now + 1 < wk[p].until

Tick ==
    /\ now < Horizon
    /\ stall \/ \A p \in Pollers : Prompt(p)
    /\ now' = now + 1
    /\ UNCHANGED <<paidAt, status, negAt, lease, claimed, seen, wk, failures, stall>>

\* The payment of an invoice reaches the required confirmations and amount.
Confirm(i) ==
    /\ paidAt[i] = None
    /\ paidAt' = [paidAt EXCEPT ![i] = now]
    /\ UNCHANGED <<now, status, negAt, lease, claimed, seen, wk, failures, stall>>

\* Bound: no failure so late that the lease it leaves behind cannot lapse.
Failing ==
    /\ failures < MaxFailures
    /\ now + PollLease <= Horizon
    /\ failures' = failures + 1

----------------------------------------------------------------------------
(* RunOnce.                                                                *)

\* The recovery pass of the cycle: claims of pending invoices are finished.
Reconcile(p) ==
    /\ wk[p].pc = "idle"
    /\ status' = [i \in Invoices |-> IF i \in claimed /\ status[i] = "pending"
                                     THEN "settled" ELSE status[i]]
    /\ Goto(p, "open")
    /\ UNCHANGED <<now, paidAt, negAt, lease, claimed, seen, failures, stall>>

OpenInvoices(p) ==
    /\ wk[p].pc = "open"
    /\ wk' = [wk EXCEPT ![p] = [Idle EXCEPT !.pc = "poll",
                                  !.todo = {i \in Invoices : status[i] = "pending"}]]
    /\ UNCHANGED <<now, paidAt, status, negAt, lease, claimed, seen, failures, stall>>

LeaseFree(i) == lease[i].until <= now

\* AcquirePollLease of the next open invoice: the invoice is skipped while
\* another instance holds a live lease.  After the last one the sweep follows.
AcquirePollLease(p) ==
    /\ wk[p].pc = "poll"
    /\ \/ \E i \in wk[p].todo :
            /\ LeaseFree(i)
            /\ lease' = [lease EXCEPT ![i] = [owner |-> p, until |-> now + PollLease]]
            /\ wk' = [wk EXCEPT ![p] = [wk[p] EXCEPT !.pc = "check", !.inv = i,
                          !.todo = wk[p].todo \ {i}, !.start = now,
                          !.until = now + PollLease]]
       \/ \E i \in wk[p].todo :
            /\ ~LeaseFree(i)
            /\ wk' = [wk EXCEPT ![p] = [wk[p] EXCEPT !.todo = wk[p].todo \ {i}]]
            /\ UNCHANGED lease
       \/ wk[p].todo = {} /\ Goto(p, "expire") /\ UNCHANGED lease
    /\ UNCHANGED <<now, paidAt, status, negAt, claimed, seen, failures, stall>>

\* CheckInvoice: what the chain says at this instant.
CheckInvoice(p) ==
    /\ wk[p].pc = "check"
    /\ now <= wk[p].start + ChainTimeout
    /\ wk' = [wk EXCEPT ![p] = [wk[p] EXCEPT !.pc = "decide",
                                             !.paid = paidAt[wk[p].inv] # None]]
    /\ UNCHANGED <<now, paidAt, status, negAt, lease, claimed, seen, failures, stall>>

\* A chain API error or an answer that comes too late: nothing is recorded.
CheckFails(p) ==
    /\ Failing
    /\ wk[p].pc \in {"check", "decide"}
    /\ Goto(p, "release")
    /\ UNCHANGED <<now, paidAt, status, negAt, lease, claimed, seen, stall>>

\* The context of a check that was not answered within ChainTimeout is over.
CheckTimesOut(p) ==
    /\ wk[p].pc = "check"
    /\ now > wk[p].start + ChainTimeout
    /\ Goto(p, "release")
    /\ UNCHANGED <<now, paidAt, status, negAt, lease, claimed, seen, failures, stall>>

\* The poller acts on the answer: a positive one disarms the sweep first, a
\* negative one counts only at or after the effective deadline, by the clock
\* read after the check.
Decide(p) ==
    /\ wk[p].pc = "decide"
    /\ wk' = [wk EXCEPT ![p] = [wk[p] EXCEPT !.at = now,
                !.pc = IF wk[p].paid THEN "clear"
                       ELSE IF now >= EffectiveDeadline(wk[p].inv) THEN "writeNeg"
                       ELSE "release"]]
    /\ UNCHANGED <<now, paidAt, status, negAt, lease, claimed, seen, failures, stall>>

RecordNegativeCheck(p) ==
    LET i == wk[p].inv IN
    /\ wk[p].pc = "writeNeg"
    /\ negAt' = IF status[i] = "pending" THEN [negAt EXCEPT ![i] = wk[p].at] ELSE negAt
    /\ Goto(p, "release")
    /\ UNCHANGED <<now, paidAt, status, lease, claimed, seen, failures, stall>>

ClearNegativeCheck(p) ==
    LET i == wk[p].inv IN
    /\ wk[p].pc = "clear"
    /\ negAt' = IF status[i] = "pending" THEN [negAt EXCEPT ![i] = None] ELSE negAt
    /\ Goto(p, "process")
    /\ UNCHANGED <<now, paidAt, status, lease, claimed, seen, failures, stall>>

\* Process up to ClaimSettlement: a processed event is dropped, the first claim
\* is credited, a later one only recorded.
Process(p) ==
    LET i == wk[p].inv IN
    /\ wk[p].pc = "process"
    /\ \/ i \in seen /\ Goto(p, "release") /\ UNCHANGED claimed
       \/ i \notin seen /\ i \in claimed /\ Goto(p, "record") /\ UNCHANGED claimed
       \/ /\ i \notin seen \cup claimed
          /\ claimed' = claimed \cup {i}
          /\ Goto(p, "credit")
    /\ UNCHANGED <<now, paidAt, status, negAt, lease, seen, failures, stall>>

\* CreditInvoice succeeds: the period is delivered and the invoice settled.
CreditInvoice(p) ==
    /\ wk[p].pc = "credit"
    /\ status' = [status EXCEPT ![wk[p].inv] = "settled"]
    /\ Goto(p, "record")
    /\ UNCHANGED <<now, paidAt, negAt, lease, claimed, seen, failures, stall>>

RecordEvent(p) ==
    /\ wk[p].pc = "record"
    /\ seen' = seen \cup {wk[p].inv}
    /\ Goto(p, "release")
    /\ UNCHANGED <<now, paidAt, status, negAt, lease, claimed, failures, stall>>

\* ReleasePollLease: only the lease this poller still owns is dropped.
ReleasePollLease(p) ==
    LET i == wk[p].inv IN
    /\ wk[p].pc = "release"
    /\ lease' = IF lease[i] = [owner |-> p, until |-> wk[p].until]
                THEN [lease EXCEPT ![i] = NoLease] ELSE lease
    /\ Goto(p, "poll")
    /\ UNCHANGED <<now, paidAt, status, negAt, claimed, seen, failures, stall>>

\* Slips of the sweep's condition: a claim, a live lease or the negative check is
\* not looked at.
OverdueClaimed(i) ==
    /\ status[i] = "pending" /\ now > EffectiveDeadline(i)
    /\ negAt[i] # None /\ negAt[i] >= EffectiveDeadline(i) /\ LeaseFree(i)

OverdueLeased(i) ==
    /\ status[i] = "pending" /\ now > EffectiveDeadline(i)
    /\ negAt[i] # None /\ negAt[i] >= EffectiveDeadline(i) /\ i \notin claimed

OverdueUnchecked(i) ==
    /\ status[i] = "pending" /\ now > EffectiveDeadline(i)
    /\ i \notin claimed /\ LeaseFree(i)

Overdue(i) ==
    /\ status[i] = "pending"
    /\ now > EffectiveDeadline(i)
    /\ negAt[i] # None
    /\ negAt[i] >= EffectiveDeadline(i)
    /\ i \notin claimed
    /\ LeaseFree(i)

\* ExpireOverdue, the end of the cycle.
ExpireOverdue(p) ==
    /\ wk[p].pc = "expire"
    /\ status' = [i \in Invoices |-> IF Overdue(i) THEN "expired" ELSE status[i]]
    /\ wk' = [wk EXCEPT ![p] = Idle]
    /\ UNCHANGED <<now, paidAt, negAt, lease, claimed, seen, failures, stall>>

----------------------------------------------------------------------------
(* Failures.                                                               *)

\* A store call of the poll fails.  An error of ClearNegativeCheck is ignored,
\* one of RecordNegativeCheck, Process or CreditInvoice ends the check, one of
\* ReleasePollLease leaves the lease to lapse.
StoreFails(p) ==
    /\ Failing
    /\ \/ wk[p].pc = "clear" /\ Goto(p, "process")
       \/ wk[p].pc \in {"writeNeg", "process", "credit", "record"} /\ Goto(p, "release")
       \/ wk[p].pc = "release" /\ Goto(p, "poll")
    /\ UNCHANGED <<now, paidAt, status, negAt, lease, claimed, seen, stall>>

\* AcquirePollLease fails, before or after the row was written: the invoice is skipped,
\* and a lease nobody knows of is left to lapse.
AcquireFails(p) ==
    /\ Failing
    /\ wk[p].pc = "poll"
    /\ \E i \in wk[p].todo :
         /\ wk' = [wk EXCEPT ![p] = [wk[p] EXCEPT !.todo = wk[p].todo \ {i}]]
         /\ \/ UNCHANGED lease
            \/ /\ LeaseFree(i)
               /\ lease' = [lease EXCEPT ![i] = [owner |-> p, until |-> now + PollLease]]
    /\ UNCHANGED <<now, paidAt, status, negAt, claimed, seen, stall>>

\* The process dies, or a query of the cycle fails (the cycle ends early).
Crash(p) ==
    /\ Failing
    /\ wk[p].pc # "idle"
    /\ wk' = [wk EXCEPT ![p] = Idle]
    /\ UNCHANGED <<now, paidAt, status, negAt, lease, claimed, seen, stall>>

----------------------------------------------------------------------------

Init ==
    /\ now = 0
    /\ paidAt = [i \in Invoices |-> None]
    /\ status = [i \in Invoices |-> "pending"]
    /\ negAt = [i \in Invoices |-> None]
    /\ lease = [i \in Invoices |-> NoLease]
    /\ claimed = {}
    /\ seen = {}
    /\ wk = [p \in Pollers |-> Idle]
    /\ failures = 0
    /\ stall \in BOOLEAN

PollerStep(p) ==
    \/ Reconcile(p)
    \/ OpenInvoices(p)
    \/ AcquirePollLease(p)
    \/ CheckInvoice(p)
    \/ CheckTimesOut(p)
    \/ Decide(p)
    \/ RecordNegativeCheck(p)
    \/ ClearNegativeCheck(p)
    \/ Process(p)
    \/ CreditInvoice(p)
    \/ RecordEvent(p)
    \/ ReleasePollLease(p)
    \/ ExpireOverdue(p)

Next ==
    \/ Tick
    \/ \E i \in Invoices : Confirm(i)
    \/ \E p \in Pollers : \/ PollerStep(p)
                          \/ CheckFails(p)
                          \/ StoreFails(p)
                          \/ AcquireFails(p)
                          \/ Crash(p)

Spec == Init /\ [][Next]_vars

\* The poll loop runs forever (runLoop) and time passes, whatever the pollers do.
Fairness ==
    /\ SF_vars(Tick)
    /\ \A p \in Pollers : WF_vars(PollerStep(p))

FairSpec == Spec /\ Fairness

----------------------------------------------------------------------------
(* Properties.                                                             *)

\* While a poller that does not stall has a confirmed payment in its hands, no
\* sweep of another instance expires the invoice (ExpireOverdue respects the
\* lease, and a positive check clears the negative marker before the handoff).
PaymentInHandIsKept ==
    [][\A p \in Pollers :
         LET i == wk[p].inv IN
         /\ ~stall
         /\ wk[p].pc \in {"decide", "clear", "process"}
         /\ wk[p].paid
         /\ status[i] = "pending"
         => status'[i] # "expired"]_vars

\* A payment confirmed more than one chain check before the effective deadline is
\* credited in the end, and so never given up: a negative check recorded after the
\* deadline has read the chain later than that payment.
EarlyPaymentCredited ==
    \A i \in Invoices :
        (~stall /\ paidAt[i] # None /\ paidAt[i] + ChainTimeout < EffectiveDeadline(i))
          ~> (status[i] = "settled")

\* A payment claimed while its invoice is open is settled in the end even when
\* pollers stall, leases lapse and checks overlap: no sweep expires an invoice
\* with a claim, and a pending claim is finished by a later cycle.
PendingClaimIsSettled ==
    \A i \in Invoices : (i \in claimed /\ status[i] = "pending") ~> (status[i] = "settled")
=============================================================================
