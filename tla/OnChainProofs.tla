---------------------------- MODULE OnChainProofs ----------------------------
(***************************************************************************)
(* The on-chain pollers never give up a payment they have in their hands,  *)
(* nor one confirmed in good time.  Both rest on what a lease means as     *)
(* long as nobody stalls beyond it: a poller that checks an invoice holds  *)
(* its live lease, and what it records about the chain is no older than    *)
(* one chain check.                                                        *)
(***************************************************************************)
EXTENDS OnChainPolling, TLAPS

Stages == {"idle", "open", "poll", "check", "decide", "clear", "process", "writeNeg",
           "credit", "record", "release", "expire"}

Worker == [pc : Stages, todo : SUBSET Invoices, inv : Invoices \cup {None},
           start : Nat, until : Nat, paid : BOOLEAN, at : Nat]

Lease == [owner : Pollers \cup {None}, until : Nat]

TypeInv ==
    /\ now \in Nat
    /\ paidAt \in [Invoices -> Nat \cup {None}]
    /\ status \in [Invoices -> {"pending", "settled", "expired"}]
    /\ negAt \in [Invoices -> Nat \cup {None}]
    /\ lease \in [Invoices -> Lease]
    /\ wk \in [Pollers -> Worker]
    /\ stall \in BOOLEAN

\* The stages in which a poller works on the invoice at hand.
Busy == {"check", "decide", "clear", "process", "writeNeg", "credit", "record", "release"}

AtHand(p) == wk[p].pc \in Busy => wk[p].inv \in Invoices

\* A poller at a check holds the live lease of its invoice.
Holds(p) ==
    Checking(p) => /\ lease[wk[p].inv] = [owner |-> p, until |-> wk[p].until]
                   /\ now < wk[p].until

LeaseInv == \A p \in Pollers : AtHand(p) /\ (~stall => Holds(p))

\* The chain had not confirmed the payment of i one chain check before t.
UnpaidBy(i, t) == paidAt[i] # None => paidAt[i] + ChainTimeout >= t

\* What a poller is about to record, and has recorded, was read from the chain at
\* most one chain check ago.
Reads(p) ==
    /\ wk[p].pc \in {"check", "decide"} =>
          wk[p].start <= now /\ now <= wk[p].start + ChainTimeout
    /\ wk[p].pc = "decide" /\ ~wk[p].paid /\ paidAt[wk[p].inv] # None =>
          paidAt[wk[p].inv] >= wk[p].start
    /\ wk[p].pc = "writeNeg" => wk[p].at <= now /\ UnpaidBy(wk[p].inv, wk[p].at)

Recorded(i) ==
    /\ negAt[i] # None => negAt[i] <= now /\ UnpaidBy(i, negAt[i])
    /\ status[i] = "expired" => EffectiveDeadline(i) <= now /\ UnpaidBy(i, EffectiveDeadline(i))

ReadInv == ~stall => /\ \A p \in Pollers : Reads(p)
                     /\ \A i \in Invoices : Recorded(i)

Inv == TypeInv /\ LeaseInv /\ ReadInv

\* As long as no poller stalls, an invoice whose payment the chain confirmed more than one
\* chain check before its effective deadline is never expired (pollOne, ExpireOverdue).
EarlyPaymentNotExpired ==
    ~stall => \A i \in Invoices :
        paidAt[i] # None /\ paidAt[i] + ChainTimeout < EffectiveDeadline(i)
          => status[i] # "expired"
-----------------------------------------------------------------------------
\* What a change of one poller's stage leaves alone.

LEMMA Moves ==
  ASSUME TypeInv, NEW p \in Pollers, NEW pc \in Stages, Goto(p, pc)
  PROVE  /\ wk' \in [Pollers -> Worker]
         /\ \A q \in Pollers : q # p => wk'[q] = wk[q]
         /\ wk'[p].pc = pc /\ wk'[p].inv = wk[p].inv /\ wk'[p].start = wk[p].start
         /\ wk'[p].until = wk[p].until /\ wk'[p].paid = wk[p].paid /\ wk'[p].at = wk[p].at
<1>1. wk[p] \in Worker /\ wk \in [Pollers -> Worker]
  BY DEF TypeInv
<1>2. PICK r : r = [wk[p] EXCEPT !.pc = pc]
  OBVIOUS
<1>3. r \in Worker /\ r.pc = pc /\ r.inv = wk[p].inv /\ r.start = wk[p].start
      /\ r.until = wk[p].until /\ r.paid = wk[p].paid /\ r.at = wk[p].at
  BY <1>1, <1>2 DEF Worker
<1>4. wk' = [wk EXCEPT ![p] = r]
  BY <1>2 DEF Goto
<1> QED
  BY <1>1, <1>3, <1>4

LEMMA IdleIsWorker == Idle \in Worker /\ Idle.pc = "idle"
  BY DEF Idle, Worker, Stages

\* A poller that moves within, or out of, the check keeps what it holds; the others keep
\* what they hold when no lease changes.
LEMMA LeaseKept ==
  ASSUME LeaseInv, NEW p \in Pollers, now' = now, stall' = stall, lease' = lease,
         \A q \in Pollers : q # p => wk'[q] = wk[q],
         wk'[p].pc \in Busy => wk[p].pc \in Busy /\ wk'[p].inv = wk[p].inv,
         Checking(p)' => Checking(p) /\ wk'[p].until = wk[p].until
  PROVE  LeaseInv'
<1> SUFFICES ASSUME NEW q \in Pollers PROVE AtHand(q)' /\ (~stall' => Holds(q)')
  BY DEF LeaseInv
<1>1. CASE q = p
  BY <1>1 DEF LeaseInv, AtHand, Holds, Checking, Busy
<1>2. CASE q # p
  BY <1>2 DEF LeaseInv, AtHand, Holds, Checking
<1> QED
  BY <1>1, <1>2

\* A step of p that neither reads nor records anything about the chain.
LEMMA ReadKept ==
  ASSUME ReadInv, NEW p \in Pollers, now' = now, stall' = stall, paidAt' = paidAt,
         negAt' = negAt,
         \A i \in Invoices : status'[i] = "expired" => status[i] = "expired",
         \A q \in Pollers : q # p => wk'[q] = wk[q],
         wk'[p].pc \notin {"check", "decide", "writeNeg"}
  PROVE  ReadInv'
<1> SUFFICES ASSUME ~stall
             PROVE  /\ \A q \in Pollers : Reads(q)'
                    /\ \A i \in Invoices : Recorded(i)'
  BY DEF ReadInv
<1>1. ASSUME NEW q \in Pollers PROVE Reads(q)'
  <2>1. CASE q = p
    BY <2>1 DEF Reads
  <2>2. CASE q # p
    BY <2>2 DEF ReadInv, Reads, UnpaidBy
  <2> QED
    BY <2>1, <2>2
<1>2. ASSUME NEW i \in Invoices PROVE Recorded(i)'
  BY DEF ReadInv, Recorded, UnpaidBy, EffectiveDeadline
<1> QED
  BY <1>1, <1>2

-----------------------------------------------------------------------------
\* One lemma per step.

LEMMA InvInit == Init => Inv
<1> SUFFICES ASSUME Init PROVE Inv
  OBVIOUS
<1>1. \A p \in Pollers : wk[p].pc = "idle" /\ wk[p] \in Worker
  BY IdleIsWorker DEF Init
<1>2. NoLease \in Lease
  BY DEF NoLease, Lease
<1>3. TypeInv
  <2>1. wk \in [Pollers -> Worker]
    BY IdleIsWorker DEF Init
  <2>2. lease \in [Invoices -> Lease]
    BY <1>2 DEF Init
  <2>3. stall \in BOOLEAN
    BY DEF Init
  <2> QED
    BY <2>1, <2>2, <2>3 DEF Init, TypeInv
<1>4. LeaseInv
  BY <1>1 DEF LeaseInv, AtHand, Holds, Checking, Busy
<1>5. ReadInv
  <2>1. \A p \in Pollers : Reads(p)
    BY <1>1 DEF Reads
  <2>2. \A i \in Invoices : Recorded(i)
    BY DEF Init, Recorded
  <2> QED
    BY <2>1, <2>2 DEF ReadInv
<1> QED
  BY <1>3, <1>4, <1>5 DEF Inv

LEMMA TickStep == ASSUME Inv, Tick PROVE Inv'
<1> USE DEF Inv
<1>1. TypeInv'
  BY DEF Tick, TypeInv
<1>2. LeaseInv'
  <2> SUFFICES ASSUME NEW p \in Pollers PROVE AtHand(p)' /\ (~stall' => Holds(p)')
    BY DEF LeaseInv
  <2>1. wk[p].until \in Nat /\ now \in Nat
    BY DEF TypeInv, Worker
  <2>2. ~stall /\ Checking(p) => now + 1 < wk[p].until
    BY DEF Tick, Prompt
  <2> QED
    BY <2>1, <2>2 DEF Tick, LeaseInv, AtHand, Holds, Checking
<1>3. ReadInv'
  <2> SUFFICES ASSUME ~stall
               PROVE  /\ \A p \in Pollers : Reads(p)'
                      /\ \A i \in Invoices : Recorded(i)'
    BY DEF ReadInv, Tick
  <2>1. ASSUME NEW p \in Pollers PROVE Reads(p)'
    <3>1. wk[p].start \in Nat /\ wk[p].at \in Nat /\ now \in Nat /\ ChainTimeout \in Nat
      BY TimesAssumption DEF TypeInv, Worker
    <3>2. wk[p].pc \in {"check", "decide"} => now < wk[p].start + ChainTimeout
      BY DEF Tick, Prompt
    <3> QED
      BY <3>1, <3>2 DEF Tick, ReadInv, Reads, UnpaidBy
  <2>2. ASSUME NEW i \in Invoices PROVE Recorded(i)'
    <3>1. /\ now \in Nat /\ negAt[i] \in Nat \cup {None}
          /\ EffectiveDeadline(i) \in Nat
      BY TimesAssumption DEF TypeInv, EffectiveDeadline
    <3>2. Recorded(i) /\ now' = now + 1 /\ UNCHANGED <<negAt, status, paidAt>>
      BY DEF Tick, ReadInv
    <3>3. EffectiveDeadline(i)' = EffectiveDeadline(i)
      BY DEF EffectiveDeadline
    <3> HIDE DEF Inv
    <3> QED
      BY <3>1, <3>2, <3>3 DEF Recorded, UnpaidBy
  <2> QED
    BY <2>1, <2>2
<1> QED
  BY <1>1, <1>2, <1>3

LEMMA ConfirmStep == ASSUME Inv, NEW i \in Invoices, Confirm(i) PROVE Inv'
<1> USE DEF Inv
<1>0. /\ paidAt' = [paidAt EXCEPT ![i] = now] /\ paidAt \in [Invoices -> Nat \cup {None}]
      /\ paidAt[i] = None /\ now \in Nat
      /\ UNCHANGED <<now, status, negAt, lease, wk, stall>>
  BY DEF Confirm, TypeInv
<1>1. TypeInv'
  BY <1>0 DEF TypeInv
<1>2. LeaseInv'
  BY <1>0 DEF LeaseInv, AtHand, Holds, Checking
<1>3. ReadInv'
  <2> SUFFICES ASSUME ~stall
               PROVE  /\ \A p \in Pollers : Reads(p)'
                      /\ \A j \in Invoices : Recorded(j)'
    BY <1>0 DEF ReadInv
  <2>0. ASSUME NEW j \in Invoices, NEW t \in Nat, t <= now, UnpaidBy(j, t) PROVE UnpaidBy(j, t)'
    BY <1>0, <2>0, TimesAssumption DEF UnpaidBy
  <2>1. ASSUME NEW p \in Pollers PROVE Reads(p)'
    <3>1. Reads(p) /\ wk'[p] = wk[p] /\ wk[p].at \in Nat /\ wk[p].start \in Nat
          /\ (wk[p].pc \in Busy => wk[p].inv \in Invoices)
      BY <1>0 DEF ReadInv, TypeInv, Worker, LeaseInv, AtHand
    <3>2. CASE wk[p].pc = "writeNeg"
      BY <1>0, <2>0, <3>1, <3>2 DEF Reads, Busy
    <3>3. CASE wk[p].pc \in {"check", "decide"}
      BY <1>0, <3>1, <3>3 DEF Reads, Busy
    <3> QED
      BY <1>0, <3>1, <3>2, <3>3 DEF Reads
  <2>2. ASSUME NEW j \in Invoices PROVE Recorded(j)'
    <3>1. Recorded(j) /\ negAt[j] \in Nat \cup {None} /\ EffectiveDeadline(j) \in Nat
          /\ EffectiveDeadline(j)' = EffectiveDeadline(j)
      BY TimesAssumption DEF ReadInv, TypeInv, EffectiveDeadline
    <3>2. negAt[j] # None => (negAt[j] <= now /\ UnpaidBy(j, negAt[j]))'
      BY <1>0, <2>0, <3>1 DEF Recorded
    <3>3. status[j] = "expired" => UnpaidBy(j, EffectiveDeadline(j))'
      BY <2>0, <3>1 DEF Recorded
    <3> QED
      BY <1>0, <3>1, <3>2, <3>3 DEF Recorded
  <2> QED
    BY <2>1, <2>2
<1> QED
  BY <1>1, <1>2, <1>3
\* Steps that only move poller p on, outside the check or out of it.
LEMMA PlainStep ==
  ASSUME Inv, NEW p \in Pollers, NEW pc \in Stages \ {"check", "decide", "clear", "process", "writeNeg"},
         Goto(p, pc), pc \in Busy => wk[p].pc \in Busy,
         UNCHANGED <<now, paidAt, negAt, lease, stall>>,
         status' \in [Invoices -> {"pending", "settled", "expired"}],
         \A i \in Invoices : status'[i] = "expired" => status[i] = "expired"
  PROVE  Inv'
<1> USE DEF Inv
<1>1. /\ wk' \in [Pollers -> Worker]
      /\ \A q \in Pollers : q # p => wk'[q] = wk[q]
      /\ wk'[p].pc = pc /\ wk'[p].inv = wk[p].inv
  BY Moves
<1>2. TypeInv'
  BY <1>1 DEF TypeInv
<1>3. LeaseInv'
  <2>1. ~Checking(p)'
    BY <1>1 DEF Checking
  <2> QED
    BY <1>1, <2>1, LeaseKept
<1>4. ReadInv'
  BY <1>1, ReadKept
<1> QED
  BY <1>2, <1>3, <1>4

LEMMA ReconcileStep == ASSUME Inv, NEW p \in Pollers, Reconcile(p) PROVE Inv'
  BY PlainStep DEF Reconcile, Stages, Busy, Inv, TypeInv

LEMMA CheckFailsStep == ASSUME Inv, NEW p \in Pollers, CheckFails(p) PROVE Inv'
  BY PlainStep DEF CheckFails, Stages, Busy, Inv, TypeInv

LEMMA CheckTimesOutStep == ASSUME Inv, NEW p \in Pollers, CheckTimesOut(p) PROVE Inv'
  BY PlainStep DEF CheckTimesOut, Stages, Busy, Inv, TypeInv

LEMMA CreditInvoiceStep == ASSUME Inv, NEW p \in Pollers, CreditInvoice(p) PROVE Inv'
  BY PlainStep DEF CreditInvoice, Stages, Busy, Inv, TypeInv

LEMMA RecordEventStep == ASSUME Inv, NEW p \in Pollers, RecordEvent(p) PROVE Inv'
  BY PlainStep DEF RecordEvent, Stages, Busy, Inv, TypeInv

LEMMA ProcessStep == ASSUME Inv, NEW p \in Pollers, Process(p) PROVE Inv'
<1>1. PICK pc \in {"release", "record", "credit"} : Goto(p, pc)
  BY DEF Process
<1> QED
  BY <1>1, PlainStep DEF Process, Stages, Busy, Inv, TypeInv

\* Steps that put poller p back to the head of its cycle or hand it new work.
LEMMA RestartStep ==
  ASSUME Inv, NEW p \in Pollers, NEW r \in Worker, r.pc \in {"idle", "poll"},
         wk' = [wk EXCEPT ![p] = r],
         UNCHANGED <<now, paidAt, status, negAt, lease, stall>>
  PROVE  Inv'
<1> USE DEF Inv
<1>1. wk' \in [Pollers -> Worker] /\ wk'[p] = r /\ \A q \in Pollers : q # p => wk'[q] = wk[q]
  BY DEF TypeInv
<1>2. TypeInv'
  BY <1>1 DEF TypeInv
<1>3. LeaseInv'
  BY <1>1, LeaseKept DEF Checking, Busy
<1>4. ReadInv'
  BY <1>1, ReadKept
<1> QED
  BY <1>2, <1>3, <1>4

LEMMA OpenInvoicesStep == ASSUME Inv, NEW p \in Pollers, OpenInvoices(p) PROVE Inv'
<1>1. PICK r : r = [Idle EXCEPT !.pc = "poll", !.todo = {i \in Invoices : status[i] = "pending"}]
  OBVIOUS
<1>2. r \in Worker /\ r.pc = "poll"
  BY <1>1, IdleIsWorker DEF Worker, Stages
<1> QED
  BY <1>1, <1>2, RestartStep DEF OpenInvoices

LEMMA CrashStep == ASSUME Inv, NEW p \in Pollers, Crash(p) PROVE Inv'
  BY IdleIsWorker, RestartStep DEF Crash

\* CheckInvoice: a check that finds nothing was made no earlier than it started.
LEMMA CheckInvoiceStep == ASSUME Inv, NEW p \in Pollers, CheckInvoice(p) PROVE Inv'
<1> USE DEF Inv
<1>1. PICK r : r = [wk[p] EXCEPT !.pc = "decide", !.paid = paidAt[wk[p].inv] # None]
  OBVIOUS
<1>2. /\ r \in Worker /\ r.pc = "decide" /\ r.inv = wk[p].inv /\ r.start = wk[p].start
      /\ r.until = wk[p].until
  BY <1>1 DEF Worker, TypeInv, Stages
<1>3. r.paid = (paidAt[wk[p].inv] # None)
  BY <1>1 DEF Worker, TypeInv
<1>4. wk' \in [Pollers -> Worker] /\ wk'[p] = r /\ \A q \in Pollers : q # p => wk'[q] = wk[q]
  BY <1>1, <1>2 DEF TypeInv, CheckInvoice
<1>5. UNCHANGED <<now, paidAt, status, negAt, lease, stall>> /\ wk[p].pc = "check"
  BY DEF CheckInvoice
<1>6. TypeInv'
  BY <1>4, <1>5 DEF TypeInv
<1>7. LeaseInv'
  BY <1>2, <1>4, <1>5, LeaseKept DEF Checking, Busy
<1>8. ReadInv'
  <2> SUFFICES ASSUME ~stall
               PROVE  /\ \A q \in Pollers : Reads(q)'
                      /\ \A j \in Invoices : Recorded(j)'
    BY <1>5 DEF ReadInv
  <2>1. ASSUME NEW q \in Pollers, q # p PROVE Reads(q)'
    BY <1>4, <1>5, <2>1 DEF ReadInv, Reads, UnpaidBy
  <2>2. Reads(p)'
    <3>1. r.start <= now /\ now <= r.start + ChainTimeout
      BY <1>2, <1>5 DEF ReadInv, Reads
    <3> QED
      BY <1>2, <1>3, <1>4, <1>5, <3>1 DEF Reads
  <2>3. ASSUME NEW j \in Invoices PROVE Recorded(j)'
    BY <1>5 DEF ReadInv, Recorded, UnpaidBy, EffectiveDeadline
  <2> QED
    BY <2>1, <2>2, <2>3
<1> QED
  BY <1>6, <1>7, <1>8

\* Decide: a negative answer is recorded at an instant at most one chain check after the
\* check began.
LEMMA DecideStep == ASSUME Inv, NEW p \in Pollers, Decide(p) PROVE Inv'
<1> USE DEF Inv
<1>1. PICK pc : pc = IF wk[p].paid THEN "clear"
                     ELSE IF now >= EffectiveDeadline(wk[p].inv) THEN "writeNeg" ELSE "release"
  OBVIOUS
<1>2. PICK r : r = [wk[p] EXCEPT !.at = now, !.pc = pc]
  OBVIOUS
<1>3. pc \in {"clear", "writeNeg", "release"} /\ (pc = "writeNeg" => ~wk[p].paid)
  BY <1>1
<1>4. /\ r \in Worker /\ r.pc = pc /\ r.inv = wk[p].inv /\ r.at = now
      /\ r.until = wk[p].until
  BY <1>2, <1>3 DEF Worker, TypeInv, Stages
<1>5. wk' \in [Pollers -> Worker] /\ wk'[p] = r /\ \A q \in Pollers : q # p => wk'[q] = wk[q]
  <2>1. wk' = [wk EXCEPT ![p] = r]
    BY <1>1, <1>2 DEF Decide
  <2> QED
    BY <1>4, <2>1 DEF TypeInv
<1>6. UNCHANGED <<now, paidAt, status, negAt, lease, stall>> /\ wk[p].pc = "decide"
  BY DEF Decide
<1>7. TypeInv'
  BY <1>5, <1>6 DEF TypeInv
<1>8. LeaseInv'
  BY <1>3, <1>4, <1>5, <1>6, LeaseKept DEF Checking, Busy
<1>9. ReadInv'
  <2> SUFFICES ASSUME ~stall
               PROVE  /\ \A q \in Pollers : Reads(q)'
                      /\ \A j \in Invoices : Recorded(j)'
    BY <1>6 DEF ReadInv
  <2>1. ASSUME NEW q \in Pollers, q # p PROVE Reads(q)'
    BY <1>5, <1>6, <2>1 DEF ReadInv, Reads, UnpaidBy
  <2>2. Reads(p)'
    <3>1. CASE pc = "writeNeg"
      <4>1. wk[p].inv \in Invoices
        BY <1>6 DEF LeaseInv, AtHand, Busy
      <4>2. /\ paidAt[wk[p].inv] # None => paidAt[wk[p].inv] >= wk[p].start
            /\ now <= wk[p].start + ChainTimeout
        BY <1>3, <1>6, <3>1 DEF ReadInv, Reads
      <4>3. now \in Nat /\ wk[p].start \in Nat /\ ChainTimeout \in Nat
            /\ paidAt[wk[p].inv] \in Nat \cup {None}
        BY <4>1, TimesAssumption DEF TypeInv, Worker
      <4>4. UnpaidBy(wk[p].inv, now)
        BY <4>2, <4>3 DEF UnpaidBy
      <4> QED
        BY <1>4, <1>5, <1>6, <3>1, <4>3, <4>4 DEF Reads, UnpaidBy
    <3> QED
      BY <1>3, <1>4, <1>5, <3>1 DEF Reads
  <2>3. ASSUME NEW j \in Invoices PROVE Recorded(j)'
    BY <1>6 DEF ReadInv, Recorded, UnpaidBy, EffectiveDeadline
  <2> QED
    BY <2>1, <2>2, <2>3
<1> QED
  BY <1>7, <1>8, <1>9
\* The two writers of the negative marker, within or at the end of a check.
LEMMA MarkerStep ==
  ASSUME Inv, NEW p \in Pollers, NEW pc \in {"release", "process"}, Goto(p, pc),
         NEW i, i = wk[p].inv, wk[p].pc \in {"writeNeg", "clear"},
         UNCHANGED <<now, paidAt, status, lease, stall>>,
         NEW t, t \in Nat \cup {None}, ~stall /\ t # None => t <= now /\ UnpaidBy(i, t),
         negAt' = IF status[i] = "pending" THEN [negAt EXCEPT ![i] = t] ELSE negAt
  PROVE  Inv'
<1> USE DEF Inv
<1>1. /\ wk' \in [Pollers -> Worker]
      /\ \A q \in Pollers : q # p => wk'[q] = wk[q]
      /\ wk'[p].pc = pc /\ wk'[p].inv = wk[p].inv /\ wk'[p].until = wk[p].until
  BY Moves DEF Stages
<1>2. TypeInv'
  BY <1>1 DEF TypeInv
<1>3. LeaseInv'
  BY <1>1, LeaseKept DEF Checking, Busy
<1>4. ReadInv'
  <2> SUFFICES ASSUME ~stall
               PROVE  /\ \A q \in Pollers : Reads(q)'
                      /\ \A j \in Invoices : Recorded(j)'
    BY DEF ReadInv
  <2>1. ASSUME NEW q \in Pollers PROVE Reads(q)'
    <3>1. CASE q = p
      BY <1>1, <3>1 DEF Reads
    <3>2. CASE q # p
      BY <1>1, <3>2 DEF ReadInv, Reads, UnpaidBy
    <3> QED
      BY <3>1, <3>2
  <2>2. ASSUME NEW j \in Invoices PROVE Recorded(j)'
    <3>1. negAt'[j] = negAt[j] \/ (j = i /\ negAt'[j] = t)
      BY DEF TypeInv
    <3> QED
      BY <3>1 DEF ReadInv, Recorded, UnpaidBy, EffectiveDeadline
  <2> QED
    BY <2>1, <2>2
<1> QED
  BY <1>2, <1>3, <1>4

LEMMA RecordNegativeCheckStep == ASSUME Inv, NEW p \in Pollers, RecordNegativeCheck(p) PROVE Inv'
<1>1. wk[p].at \in Nat /\ (~stall => wk[p].at <= now /\ UnpaidBy(wk[p].inv, wk[p].at))
  BY DEF RecordNegativeCheck, Inv, TypeInv, Worker, ReadInv, Reads
<1> QED
  BY <1>1, MarkerStep DEF RecordNegativeCheck

LEMMA ClearNegativeCheckStep == ASSUME Inv, NEW p \in Pollers, ClearNegativeCheck(p) PROVE Inv'
  BY MarkerStep DEF ClearNegativeCheck

LEMMA StoreFailsStep == ASSUME Inv, NEW p \in Pollers, StoreFails(p) PROVE Inv'
<1>1. CASE wk[p].pc = "clear" /\ Goto(p, "process")
  <2>1. negAt' = negAt /\ UNCHANGED <<now, paidAt, status, lease, stall>>
    BY DEF StoreFails
  <2>2. /\ wk' \in [Pollers -> Worker]
        /\ \A q \in Pollers : q # p => wk'[q] = wk[q]
        /\ wk'[p].pc = "process" /\ wk'[p].inv = wk[p].inv /\ wk'[p].until = wk[p].until
    BY <1>1, Moves DEF Stages, Inv
  <2>3. TypeInv'
    BY <2>1, <2>2 DEF Inv, TypeInv
  <2>4. LeaseInv'
    BY <1>1, <2>1, <2>2, LeaseKept DEF Inv, Checking, Busy
  <2>5. ReadInv'
    BY <2>1, <2>2, ReadKept DEF Inv
  <2> QED
    BY <2>3, <2>4, <2>5 DEF Inv
<1>2. CASE wk[p].pc \in {"writeNeg", "process", "credit", "record"} /\ Goto(p, "release")
  BY <1>2, PlainStep DEF StoreFails, Stages, Busy, Inv, TypeInv
<1>3. CASE wk[p].pc = "release" /\ Goto(p, "poll")
  BY <1>3, PlainStep DEF StoreFails, Stages, Busy, Inv, TypeInv
<1> QED
  BY <1>1, <1>2, <1>3 DEF StoreFails

\* A free lease is not the one of a poller at a check.
LEMMA FreeIsNotHeld ==
  ASSUME Inv, NEW i \in Invoices, LeaseFree(i), NEW q \in Pollers, ~stall, Checking(q)
  PROVE  wk[q].inv # i
<1> SUFFICES ASSUME wk[q].inv = i PROVE FALSE
  OBVIOUS
<1>0. lease[i] = [owner |-> q, until |-> wk[q].until] /\ now < wk[q].until
  BY DEF Inv, LeaseInv, Holds
<1>1. lease[i].until = wk[q].until /\ now < wk[q].until
  BY <1>0
<1>2. lease[i].until \in Nat /\ now \in Nat
  BY DEF Inv, TypeInv, Lease
<1> QED
  BY <1>1, <1>2 DEF LeaseFree

\* AcquirePollLease: a lease is taken only when the last one has lapsed, so no poller at a
\* check loses its own.
LEMMA AcquirePollLeaseStep == ASSUME Inv, NEW p \in Pollers, AcquirePollLease(p) PROVE Inv'
<1> USE DEF Inv
<1>0. wk[p].pc = "poll" /\ UNCHANGED <<now, paidAt, status, negAt, stall>>
      /\ wk[p] \in Worker /\ now \in Nat
  BY DEF AcquirePollLease, TypeInv
<1>1. ASSUME NEW i \in wk[p].todo, LeaseFree(i),
             lease' = [lease EXCEPT ![i] = [owner |-> p, until |-> now + PollLease]],
             wk' = [wk EXCEPT ![p] = [wk[p] EXCEPT !.pc = "check", !.inv = i,
                          !.todo = wk[p].todo \ {i}, !.start = now,
                          !.until = now + PollLease]]
      PROVE  Inv'
  <2>1. PICK r : r = [wk[p] EXCEPT !.pc = "check", !.inv = i, !.todo = wk[p].todo \ {i},
                                   !.start = now, !.until = now + PollLease]
    OBVIOUS
  <2>2. i \in Invoices /\ now + PollLease \in Nat /\ now < now + PollLease
    BY <1>0, TimesAssumption, LeaseAssumption DEF Worker
  <2>3. /\ r \in Worker /\ r.pc = "check" /\ r.inv = i /\ r.start = now
        /\ r.until = now + PollLease
    BY <1>0, <2>1, <2>2 DEF Worker, Stages
  <2>4. wk' \in [Pollers -> Worker] /\ wk'[p] = r /\ \A q \in Pollers : q # p => wk'[q] = wk[q]
    BY <1>1, <2>1, <2>3 DEF TypeInv
  <2>5. /\ lease' \in [Invoices -> Lease] /\ lease'[i] = [owner |-> p, until |-> now + PollLease]
        /\ \A j \in Invoices : j # i => lease'[j] = lease[j]
    BY <1>1, <2>2 DEF TypeInv, Lease
  <2>6. TypeInv'
    BY <1>0, <2>4, <2>5 DEF TypeInv
  <2>7. LeaseInv'
    <3> SUFFICES ASSUME NEW q \in Pollers PROVE AtHand(q)' /\ (~stall' => Holds(q)')
      BY DEF LeaseInv
    <3>1. CASE q = p
      BY <1>0, <2>2, <2>3, <2>4, <2>5, <3>1 DEF AtHand, Holds
    <3>2. CASE q # p
      <4>1. ~stall /\ Checking(q) => wk[q].inv # i
        BY <1>1, <2>2, FreeIsNotHeld
      <4>2. AtHand(q)
        BY DEF LeaseInv
      <4>3. Checking(q) => wk[q].inv \in Invoices
        BY <4>2 DEF AtHand, Checking, Busy
      <4> QED
        BY <1>0, <2>4, <2>5, <3>2, <4>1, <4>2, <4>3 DEF LeaseInv, AtHand, Holds, Checking
    <3> QED
      BY <3>1, <3>2
  <2>8. ReadInv'
    <3> SUFFICES ASSUME ~stall
                 PROVE  /\ \A q \in Pollers : Reads(q)'
                        /\ \A j \in Invoices : Recorded(j)'
      BY <1>0 DEF ReadInv
    <3>1. Reads(p)'
      BY <1>0, <2>3, <2>4, TimesAssumption DEF Reads
    <3>2. ASSUME NEW q \in Pollers, q # p PROVE Reads(q)'
      BY <1>0, <2>4, <3>2 DEF ReadInv, Reads, UnpaidBy
    <3>3. ASSUME NEW j \in Invoices PROVE Recorded(j)'
      BY <1>0 DEF ReadInv, Recorded, UnpaidBy, EffectiveDeadline
    <3> QED
      BY <3>1, <3>2, <3>3
  <2> QED
    BY <2>6, <2>7, <2>8
<1>2. ASSUME NEW i \in wk[p].todo, wk' = [wk EXCEPT ![p] = [wk[p] EXCEPT !.todo = wk[p].todo \ {i}]],
             UNCHANGED lease
      PROVE  Inv'
  <2>1. PICK r : r = [wk[p] EXCEPT !.todo = wk[p].todo \ {i}]
    OBVIOUS
  <2>2. r \in Worker /\ r.pc = "poll"
    BY <1>0, <2>1 DEF Worker
  <2> QED
    BY <1>0, <1>2, <2>1, <2>2, RestartStep
<1>3. CASE Goto(p, "expire") /\ UNCHANGED lease
  BY <1>0, <1>3, PlainStep DEF Stages, Busy, TypeInv
<1> QED
  BY <1>1, <1>2, <1>3 DEF AcquirePollLease

\* AcquirePollLease that fails: a lease written all the same was free, so no poller at a
\* check loses its own.
LEMMA AcquireFailsStep == ASSUME Inv, NEW p \in Pollers, AcquireFails(p) PROVE Inv'
<1> USE DEF Inv
<1>0. wk[p].pc = "poll" /\ UNCHANGED <<now, paidAt, status, negAt, stall>>
      /\ wk[p] \in Worker /\ now \in Nat
  BY DEF AcquireFails, TypeInv
<1>1. PICK i \in wk[p].todo :
             /\ wk' = [wk EXCEPT ![p] = [wk[p] EXCEPT !.todo = wk[p].todo \ {i}]]
             /\ \/ UNCHANGED lease
                \/ /\ LeaseFree(i)
                   /\ lease' = [lease EXCEPT ![i] = [owner |-> p, until |-> now + PollLease]]
  BY DEF AcquireFails
<1>2. PICK r : r = [wk[p] EXCEPT !.todo = wk[p].todo \ {i}]
  OBVIOUS
<1>3. r \in Worker /\ r.pc = "poll" /\ i \in Invoices
  BY <1>0, <1>2 DEF Worker
<1>4. CASE UNCHANGED lease
  BY <1>0, <1>1, <1>2, <1>3, <1>4, RestartStep
<1>5. CASE LeaseFree(i) /\ lease' = [lease EXCEPT ![i] = [owner |-> p, until |-> now + PollLease]]
  <2>1. wk' \in [Pollers -> Worker] /\ wk'[p].pc = "poll" /\ \A q \in Pollers : q # p => wk'[q] = wk[q]
    BY <1>1, <1>2, <1>3 DEF TypeInv
  <2>2. now + PollLease \in Nat
    BY <1>0, TimesAssumption, LeaseAssumption
  <2>3. lease' \in [Invoices -> Lease] /\ \A j \in Invoices : j # i => lease'[j] = lease[j]
    BY <1>3, <1>5, <2>2 DEF TypeInv, Lease
  <2>4. TypeInv'
    BY <1>0, <2>1, <2>3 DEF TypeInv
  <2>5. LeaseInv'
    <3> SUFFICES ASSUME NEW q \in Pollers PROVE AtHand(q)' /\ (~stall' => Holds(q)')
      BY DEF LeaseInv
    <3>1. CASE q = p
      BY <2>1, <3>1 DEF AtHand, Holds, Checking, Busy
    <3>2. CASE q # p
      <4>1. ~stall /\ Checking(q) => wk[q].inv # i
        BY <1>0, <1>3, <1>5, FreeIsNotHeld
      <4>2. AtHand(q)
        BY DEF LeaseInv
      <4>3. Checking(q) => wk[q].inv \in Invoices
        BY <4>2 DEF AtHand, Checking, Busy
      <4> QED
        BY <1>0, <2>1, <2>3, <3>2, <4>1, <4>2, <4>3 DEF LeaseInv, AtHand, Holds, Checking
    <3> QED
      BY <3>1, <3>2
  <2>6. ReadInv'
    BY <1>0, <2>1, ReadKept
  <2> QED
    BY <2>4, <2>5, <2>6
<1> QED
  BY <1>1, <1>4, <1>5

\* ReleasePollLease: a poller drops only its own lease, which no other poller holds.
LEMMA ReleasePollLeaseStep == ASSUME Inv, NEW p \in Pollers, ReleasePollLease(p) PROVE Inv'
<1> USE DEF Inv
<1> DEFINE i == wk[p].inv
<1>0. wk[p].pc = "release" /\ UNCHANGED <<now, paidAt, status, negAt, stall>> /\ Goto(p, "poll")
  BY DEF ReleasePollLease
<1>1. /\ wk' \in [Pollers -> Worker]
      /\ \A q \in Pollers : q # p => wk'[q] = wk[q]
      /\ wk'[p].pc = "poll"
  BY <1>0, Moves DEF Stages
<1>2. lease' = lease \/ (lease[i].owner = p /\ lease' = [lease EXCEPT ![i] = NoLease])
  BY DEF ReleasePollLease
<1>3. lease' \in [Invoices -> Lease] /\ \A j \in Invoices : lease'[j] = lease[j] \/ lease[j].owner = p
  BY <1>2 DEF TypeInv, NoLease, Lease
<1>4. TypeInv'
  BY <1>0, <1>1, <1>3 DEF TypeInv
<1>5. LeaseInv'
  <2> SUFFICES ASSUME NEW q \in Pollers PROVE AtHand(q)' /\ (~stall' => Holds(q)')
    BY DEF LeaseInv
  <2>1. CASE q = p
    BY <1>1, <2>1 DEF AtHand, Holds, Checking, Busy
  <2>2. CASE q # p
    <3>1. AtHand(q) /\ (~stall => Holds(q))
      BY DEF LeaseInv
    <3>2. Checking(q) => wk[q].inv \in Invoices
      BY <3>1 DEF AtHand, Checking, Busy
    <3>3. ~stall /\ Checking(q) => lease'[wk[q].inv] = lease[wk[q].inv]
      BY <1>3, <2>2, <3>1, <3>2 DEF Holds
    <3> QED
      BY <1>0, <1>1, <2>2, <3>1, <3>3 DEF AtHand, Holds, Checking
  <2> QED
    BY <2>1, <2>2
<1>6. ReadInv'
  BY <1>0, <1>1, ReadKept
<1> QED
  BY <1>4, <1>5, <1>6

\* ExpireOverdue: an invoice given up had a negative check at or after its deadline.
LEMMA ExpireOverdueStep == ASSUME Inv, NEW p \in Pollers, ExpireOverdue(p) PROVE Inv'
<1> USE DEF Inv
<1>0. /\ UNCHANGED <<now, paidAt, negAt, lease, stall>>
      /\ status' = [i \in Invoices |-> IF Overdue(i) THEN "expired" ELSE status[i]]
      /\ wk' = [wk EXCEPT ![p] = Idle]
  BY DEF ExpireOverdue
<1>1. wk' \in [Pollers -> Worker] /\ wk'[p].pc = "idle" /\ \A q \in Pollers : q # p => wk'[q] = wk[q]
  BY <1>0, IdleIsWorker DEF TypeInv
<1>2. TypeInv'
  BY <1>0, <1>1 DEF TypeInv
<1>3. LeaseInv'
  BY <1>0, <1>1, LeaseKept DEF Checking, Busy
<1>4. ReadInv'
  <2> SUFFICES ASSUME ~stall
               PROVE  /\ \A q \in Pollers : Reads(q)'
                      /\ \A j \in Invoices : Recorded(j)'
    BY <1>0 DEF ReadInv
  <2>1. ASSUME NEW q \in Pollers PROVE Reads(q)'
    <3>1. CASE q = p
      BY <1>1, <3>1 DEF Reads
    <3>2. CASE q # p
      BY <1>0, <1>1, <3>2 DEF ReadInv, Reads, UnpaidBy
    <3> QED
      BY <3>1, <3>2
  <2>2. ASSUME NEW j \in Invoices PROVE Recorded(j)'
    <3>1. /\ Recorded(j) /\ now \in Nat /\ ChainTimeout \in Nat /\ EffectiveDeadline(j) \in Nat
          /\ negAt[j] \in Nat \cup {None} /\ paidAt[j] \in Nat \cup {None}
          /\ EffectiveDeadline(j)' = EffectiveDeadline(j)
      BY TimesAssumption DEF ReadInv, TypeInv, EffectiveDeadline
    <3>2. Overdue(j) => EffectiveDeadline(j) <= now /\ UnpaidBy(j, EffectiveDeadline(j))
      BY <3>1 DEF Overdue, Recorded, UnpaidBy
    <3>3. status'[j] = "expired" => Overdue(j) \/ status[j] = "expired"
      BY <1>0
    <3> QED
      BY <1>0, <3>1, <3>2, <3>3 DEF Recorded, UnpaidBy
  <2> QED
    BY <2>1, <2>2
<1> QED
  BY <1>2, <1>3, <1>4

LEMMA InvStep == ASSUME Inv, [Next]_vars PROVE Inv'
<1>1. CASE UNCHANGED vars
  BY <1>1 DEF vars, Inv, TypeInv, LeaseInv, AtHand, Holds, Checking, ReadInv, Reads, Recorded,
     UnpaidBy, EffectiveDeadline
<1>2. ASSUME NEW p \in Pollers, PollerStep(p) PROVE Inv'
  BY <1>2, ReconcileStep, OpenInvoicesStep, AcquirePollLeaseStep, CheckInvoiceStep,
     CheckTimesOutStep, DecideStep, RecordNegativeCheckStep, ClearNegativeCheckStep, ProcessStep,
     CreditInvoiceStep, RecordEventStep, ReleasePollLeaseStep, ExpireOverdueStep DEF PollerStep
<1> QED
  BY <1>1, <1>2, TickStep, ConfirmStep, CheckFailsStep, StoreFailsStep, AcquireFailsStep, CrashStep DEF Next

-----------------------------------------------------------------------------
\* The types, the lease of a poller at a check and the age of what is recorded, at all times.
THEOREM OnChainInvariant == Spec => []Inv
  BY InvInit, InvStep, PTL DEF Spec

\* A sweep that expires an invoice meets no payment in another poller's hands.
LEMMA SweepSparesPayment ==
  ASSUME Inv, [Next]_vars, NEW p \in Pollers, ~stall,
         wk[p].pc \in {"decide", "clear", "process"}, status[wk[p].inv] = "pending"
  PROVE  status'[wk[p].inv] # "expired"
<1> DEFINE i == wk[p].inv
<1>0. AtHand(p) /\ Holds(p) /\ Checking(p) /\ wk[p].pc \in Busy
  BY DEF Inv, LeaseInv, Checking, Busy
<1>1. i \in Invoices /\ lease[i].until = wk[p].until /\ now < wk[p].until
  <2>1. i \in Invoices /\ lease[i] = [owner |-> p, until |-> wk[p].until] /\ now < wk[p].until
    BY <1>0 DEF AtHand, Holds
  <2> QED
    BY <2>1
<1>2. now \in Nat /\ wk[p].until \in Nat
  BY DEF Inv, TypeInv, Worker
<1>3. ~Overdue(i)
  BY <1>1, <1>2 DEF Overdue, LeaseFree
<1>4. ASSUME NEW q \in Pollers, ExpireOverdue(q) PROVE status'[i] # "expired"
  BY <1>1, <1>3, <1>4 DEF ExpireOverdue
<1>5. ASSUME NEW q \in Pollers, Reconcile(q) \/ CreditInvoice(q) PROVE status'[i] # "expired"
  BY <1>1, <1>5 DEF Reconcile, CreditInvoice, Inv, TypeInv
<1>6. CASE status' = status
  BY <1>6
<1> QED
  BY <1>4, <1>5, <1>6 DEF Next, PollerStep, Tick, Confirm, OpenInvoices, AcquirePollLease,
     CheckInvoice, CheckTimesOut, Decide, RecordNegativeCheck, ClearNegativeCheck, Process,
     RecordEvent, ReleasePollLease, CheckFails, StoreFails, AcquireFails, Crash, vars

\* While a poller that does not stall has a confirmed payment in its hands, no sweep of
\* another instance expires the invoice, for any number of instances, invoices and deadlines
\* and any lease longer than a chain check (AcquirePollLease, ExpireOverdue).
THEOREM PaymentInHandKept == Spec => PaymentInHandIsKept
<1>1. Inv /\ [Next]_vars =>
        [\A p \in Pollers :
           LET i == wk[p].inv IN
           /\ ~stall
           /\ wk[p].pc \in {"decide", "clear", "process"}
           /\ wk[p].paid
           /\ status[i] = "pending"
           => status'[i] # "expired"]_vars
  BY SweepSparesPayment
<1> QED
  BY <1>1, OnChainInvariant, PTL DEF Spec, PaymentInHandIsKept

\* A payment the chain confirmed more than one chain check before the effective deadline is
\* never given up: whatever negative check armed the sweep had read the chain after it.
THEOREM EarlyPaymentKept == Spec => []EarlyPaymentNotExpired
<1>1. Inv => EarlyPaymentNotExpired
  <2> SUFFICES ASSUME Inv, ~stall, NEW i \in Invoices, paidAt[i] # None,
                      paidAt[i] + ChainTimeout < EffectiveDeadline(i), status[i] = "expired"
               PROVE  FALSE
    BY DEF EarlyPaymentNotExpired
  <2>1. paidAt[i] \in Nat /\ ChainTimeout \in Nat /\ EffectiveDeadline(i) \in Nat
    BY TimesAssumption DEF Inv, TypeInv, EffectiveDeadline
  <2>2. paidAt[i] + ChainTimeout >= EffectiveDeadline(i)
    BY DEF Inv, ReadInv, Recorded, UnpaidBy
  <2> QED
    BY <2>1, <2>2
<1> QED
  BY <1>1, OnChainInvariant, PTL
=============================================================================
