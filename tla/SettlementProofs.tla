--------------------------- MODULE SettlementProofs ---------------------------
(***************************************************************************)
(* Proofs about Settlement, for any number of accounts, invoices, events,  *)
(* workers and failures.                                                   *)
(***************************************************************************)
EXTENDS Settlement, FiniteSetTheorems, TLAPS

\* What the program counter of a worker r says about the rest of its state,
\* when ob is the outbox.
WorkerFacts(r, ob) ==
    /\ r \in Worker
    /\ r.dlv \in ob \cup {None}
    /\ r.pc \in {"setStatus", "settle", "record"} \/ r.ret = "record" => r.ev \in Events
    /\ r.pc = "setStatus" => r.ev.kind \in {"expired", "invalid"}
    /\ r.pc \in {"lock", "ensure", "stage"} => r.inv \in Invoices /\ r.sub = UserOf[r.inv]
    /\ r.pc \in {"sweepLock", "sweepRead", "sweepStage"} => r.sub \in Users
    /\ r.pc = "sweepStage" => r.next \in {"past_due", "expired"}
    /\ r.pc \in {"send", "await", "replied"} => r.dlv \in ob
    /\ r.pc \in {"deliver", "finish", "sweep"} => r.ret = r.pc
    /\ r.ret = "deliver" => r.todo \subseteq ob
    /\ r.ret = "finish" => r.todo \subseteq Invoices
    /\ r.ret = "sweep" => r.todo \subseteq Users
    /\ r.ret \in {"idle", "record", "deliver", "finish", "sweep"}

WorkersOK == DOMAIN wk = Workers /\ wk = [w \in Workers |-> wk[w]]
             /\ \A w \in Workers : WorkerFacts(wk[w], outbox)

\* The type invariant made inductive.
TypeInv == StoreTypeOK /\ IsFiniteSet(outbox) /\ WorkersOK

LEMMA IdleIsWorker == Idle \in Worker
  BY BoundsAssumption DEF Idle, Worker, PCs, SubStatus

LEMMA IdleFacts == ASSUME NEW ob PROVE WorkerFacts(Idle, ob)
  BY IdleIsWorker DEF Idle, WorkerFacts

LEMMA NoStateType == NoState \in BillingState
  BY DEF NoState, BillingState, SubStatus

LEMMA TypeInvImpliesTypeOK == TypeInv => TypeOK
  BY DEF TypeInv, TypeOK, WorkersOK, WorkerFacts

LEMMA TypeInit == Init => TypeInv
<1> SUFFICES ASSUME Init PROVE TypeInv
  OBVIOUS
<1>1. IsFiniteSet(outbox)
  BY FS_EmptySet DEF Init
<1>2. WorkersOK
  BY IdleFacts DEF Init, WorkersOK
<1>3. StoreTypeOK
  BY NoStateType, BoundsAssumption DEF Init, StoreTypeOK, Subscription, SubStatus
<1> QED
  BY <1>1, <1>2, <1>3 DEF TypeInv

\* A step that changes one worker and does not shrink the outbox.
LEMMA WorkerMoves ==
  ASSUME TypeInv, NEW w \in Workers, NEW r,
         wk' = [wk EXCEPT ![w] = r], WorkerFacts(r, outbox'), outbox \subseteq outbox'
  PROVE  WorkersOK'
<1>1. ASSUME NEW x \in Workers PROVE WorkerFacts(wk'[x], outbox')
  <2>1. CASE x = w
    BY <2>1 DEF TypeInv, WorkersOK
  <2>2. CASE x # w
    <3>1. wk'[x] = wk[x]
      BY <2>2 DEF TypeInv, WorkersOK
    <3> QED
      BY <3>1 DEF TypeInv, WorkersOK, WorkerFacts
  <2> QED
    BY <2>1, <2>2
<1> QED
  BY <1>1 DEF TypeInv, WorkersOK

\* A step that changes no worker.
LEMMA WorkersStay ==
  ASSUME TypeInv, wk' = wk, outbox' = outbox PROVE WorkersOK'
  BY DEF TypeInv, WorkersOK

LEMMA TypeTick == ASSUME TypeInv, Tick PROVE TypeInv'
<1>1. outbox' = outbox /\ wk' = wk
  BY DEF Tick, outboxVars
<1>2. StoreTypeOK'
  BY FunctionsAssumption, EventsAssumption, BoundsAssumption, NoneAssumption DEF Tick,
     TypeInv, StoreTypeOK, invoiceVars, outboxVars, remoteVars
<1> QED
  BY <1>1, <1>2, WorkersStay DEF TypeInv

LEMMA TypeProcess == ASSUME TypeInv, NEW h \in Handlers, NEW e \in Events, Process(h, e) PROVE TypeInv'
<1> DEFINE r == [Idle EXCEPT
         !.pc = IF e.kind \in {"expired", "invalid"} THEN "setStatus" ELSE "settle",
         !.ret = "record", !.ev = e]
<1>1. h \in Workers /\ outbox' = outbox
  BY DEF Process, Workers, outboxVars
<1>2. wk' = [wk EXCEPT ![h] = r]
  BY <1>1 DEF Process, TypeInv, WorkersOK
<1>3. WorkerFacts(wk[h], outbox)
  BY <1>1 DEF TypeInv, WorkersOK
<1>4. WorkerFacts(r, outbox)
  <2>1. r \in Worker
    BY IdleIsWorker, ZenonT(40) DEF Worker, PCs, Idle, SubStatus
  <2> QED
    BY <1>1, <1>3, <2>1, IdleIsWorker DEF Process, WorkerFacts, Worker, Idle
<1>5. WorkersOK'
  BY <1>1, <1>2, <1>4, WorkerMoves
<1>6. StoreTypeOK'
  BY <1>1, <1>3, FunctionsAssumption, EventsAssumption, BoundsAssumption, NoneAssumption
     DEF Process, TypeInv, StoreTypeOK, invoiceVars, outboxVars, remoteVars
<1> QED
  BY <1>1, <1>5, <1>6 DEF TypeInv

LEMMA TypeSetInvoiceStatus == ASSUME TypeInv, NEW h \in Handlers, SetInvoiceStatus(h) PROVE TypeInv'
<1> DEFINE r == [wk[h] EXCEPT !.pc = "record"]
<1>1. h \in Workers /\ outbox' = outbox
  BY DEF SetInvoiceStatus, Workers, outboxVars
<1>2. wk' = [wk EXCEPT ![h] = r]
  BY <1>1 DEF SetInvoiceStatus, TypeInv, WorkersOK, Goto
<1>3. WorkerFacts(wk[h], outbox)
  BY <1>1 DEF TypeInv, WorkersOK
<1>4. WorkerFacts(r, outbox)
  <2>1. r \in Worker
    BY <1>1, <1>3 DEF SetInvoiceStatus, WorkerFacts, Worker, PCs
  <2> QED
    BY <1>1, <1>3, <2>1 DEF SetInvoiceStatus, WorkerFacts, Worker
<1>5. WorkersOK'
  BY <1>1, <1>2, <1>4, WorkerMoves
<1>6. StoreTypeOK'
  BY <1>1, <1>3, FunctionsAssumption, EventsAssumption, BoundsAssumption, NoneAssumption
     DEF SetInvoiceStatus, TypeInv, StoreTypeOK, invoiceVars, outboxVars, remoteVars,
     WorkerFacts
<1> QED
  BY <1>1, <1>5, <1>6 DEF TypeInv

LEMMA TypeRefuseEvent == ASSUME TypeInv, NEW h \in Handlers, RefuseEvent(h) PROVE TypeInv'
<1>1. h \in Workers /\ outbox' = outbox
  BY DEF RefuseEvent, Workers, outboxVars
<1>2. wk' = [wk EXCEPT ![h] = Idle]
  BY DEF RefuseEvent
<1>3. WorkerFacts(wk[h], outbox)
  BY <1>1 DEF TypeInv, WorkersOK
<1>4. WorkersOK'
  BY <1>1, <1>2, IdleFacts, WorkerMoves
<1>5. StoreTypeOK'
  BY <1>1, <1>3, FunctionsAssumption, EventsAssumption, BoundsAssumption, NoneAssumption
     DEF RefuseEvent, TypeInv, StoreTypeOK, invoiceVars, outboxVars, remoteVars, WorkerFacts
<1> QED
  BY <1>1, <1>4, <1>5 DEF TypeInv

LEMMA TypeClaimSettlement == ASSUME TypeInv, NEW h \in Handlers, ClaimSettlement(h) PROVE TypeInv'
<1> DEFINE i == wk[h].ev.inv
           r == IF i \in claimed THEN [wk[h] EXCEPT !.pc = "record"]
                ELSE [wk[h] EXCEPT !.pc = "lock", !.inv = i, !.sub = UserOf[i]]
<1>1. h \in Workers /\ outbox' = outbox
  BY DEF ClaimSettlement, Workers, outboxVars
<1>2. wk' = [wk EXCEPT ![h] = r]
  BY <1>1 DEF ClaimSettlement, Goto, TypeInv, WorkersOK
<1>3. WorkerFacts(wk[h], outbox)
  BY <1>1 DEF TypeInv, WorkersOK
<1>4. i \in Invoices /\ UserOf[i] \in Users
  BY <1>3, EventsAssumption, FunctionsAssumption DEF ClaimSettlement, WorkerFacts
<1>5. WorkerFacts(r, outbox)
  BY <1>3, <1>4, ZenonT(40) DEF ClaimSettlement, WorkerFacts, Worker, PCs
<1>6. WorkersOK'
  BY <1>1, <1>2, <1>5, WorkerMoves
<1>7. StoreTypeOK'
  BY <1>1, <1>4 DEF ClaimSettlement, TypeInv, StoreTypeOK, outboxVars, remoteVars
<1> QED
  BY <1>1, <1>6, <1>7 DEF TypeInv

LEMMA TypeRecordEvent == ASSUME TypeInv, NEW h \in Handlers, RecordEvent(h) PROVE TypeInv'
<1>1. h \in Workers /\ outbox' = outbox
  BY DEF RecordEvent, Workers, outboxVars
<1>2. wk' = [wk EXCEPT ![h] = Idle]
  BY DEF RecordEvent
<1>3. WorkerFacts(wk[h], outbox)
  BY <1>1 DEF TypeInv, WorkersOK
<1>4. WorkersOK'
  BY <1>1, <1>2, IdleFacts, WorkerMoves
<1>5. StoreTypeOK'
  BY <1>1, <1>3, FunctionsAssumption, EventsAssumption, BoundsAssumption, NoneAssumption
     DEF RecordEvent, TypeInv, StoreTypeOK, invoiceVars, outboxVars, remoteVars, WorkerFacts
<1> QED
  BY <1>1, <1>4, <1>5 DEF TypeInv

LEMMA TypeAcquireUserLock == ASSUME TypeInv, NEW w \in Workers, AcquireUserLock(w) PROVE TypeInv'
<1> DEFINE r == [wk[w] EXCEPT !.pc = IF wk[w].pc = "lock" THEN "ensure" ELSE "sweepRead"]
<1>1. w \in Workers /\ outbox' = outbox
  BY DEF AcquireUserLock, Workers, outboxVars
<1>2. wk' = [wk EXCEPT ![w] = r]
  BY <1>1 DEF AcquireUserLock, TypeInv, WorkersOK, Goto
<1>3. WorkerFacts(wk[w], outbox)
  BY <1>1 DEF TypeInv, WorkersOK
<1>4. WorkerFacts(r, outbox)
  <2>1. r \in Worker
    BY <1>1, <1>3 DEF AcquireUserLock, WorkerFacts, Worker, PCs
  <2> QED
    BY <1>1, <1>3, <2>1 DEF AcquireUserLock, WorkerFacts, Worker
<1>5. WorkersOK'
  BY <1>1, <1>2, <1>4, WorkerMoves
<1>6. StoreTypeOK'
  BY <1>1, <1>3, FunctionsAssumption, EventsAssumption, BoundsAssumption, NoneAssumption
     DEF AcquireUserLock, TypeInv, StoreTypeOK, invoiceVars, outboxVars, remoteVars,
     WorkerFacts
<1> QED
  BY <1>1, <1>5, <1>6 DEF TypeInv

LEMMA TypeEnsureSubscription == ASSUME TypeInv, NEW w \in Workers, EnsureSubscription(w) PROVE TypeInv'
<1> DEFINE r == [wk[w] EXCEPT !.pc = "stage"]
<1>1. w \in Workers /\ outbox' = outbox
  BY DEF EnsureSubscription, Workers, outboxVars
<1>2. wk' = [wk EXCEPT ![w] = r]
  BY <1>1 DEF EnsureSubscription, TypeInv, WorkersOK, Goto
<1>3. WorkerFacts(wk[w], outbox)
  BY <1>1 DEF TypeInv, WorkersOK
<1>4. WorkerFacts(r, outbox)
  <2>1. r \in Worker
    BY <1>1, <1>3 DEF EnsureSubscription, WorkerFacts, Worker, PCs
  <2> QED
    BY <1>1, <1>3, <2>1 DEF EnsureSubscription, WorkerFacts, Worker
<1>5. WorkersOK'
  BY <1>1, <1>2, <1>4, WorkerMoves
<1>6. StoreTypeOK'
  BY <1>1, <1>3, FunctionsAssumption, EventsAssumption, BoundsAssumption, NoneAssumption
     DEF EnsureSubscription, TypeInv, StoreTypeOK, invoiceVars, outboxVars, remoteVars,
     WorkerFacts, Subscription, SubStatus
<1> QED
  BY <1>1, <1>5, <1>6 DEF TypeInv

\* The stage step of both kinds of delivery.
LEMMA TypeStage ==
  ASSUME TypeInv, NEW w \in Workers, NEW d \in Delivery, Stage(w, d),
         UNCHANGED <<now, invoiceVars, delivered, holder, remoteVars, failures>>
  PROVE  TypeInv'
<1> DEFINE r == [wk[w] EXCEPT !.pc = "send", !.dlv = d]
<1>1. outbox' = outbox \cup {d}
  BY DEF Stage
<1>2. wk' = [wk EXCEPT ![w] = r]
  BY DEF Stage, TypeInv, WorkersOK
<1>3. WorkerFacts(wk[w], outbox)
  BY DEF TypeInv, WorkersOK
<1>4. WorkerFacts(r, outbox')
  <2>1. r \in Worker
    BY <1>3 DEF WorkerFacts, Worker, PCs
  <2> QED
    BY <1>1, <1>3, <2>1 DEF WorkerFacts, Worker
<1>5. WorkersOK'
  BY <1>1, <1>2, <1>4, WorkerMoves
<1>6. IsFiniteSet(outbox')
  BY <1>1, FS_AddElement DEF TypeInv
<1>7. dlvLease' \in [outbox' -> Nat]
  BY DEF Stage, TypeInv, StoreTypeOK
<1>8. sched' \in [Users -> BillingState]
  BY DEF Stage, TypeInv, StoreTypeOK, Delivery
<1>9. StoreTypeOK'
  BY <1>1, <1>7, <1>8 DEF TypeInv, StoreTypeOK, invoiceVars, remoteVars
<1> QED
  BY <1>5, <1>6, <1>9 DEF TypeInv

LEMMA NewCreditType ==
  ASSUME TypeInv, NEW i \in Invoices PROVE NewCredit(i) \in Delivery
<1>1. UserOf[i] \in Users /\ PlanOf[i] \in Plans /\ now \in Nat
  BY FunctionsAssumption DEF TypeInv, StoreTypeOK
<1>2. Duration[PlanOf[i]] \in Nat /\ Grace[PlanOf[i]] \in Nat
  BY <1>1, FunctionsAssumption
<1>3. sched[UserOf[i]] \in BillingState
  BY <1>1 DEF TypeInv, StoreTypeOK
<1> QED
  BY <1>1, <1>2, <1>3 DEF NewCredit, Later, Delivery, BillingState, SubStatus

LEMMA TypeStageInvoiceCredit ==
  ASSUME TypeInv, NEW w \in Workers, StageInvoiceCredit(w) PROVE TypeInv'
<1>1. WorkerFacts(wk[w], outbox)
  BY DEF TypeInv, WorkersOK
<1>2. CASE Stage(w, NewCredit(wk[w].inv))
  <2>1. wk[w].inv \in Invoices
    BY <1>1 DEF StageInvoiceCredit, WorkerFacts
  <2> QED
    BY <1>2, <2>1, NewCreditType, TypeStage DEF StageInvoiceCredit
<1>3. ASSUME NEW d \in outbox,
             wk' = [wk EXCEPT ![w] = [wk[w] EXCEPT !.pc = "send", !.dlv = d]],
             UNCHANGED <<sched, outbox, dlvLease>>
      PROVE  TypeInv'
  <2> DEFINE r == [wk[w] EXCEPT !.pc = "send", !.dlv = d]
  <2>1. wk' = [wk EXCEPT ![w] = r]
    BY <1>3 DEF TypeInv, WorkersOK
  <2>2. d \in Delivery
    BY DEF TypeInv, StoreTypeOK
  <2>3. WorkerFacts(r, outbox)
    <3>1. r \in Worker
      BY <1>1, <2>2 DEF WorkerFacts, Worker, PCs
    <3> QED
      BY <1>1, <3>1 DEF WorkerFacts, Worker
  <2>4. WorkersOK'
    BY <1>3, <2>1, <2>3, WorkerMoves
  <2>5. StoreTypeOK'
    BY <1>3 DEF StageInvoiceCredit, TypeInv, StoreTypeOK, invoiceVars, remoteVars
  <2> QED
    BY <1>3, <2>4, <2>5 DEF TypeInv
<1> QED
  BY <1>2, <1>3 DEF StageInvoiceCredit

LEMMA TypeSetBillingState == ASSUME TypeInv, NEW w \in Workers, SetBillingState(w) PROVE TypeInv'
<1> DEFINE r == [wk[w] EXCEPT !.pc = "await"]
<1>1. w \in Workers /\ outbox' = outbox
  BY DEF SetBillingState, Workers, outboxVars
<1>2. wk' = [wk EXCEPT ![w] = r]
  BY <1>1 DEF SetBillingState, TypeInv, WorkersOK, Goto
<1>3. WorkerFacts(wk[w], outbox)
  BY <1>1 DEF TypeInv, WorkersOK
<1>4. WorkerFacts(r, outbox)
  <2>1. r \in Worker
    BY <1>1, <1>3 DEF SetBillingState, WorkerFacts, Worker, PCs
  <2> QED
    BY <1>1, <1>3, <2>1 DEF SetBillingState, WorkerFacts, Worker
<1>5. WorkersOK'
  BY <1>1, <1>2, <1>4, WorkerMoves
<1>6. StoreTypeOK'
  BY <1>1, <1>3, FunctionsAssumption, EventsAssumption, BoundsAssumption, NoneAssumption
     DEF SetBillingState, TypeInv, StoreTypeOK, invoiceVars, outboxVars, remoteVars,
     WorkerFacts
<1> QED
  BY <1>1, <1>5, <1>6 DEF TypeInv

LEMMA ApplyType ==
  ASSUME NEW sub \in Subscription, NEW state \in BillingState
  PROVE  ApplyBillingState(sub, state) \in Subscription
  BY DEF ApplyBillingState, Subscription, BillingState

LEMMA TypeHandleBillingState ==
  ASSUME TypeInv, NEW m \in inflight, HandleBillingState(m) PROVE TypeInv'
<1> DEFINE r == [wk[m.from] EXCEPT !.pc = "replied"]
<1>1. m.from \in Workers /\ m.dlv \in outbox /\ m.dlv \in Delivery
  BY DEF TypeInv, StoreTypeOK
<1>2. outbox' = outbox
  BY DEF HandleBillingState, outboxVars
<1>3. WorkerFacts(wk[m.from], outbox)
  BY <1>1 DEF TypeInv, WorkersOK
<1>4. wk' = wk \/ (wk' = [wk EXCEPT ![m.from] = r] /\ WorkerFacts(r, outbox))
  BY <1>1, <1>3 DEF HandleBillingState, TypeInv, WorkersOK, WorkerFacts, Worker, PCs
<1>5. WorkersOK'
  BY <1>1, <1>2, <1>4, WorkerMoves, WorkersStay
<1>6. m.dlv.sub \in Users /\ m.dlv.state \in BillingState
  BY <1>1 DEF Delivery
<1>7. cp' \in [Users -> Subscription]
  BY <1>6, ApplyType DEF HandleBillingState, TypeInv, StoreTypeOK
<1>8. StoreTypeOK'
  BY <1>2, <1>7 DEF HandleBillingState, TypeInv, StoreTypeOK, invoiceVars, outboxVars
<1> QED
  BY <1>2, <1>5, <1>8 DEF TypeInv

LEMMA TypeCompleteBillingDelivery == ASSUME TypeInv, NEW w \in Workers, CompleteBillingDelivery(w) PROVE TypeInv'
<1> DEFINE r == [wk[w] EXCEPT !.pc = wk[w].ret, !.inv = None, !.sub = None, !.dlv = None]
<1>1. w \in Workers /\ outbox' = outbox
  BY DEF CompleteBillingDelivery, Workers, outboxVars
<1>2. wk' = [wk EXCEPT ![w] = r]
  BY <1>1 DEF CompleteBillingDelivery, TypeInv, WorkersOK, ItemDone
<1>3. WorkerFacts(wk[w], outbox)
  BY <1>1 DEF TypeInv, WorkersOK
<1>4. WorkerFacts(r, outbox)
  <2>1. r \in Worker
    BY <1>1, <1>3 DEF CompleteBillingDelivery, WorkerFacts, Worker, PCs
  <2> QED
    BY <1>1, <1>3, <2>1 DEF CompleteBillingDelivery, WorkerFacts, Worker
<1>5. WorkersOK'
  BY <1>1, <1>2, <1>4, WorkerMoves
<1>6. StoreTypeOK'
  BY <1>1, <1>3, FunctionsAssumption, EventsAssumption, BoundsAssumption, NoneAssumption
     DEF CompleteBillingDelivery, TypeInv, StoreTypeOK, invoiceVars, outboxVars, remoteVars,
     WorkerFacts, ItemDone, Unlocked, Delivery
<1> QED
  BY <1>1, <1>5, <1>6 DEF TypeInv

LEMMA BatchesAreSubsets ==
  ASSUME NEW S, NEW t, NEW k, NEW B \in Batches(S, t, k) PROVE B \subseteq S
  BY DEF Batches

LEMMA TypeLeaseBillingDeliveries ==
  ASSUME TypeInv, NEW p \in Pollers, LeaseBillingDeliveries(p) PROVE TypeInv'
<1>1. PICK B \in Batches(Undelivered, [d \in outbox |-> d.created], Batch) :
        /\ dlvLease' = [d \in outbox |-> IF d \in B THEN now + LeaseFor ELSE dlvLease[d]]
        /\ wk' = [wk EXCEPT ![p] = [Idle EXCEPT !.pc = "deliver", !.ret = "deliver",
                                                !.todo = B, !.n = Cardinality(B)]]
  BY DEF LeaseBillingDeliveries
<1> DEFINE r == [Idle EXCEPT !.pc = "deliver", !.ret = "deliver", !.todo = B,
                             !.n = Cardinality(B)]
<1>2. p \in Workers /\ outbox' = outbox
  BY DEF LeaseBillingDeliveries, Workers
<1>3. B \subseteq outbox /\ B \subseteq Delivery
  BY BatchesAreSubsets DEF Undelivered, TypeInv, StoreTypeOK
<1>4. Cardinality(B) \in Nat
  BY <1>3, FS_Subset, FS_CardinalityType DEF TypeInv
<1>5. WorkerFacts(r, outbox)
  <2>1. r \in Worker
    BY <1>3, <1>4, IdleIsWorker DEF Worker, PCs, Idle
  <2> QED
    BY <1>3, <2>1 DEF WorkerFacts, Worker, Idle
<1>6. WorkersOK'
  BY <1>1, <1>2, <1>5, WorkerMoves
<1>7. dlvLease' \in [outbox' -> Nat]
  BY <1>1, <1>2, BoundsAssumption DEF TypeInv, StoreTypeOK
<1>8. StoreTypeOK'
  BY <1>2, <1>7 DEF LeaseBillingDeliveries, TypeInv, StoreTypeOK, invoiceVars, remoteVars
<1> QED
  BY <1>2, <1>6, <1>8 DEF TypeInv

LEMMA TypeDeliverNext == ASSUME TypeInv, NEW p \in Pollers, DeliverNext(p) PROVE TypeInv'
<1>1. p \in Workers /\ outbox' = outbox
  BY DEF DeliverNext, Workers, outboxVars
<1>2. WorkerFacts(wk[p], outbox)
  BY <1>1 DEF TypeInv, WorkersOK
<1>3. PICK r : wk' = [wk EXCEPT ![p] = r] /\ WorkerFacts(r, outbox)
  <2>1. ASSUME NEW d \in wk[p].todo,
               wk' = [wk EXCEPT ![p] = [wk[p] EXCEPT !.pc = "send", !.dlv = d,
                                                     !.todo = wk[p].todo \ {d}]]
        PROVE  \E r : wk' = [wk EXCEPT ![p] = r] /\ WorkerFacts(r, outbox)
    <3> DEFINE q == [wk[p] EXCEPT !.pc = "send", !.dlv = d, !.todo = wk[p].todo \ {d}]
    <3>1. wk' = [wk EXCEPT ![p] = q]
      BY <1>1, <2>1 DEF TypeInv, WorkersOK
    <3>2. d \in outbox /\ d \in Delivery
      BY <1>2 DEF DeliverNext, WorkerFacts, TypeInv, StoreTypeOK
    <3>3. WorkerFacts(q, outbox)
      BY <1>2, <3>2, ZenonT(40) DEF DeliverNext, WorkerFacts, Worker, PCs
    <3> QED
      BY <3>1, <3>3
  <2>2. ASSUME Goto(p, IF wk[p].n < Batch THEN "leaseStuck" ELSE "expire")
        PROVE  \E r : wk' = [wk EXCEPT ![p] = r] /\ WorkerFacts(r, outbox)
    <3> DEFINE q == [wk[p] EXCEPT !.pc = IF wk[p].n < Batch THEN "leaseStuck" ELSE "expire"]
    <3>1. wk' = [wk EXCEPT ![p] = q]
      BY <1>1, <2>2 DEF Goto, TypeInv, WorkersOK
    <3>2. WorkerFacts(q, outbox)
      BY <1>2, ZenonT(40) DEF DeliverNext, WorkerFacts, Worker, PCs
    <3> QED
      BY <3>1, <3>2
  <2> QED
    BY <2>1, <2>2 DEF DeliverNext
<1>4. WorkersOK'
  BY <1>1, <1>3, WorkerMoves
<1>5. StoreTypeOK'
  BY DEF DeliverNext, TypeInv, StoreTypeOK, invoiceVars, outboxVars, remoteVars
<1> QED
  BY <1>1, <1>4, <1>5 DEF TypeInv

LEMMA TypeLeaseStuckSettlements ==
  ASSUME TypeInv, NEW p \in Pollers, LeaseStuckSettlements(p) PROVE TypeInv'
<1>1. PICK B \in Batches(Stuck, claimedAt, Batch - wk[p].n) :
        /\ stuckLease' = [i \in Invoices |-> IF i \in B THEN now + LeaseFor ELSE stuckLease[i]]
        /\ wk' = [wk EXCEPT ![p] = [Idle EXCEPT !.pc = "finish", !.ret = "finish", !.todo = B]]
  BY DEF LeaseStuckSettlements
<1> DEFINE r == [Idle EXCEPT !.pc = "finish", !.ret = "finish", !.todo = B]
<1>2. p \in Workers /\ outbox' = outbox
  BY DEF LeaseStuckSettlements, Workers, outboxVars
<1>3. B \subseteq Invoices
  BY BatchesAreSubsets DEF Stuck, TypeInv, StoreTypeOK
<1>4. WorkerFacts(r, outbox)
  <2>1. r \in Worker
    BY <1>3, IdleIsWorker DEF Worker, PCs, Idle
  <2> QED
    BY <1>3, <2>1 DEF WorkerFacts, Worker, Idle
<1>5. WorkersOK'
  BY <1>1, <1>2, <1>4, WorkerMoves
<1>6. StoreTypeOK'
  BY <1>1, <1>2, BoundsAssumption DEF LeaseStuckSettlements, TypeInv, StoreTypeOK,
     outboxVars, remoteVars
<1> QED
  BY <1>2, <1>5, <1>6 DEF TypeInv

LEMMA TypeFinishSettlement ==
  ASSUME TypeInv, NEW p \in Pollers, FinishSettlement(p) PROVE TypeInv'
<1>1. p \in Workers /\ outbox' = outbox
  BY DEF FinishSettlement, Workers, outboxVars
<1>2. WorkerFacts(wk[p], outbox) /\ wk[p].todo \subseteq Invoices
  BY <1>1 DEF FinishSettlement, TypeInv, WorkersOK, WorkerFacts
<1>3. PICK r : wk' = [wk EXCEPT ![p] = r] /\ WorkerFacts(r, outbox)
  <2>1. ASSUME NEW i \in wk[p].todo, wk' = [wk EXCEPT ![p] = [wk[p] EXCEPT !.todo = wk[p].todo \ {i}]]
        PROVE  \E r : wk' = [wk EXCEPT ![p] = r] /\ WorkerFacts(r, outbox)
    <3> DEFINE q == [wk[p] EXCEPT !.todo = wk[p].todo \ {i}]
    <3>1. wk' = [wk EXCEPT ![p] = q]
      BY <1>1, <2>1 DEF TypeInv, WorkersOK
    <3>2. WorkerFacts(q, outbox)
      BY <1>2, ZenonT(40) DEF FinishSettlement, WorkerFacts, Worker, PCs
    <3> QED
      BY <3>1, <3>2
  <2>2. ASSUME NEW i \in wk[p].todo,
               wk' = [wk EXCEPT ![p] = [wk[p] EXCEPT !.pc = "lock", !.inv = i,
                              !.sub = UserOf[i], !.todo = wk[p].todo \ {i}]]
        PROVE  \E r : wk' = [wk EXCEPT ![p] = r] /\ WorkerFacts(r, outbox)
    <3> DEFINE q == [wk[p] EXCEPT !.pc = "lock", !.inv = i, !.sub = UserOf[i],
                                  !.todo = wk[p].todo \ {i}]
    <3>1. wk' = [wk EXCEPT ![p] = q]
      BY <1>1, <2>2 DEF TypeInv, WorkersOK
    <3>2. i \in Invoices /\ UserOf[i] \in Users
      BY <1>2, FunctionsAssumption
    <3>3. WorkerFacts(q, outbox)
      BY <1>2, <3>2 DEF FinishSettlement, WorkerFacts, Worker, PCs
    <3> QED
      BY <3>1, <3>3
  <2>3. ASSUME Goto(p, "expire")
        PROVE  \E r : wk' = [wk EXCEPT ![p] = r] /\ WorkerFacts(r, outbox)
    <3> DEFINE q == [wk[p] EXCEPT !.pc = "expire"]
    <3>1. wk' = [wk EXCEPT ![p] = q]
      BY <1>1, <2>3 DEF Goto, TypeInv, WorkersOK
    <3>2. WorkerFacts(q, outbox)
      BY <1>2, ZenonT(40) DEF FinishSettlement, WorkerFacts, Worker, PCs
    <3> QED
      BY <3>1, <3>2
  <2> QED
    BY <2>1, <2>2, <2>3 DEF FinishSettlement
<1>4. WorkersOK'
  BY <1>1, <1>3, WorkerMoves
<1>5. StoreTypeOK'
  BY DEF FinishSettlement, TypeInv, StoreTypeOK, invoiceVars, outboxVars, remoteVars
<1> QED
  BY <1>1, <1>4, <1>5 DEF TypeInv

LEMMA TypeExpireOverdue == ASSUME TypeInv, NEW p \in Pollers, ExpireOverdue(p) PROVE TypeInv'
<1>1. p \in Workers /\ outbox' = outbox
  BY DEF ExpireOverdue, Workers, outboxVars
<1>2. wk' = [wk EXCEPT ![p] = Idle]
  BY DEF ExpireOverdue
<1>3. WorkerFacts(wk[p], outbox)
  BY <1>1 DEF TypeInv, WorkersOK
<1>4. WorkersOK'
  BY <1>1, <1>2, IdleFacts, WorkerMoves
<1>5. StoreTypeOK'
  BY <1>1, <1>3, FunctionsAssumption, EventsAssumption, BoundsAssumption, NoneAssumption
     DEF ExpireOverdue, TypeInv, StoreTypeOK, invoiceVars, outboxVars, remoteVars
<1> QED
  BY <1>1, <1>4, <1>5 DEF TypeInv

LEMMA TypeDueSchedules == ASSUME TypeInv, NEW s \in Sweepers, DueSchedules(s) PROVE TypeInv'
<1> DEFINE due == {u \in Users : /\ sched[u].rev > 0
                                /\ sched[u].status # "expired"
                                /\ sched[u].exp <= now}
           r == [Idle EXCEPT !.pc = "sweep", !.ret = "sweep", !.todo = due, !.at = now]
<1>1. s \in Workers /\ outbox' = outbox
  BY DEF DueSchedules, Workers, outboxVars
<1>2. wk' = [wk EXCEPT ![s] = r]
  BY DEF DueSchedules
<1>3. now \in 0..Horizon /\ due \subseteq Users
  BY DEF TypeInv, StoreTypeOK
<1> HIDE DEF due
<1>4. WorkerFacts(r, outbox)
  BY <1>3, BoundsAssumption DEF WorkerFacts, Worker, PCs, Idle, SubStatus
<1>5. WorkersOK'
  BY <1>1, <1>2, <1>4, WorkerMoves
<1>6. StoreTypeOK'
  BY DEF DueSchedules, TypeInv, StoreTypeOK, invoiceVars, outboxVars, remoteVars
<1> QED
  BY <1>1, <1>5, <1>6 DEF TypeInv

LEMMA TypeSweepNext == ASSUME TypeInv, NEW s \in Sweepers, SweepNext(s) PROVE TypeInv'
<1>1. s \in Workers /\ outbox' = outbox
  BY DEF SweepNext, Workers, outboxVars
<1>2. WorkerFacts(wk[s], outbox)
  BY <1>1 DEF TypeInv, WorkersOK
<1>3. ASSUME NEW u \in wk[s].todo,
             wk' = [wk EXCEPT ![s] = [wk[s] EXCEPT !.pc = "sweepLock", !.sub = u,
                                                   !.todo = wk[s].todo \ {u}]]
      PROVE  WorkersOK'
  <2> DEFINE q == [wk[s] EXCEPT !.pc = "sweepLock", !.sub = u, !.todo = wk[s].todo \ {u}]
  <2>1. wk' = [wk EXCEPT ![s] = q]
    BY <1>1, <1>3 DEF TypeInv, WorkersOK
  <2>2. u \in Users
    BY <1>2 DEF SweepNext, WorkerFacts
  <2>3. WorkerFacts(q, outbox)
    BY <1>2, <2>2, ZenonT(40) DEF SweepNext, WorkerFacts, Worker, PCs
  <2> QED
    BY <1>1, <2>1, <2>3, WorkerMoves
<1>4. ASSUME wk' = [wk EXCEPT ![s] = Idle] PROVE WorkersOK'
  BY <1>1, <1>4, IdleFacts, WorkerMoves
<1>5. StoreTypeOK'
  BY DEF SweepNext, TypeInv, StoreTypeOK, invoiceVars, outboxVars, remoteVars
<1> QED
  BY <1>1, <1>3, <1>4, <1>5 DEF SweepNext, TypeInv

\* ItemDone, shared by several steps.
LEMMA TypeItemDone ==
  ASSUME TypeInv, NEW w \in Workers, ItemDone(w), outbox' = outbox
  PROVE  WorkersOK' /\ holder' \in [Users -> Workers \cup {None}]
<1> DEFINE r == [wk[w] EXCEPT !.pc = wk[w].ret, !.inv = None, !.sub = None, !.dlv = None]
<1>1. wk' = [wk EXCEPT ![w] = r]
  BY DEF ItemDone
<1>2. WorkerFacts(wk[w], outbox)
  BY DEF TypeInv, WorkersOK
<1>3. WorkerFacts(r, outbox)
  <2>1. r \in Worker
    BY <1>2 DEF WorkerFacts, Worker
  <2> QED
    BY <1>2, <2>1 DEF WorkerFacts, Worker
<1>4. WorkersOK'
  BY <1>1, <1>3, WorkerMoves
<1>5. holder' \in [Users -> Workers \cup {None}]
  BY DEF ItemDone, Unlocked, TypeInv, StoreTypeOK
<1> QED
  BY <1>4, <1>5

LEMMA TypeSweepRead == ASSUME TypeInv, NEW s \in Sweepers, SweepRead(s) PROVE TypeInv'
<1>1. s \in Workers /\ outbox' = outbox
  BY DEF SweepRead, Workers, outboxVars
<1>2. WorkerFacts(wk[s], outbox) /\ sched[wk[s].sub].rev \in Nat
  BY <1>1 DEF SweepRead, TypeInv, WorkersOK, WorkerFacts, StoreTypeOK, BillingState
<1>3. CASE ItemDone(s)
  <2>1. StoreTypeOK'
    BY <1>1, <1>3, TypeItemDone DEF SweepRead, TypeInv, StoreTypeOK, invoiceVars,
       outboxVars, remoteVars
  <2> QED
    BY <1>1, <1>3, <2>1, TypeItemDone DEF TypeInv
<1> DEFINE next == transition(sched[wk[s].sub], wk[s].at)
<1>4. ASSUME next # "", UNCHANGED holder,
             wk' = [wk EXCEPT ![s] = [wk[s] EXCEPT !.pc = "sweepStage",
                                        !.n = sched[wk[s].sub].rev, !.next = next]]
      PROVE  TypeInv'
  <2> DEFINE r == [wk[s] EXCEPT !.pc = "sweepStage", !.n = sched[wk[s].sub].rev, !.next = next]
  <2>0. next \in {"past_due", "expired"} /\ next \in SubStatus
    BY <1>4 DEF transition, SubStatus
  <2>1. wk' = [wk EXCEPT ![s] = r]
    BY <1>4
  <2> HIDE DEF next
  <2>2. WorkerFacts(r, outbox)
    <3>1. r \in Worker
      BY <1>2, <2>0 DEF WorkerFacts, Worker, PCs
    <3> QED
      BY <1>2, <2>0, <3>1 DEF SweepRead, WorkerFacts, Worker
  <2>3. WorkersOK'
    BY <1>1, <2>1, <2>2, WorkerMoves
  <2>4. StoreTypeOK'
    BY <1>4 DEF SweepRead, TypeInv, StoreTypeOK, invoiceVars, outboxVars, remoteVars
  <2> QED
    BY <1>1, <2>3, <2>4 DEF TypeInv
<1> QED
  BY <1>3, <1>4 DEF SweepRead

LEMMA NewTransitionType ==
  ASSUME TypeInv, NEW u \in Users, NEW next \in SubStatus, NEW t \in Nat
  PROVE  NewTransition(u, next, t) \in Delivery
<1>1. sched[u] \in BillingState /\ sched[u].rev + 1 \in Nat
  BY DEF TypeInv, StoreTypeOK, BillingState
<1>2. [sched[u] EXCEPT !.rev = sched[u].rev + 1, !.status = next] \in BillingState
  BY <1>1 DEF BillingState
<1> QED
  BY <1>2 DEF NewTransition, Delivery

LEMMA TypeStageScheduleTransition ==
  ASSUME TypeInv, NEW s \in Sweepers, StageScheduleTransition(s) PROVE TypeInv'
<1>1. s \in Workers
  BY DEF Workers
<1>2. WorkerFacts(wk[s], outbox)
  BY <1>1 DEF TypeInv, WorkersOK
<1>3. CASE ItemDone(s) /\ UNCHANGED <<sched, outbox, dlvLease>>
  <2>1. StoreTypeOK'
    BY <1>1, <1>3, TypeItemDone DEF StageScheduleTransition, TypeInv, StoreTypeOK,
       invoiceVars, remoteVars
  <2> QED
    BY <1>1, <1>3, <2>1, TypeItemDone DEF TypeInv
<1>4. CASE Stage(s, NewTransition(wk[s].sub, wk[s].next, wk[s].at)) /\ UNCHANGED holder
  <2>1. wk[s].sub \in Users /\ wk[s].next \in SubStatus /\ wk[s].at \in Nat
    BY <1>2 DEF StageScheduleTransition, WorkerFacts, Worker
  <2>2. NewTransition(wk[s].sub, wk[s].next, wk[s].at) \in Delivery
    BY <2>1, NewTransitionType
  <2> QED
    BY <1>1, <1>4, <2>2, TypeStage DEF StageScheduleTransition
<1> QED
  BY <1>3, <1>4 DEF StageScheduleTransition

LEMMA TypeCancelSubscription == ASSUME TypeInv, NEW u \in Users, CancelSubscription(u) PROVE TypeInv'
<1>1. outbox' = outbox /\ wk' = wk
  BY DEF CancelSubscription, outboxVars
<1>2. StoreTypeOK'
  BY FunctionsAssumption, EventsAssumption, BoundsAssumption, NoneAssumption DEF
     CancelSubscription, TypeInv, StoreTypeOK, invoiceVars, outboxVars, remoteVars,
     Subscription, SubStatus
<1> QED
  BY <1>1, <1>2, WorkersStay DEF TypeInv

LEMMA TypeFail == ASSUME TypeInv, NEW w \in Workers, Fail(w) PROVE TypeInv'
<1>1. outbox' = outbox /\ inflight' \subseteq inflight
  BY DEF Fail, RequestMayBeLost, outboxVars
<1>2. ItemDone(w)
  BY DEF Fail
<1>3. WorkersOK' /\ holder' \in [Users -> Workers \cup {None}]
  BY <1>1, <1>2, TypeItemDone
<1>4. StoreTypeOK'
  BY <1>1, <1>3 DEF Fail, Failing, TypeInv, StoreTypeOK, invoiceVars, outboxVars
<1> QED
  BY <1>1, <1>3, <1>4 DEF TypeInv

LEMMA TypeLeaseQueryFails == ASSUME TypeInv, NEW p \in Pollers, LeaseQueryFails(p) PROVE TypeInv'
<1> DEFINE r == [Idle EXCEPT !.pc = "expire"]
<1>1. p \in Workers /\ outbox' = outbox
  BY DEF LeaseQueryFails, Workers, outboxVars
<1>2. wk' = [wk EXCEPT ![p] = r]
  BY <1>1 DEF LeaseQueryFails, TypeInv, WorkersOK
<1>3. WorkerFacts(wk[p], outbox)
  BY <1>1 DEF TypeInv, WorkersOK
<1>4. WorkerFacts(r, outbox)
  <2>1. r \in Worker
    BY <1>1, <1>3, IdleIsWorker DEF LeaseQueryFails, WorkerFacts, Worker, PCs, Idle, SubStatus
  <2> QED
    BY <1>1, <1>3, <2>1, IdleIsWorker DEF LeaseQueryFails, WorkerFacts, Worker, Idle
<1>5. WorkersOK'
  BY <1>1, <1>2, <1>4, WorkerMoves
<1>6. StoreTypeOK'
  BY <1>1, <1>3, FunctionsAssumption, EventsAssumption, BoundsAssumption, NoneAssumption
     DEF LeaseQueryFails, TypeInv, StoreTypeOK, invoiceVars, outboxVars, remoteVars, Failing
<1> QED
  BY <1>1, <1>5, <1>6 DEF TypeInv

LEMMA TypeStatusWriteFails == ASSUME TypeInv, NEW h \in Handlers, StatusWriteFails(h) PROVE TypeInv'
<1> DEFINE r == [wk[h] EXCEPT !.pc = "record"]
<1>1. h \in Workers /\ outbox' = outbox
  BY DEF StatusWriteFails, Workers, outboxVars
<1>2. wk' = [wk EXCEPT ![h] = r]
  BY <1>1 DEF StatusWriteFails, TypeInv, WorkersOK, Goto
<1>3. WorkerFacts(wk[h], outbox)
  BY <1>1 DEF TypeInv, WorkersOK
<1>4. WorkerFacts(r, outbox)
  <2>1. r \in Worker
    BY <1>1, <1>3 DEF StatusWriteFails, WorkerFacts, Worker, PCs
  <2> QED
    BY <1>1, <1>3, <2>1 DEF StatusWriteFails, WorkerFacts, Worker
<1>5. WorkersOK'
  BY <1>1, <1>2, <1>4, WorkerMoves
<1>6. StoreTypeOK'
  BY <1>1, <1>3, FunctionsAssumption, EventsAssumption, BoundsAssumption, NoneAssumption
     DEF StatusWriteFails, TypeInv, StoreTypeOK, invoiceVars, outboxVars, remoteVars,
     Failing
<1> QED
  BY <1>1, <1>5, <1>6 DEF TypeInv

LEMMA TypeCrash == ASSUME TypeInv, NEW w \in Workers, Crash(w) PROVE TypeInv'
<1>1. outbox' = outbox /\ inflight' \subseteq inflight
  BY DEF Crash, RequestMayBeLost, outboxVars
<1>2. wk' = [wk EXCEPT ![w] = Idle]
  BY DEF Crash
<1>3. WorkersOK'
  BY <1>1, <1>2, IdleFacts, WorkerMoves
<1>4. StoreTypeOK'
  BY <1>1 DEF Crash, Failing, Unlocked, TypeInv, StoreTypeOK, invoiceVars, outboxVars
<1> QED
  BY <1>1, <1>3, <1>4 DEF TypeInv

LEMMA TypeStep == TypeInv /\ [Next]_vars => TypeInv'
<1> SUFFICES ASSUME TypeInv, [Next]_vars PROVE TypeInv'
  OBVIOUS
<1>1. CASE Next
  <2>1. ASSUME NEW w \in Workers, CreditStep(w) PROVE TypeInv'
    BY <2>1, TypeAcquireUserLock, TypeEnsureSubscription, TypeStageInvoiceCredit,
       TypeSetBillingState, TypeCompleteBillingDelivery DEF CreditStep
  <2>2. ASSUME NEW h \in Handlers, HandlerStep(h) PROVE TypeInv'
    BY <2>1, <2>2, TypeSetInvoiceStatus, TypeRefuseEvent, TypeClaimSettlement,
       TypeRecordEvent DEF HandlerStep, Workers
  <2>3. ASSUME NEW p \in Pollers, PollerStep(p) PROVE TypeInv'
    BY <2>1, <2>3, TypeLeaseBillingDeliveries, TypeDeliverNext, TypeLeaseStuckSettlements,
       TypeFinishSettlement, TypeExpireOverdue DEF PollerStep, Workers
  <2>4. ASSUME NEW s \in Sweepers, SweeperStep(s) PROVE TypeInv'
    BY <2>1, <2>4, TypeDueSchedules, TypeSweepNext, TypeSweepRead,
       TypeStageScheduleTransition DEF SweeperStep, Workers
  <2> QED
    BY <1>1, <2>2, <2>3, <2>4, TypeTick, TypeProcess, TypeHandleBillingState,
       TypeCancelSubscription, TypeFail, TypeLeaseQueryFails, TypeStatusWriteFails,
       TypeCrash DEF Next, Workers
<1>2. CASE UNCHANGED vars
  BY <1>2, WorkersStay DEF vars, TypeInv, StoreTypeOK
<1> QED
  BY <1>1, <1>2

\* Type correctness: in every behaviour each table and each worker has its type,
\* and what is sent to the control-plane was staged in the outbox first
\* (CreditInvoice stages before it delivers).
THEOREM TypeCorrect == Spec => []TypeOK
<1>1. Spec => []TypeInv
  BY TypeInit, TypeStep, PTL DEF Spec
<1> QED
  BY <1>1, TypeInvImpliesTypeOK, PTL

-----------------------------------------------------------------------------
\* The invariant of the ledger, for the instance Ledger of Settlement: the outbox
\* is the ledger, the schedules its heads and the control-plane's copy what is
\* published.

LEMMA LedgerInit == ASSUME Ledger!ConstantsOK, Ledger!Init PROVE Ledger!LedgerInv
<1>1. outbox = {} /\ \A u \in Users : sched[u] = Ledger!Unpaid /\ cp[u].hash = Ledger!Unpaid
  BY DEF Ledger!Init
<1>2. Ledger!StateOK(Ledger!Unpaid) /\ Ledger!Unpaid.rev = 0
  BY DEF Ledger!StateOK, Ledger!State, Ledger!Unpaid
<1>3. Ledger!HeadsOK
  BY <1>1, <1>2 DEF Ledger!Init, Ledger!HeadsOK
<1>4. Ledger!PublishedFromLedger
  BY <1>1 DEF Ledger!Init, Ledger!PublishedFromLedger
<1>5. Ledger!RevisionsDense
  BY <1>1, <1>2 DEF Ledger!RevisionsDense
<1> QED
  BY <1>1, <1>3, <1>4, <1>5 DEF Ledger!LedgerInv, Ledger!EntriesOK,
     Ledger!RevisionsBounded, Ledger!RevisionsUnique,
     Ledger!HeadIsNewest, Ledger!OneEntryPerInvoice, Ledger!TermsGrow, Ledger!HeadTermIsLongest,
     Ledger!CreditsAddOnePeriod, Ledger!LapsesAreDue

\* Everything but the two facts about what an entry says: appending an entry of
\* the next revision, whose term is not before the sched's, keeps the invariant.
LEMMA LedgerAppend ==
  ASSUME Ledger!LedgerInv, NEW d, Ledger!Append(d),
         d.sub \in Users, d.inv \in Invoices \cup {None}, d.created \in Nat,
         Ledger!StateOK(d.state), d.state.rev = sched[d.sub].rev + 1,
         d.state.exp >= sched[d.sub].exp,
         d.inv = None \/ \A c \in outbox : c.inv # d.inv,
         d.inv # None => /\ d.sub = UserOf[d.inv]
                         /\ d.state.exp = Ledger!Since(d.created, sched[d.sub].exp)
                                            + Duration[PlanOf[d.inv]],
         d.state.status = "past_due" => d.created >= d.state.exp,
         d.state.status = "expired" => d.created >= d.state.grace
  PROVE  Ledger!LedgerInv'
<1> DEFINE u == d.sub
<1>1. /\ outbox' = outbox \cup {d}
      /\ \A x \in Users : cp'[x].hash = cp[x].hash
      /\ sched'[u] = d.state
      /\ sched' = [x \in Users |-> sched'[x]]
      /\ \A x \in Users : x # u => sched'[x] = sched[x]
  BY DEF Ledger!Append, Ledger!LedgerInv, Ledger!HeadsOK
<1>2. sched[u].rev \in Nat /\ sched[u].exp \in Nat /\ d.state.rev \in Nat /\ d.state.exp \in Nat
  BY DEF Ledger!LedgerInv, Ledger!HeadsOK, Ledger!StateOK, Ledger!State
<1>3. \A c \in outbox : /\ c.sub \in Users /\ c.state.rev \in Nat /\ c.state.exp \in Nat
                        /\ c.state.rev >= 1 /\ c.state.rev <= sched[c.sub].rev
                        /\ sched[c.sub].rev \in Nat /\ sched[c.sub].exp \in Nat
  BY DEF Ledger!LedgerInv, Ledger!EntriesOK, Ledger!RevisionsBounded, Ledger!StateOK,
     Ledger!State, Ledger!HeadsOK
<1>4. Ledger!EntriesOK'
  BY <1>1 DEF Ledger!LedgerInv, Ledger!EntriesOK
<1>5. Ledger!HeadsOK'
  BY <1>1, <1>2 DEF Ledger!LedgerInv, Ledger!HeadsOK
<1>6. Ledger!RevisionsBounded'
  BY <1>1, <1>2, <1>3 DEF Ledger!LedgerInv, Ledger!RevisionsBounded
<1>7. Ledger!RevisionsUnique'
  BY <1>1, <1>2, <1>3 DEF Ledger!LedgerInv, Ledger!RevisionsUnique
<1>8. Ledger!RevisionsDense'
  <2> SUFFICES ASSUME NEW x \in Users, NEW r \in Nat, r >= 1, r <= sched'[x].rev
               PROVE \E c \in outbox' : c.sub = x /\ c.state.rev = r
    BY DEF Ledger!RevisionsDense
  <2>1. CASE x = u /\ r = d.state.rev
    BY <2>1, <1>1
  <2>2. CASE x = u /\ r # d.state.rev
    <3>1. u \in Users /\ r <= sched[u].rev
      BY <2>2, <1>1, <1>2
    <3>2. \E c \in outbox : c.sub = u /\ c.state.rev = r
      BY <3>1 DEF Ledger!LedgerInv, Ledger!RevisionsDense
    <3> QED
      BY <2>2, <3>2, <1>1
  <2>3. CASE x # u
    BY <2>3, <1>1 DEF Ledger!LedgerInv, Ledger!RevisionsDense
  <2> QED
    BY <2>1, <2>2, <2>3
<1>9. Ledger!HeadIsNewest'
  BY <1>1, <1>2, <1>3 DEF Ledger!LedgerInv, Ledger!HeadIsNewest
<1>10. Ledger!OneEntryPerInvoice'
  BY <1>1 DEF Ledger!LedgerInv, Ledger!OneEntryPerInvoice
<1>11. Ledger!TermsGrow'
  BY <1>1, <1>2, <1>3 DEF Ledger!LedgerInv, Ledger!TermsGrow, Ledger!HeadTermIsLongest
<1>12. Ledger!HeadTermIsLongest'
  BY <1>1, <1>2, <1>3 DEF Ledger!LedgerInv, Ledger!HeadTermIsLongest
<1>13. Ledger!CreditsAddOnePeriod'
  <2> SUFFICES ASSUME NEW c \in outbox', c.inv # None
               PROVE /\ c.sub = UserOf[c.inv]
                     /\ c.state.rev = 1 =>
                          c.state.exp = Ledger!Since(c.created, 0) + Duration[PlanOf[c.inv]]
                     /\ \A p \in outbox' : p.sub = c.sub /\ p.state.rev + 1 = c.state.rev =>
                          c.state.exp = Ledger!Since(c.created, p.state.exp) + Duration[PlanOf[c.inv]]
    BY DEF Ledger!CreditsAddOnePeriod
  <2>1. CASE c = d
    <3>1. d.state.rev = 1 => sched[u].exp = 0
      BY <1>2 DEF Ledger!LedgerInv, Ledger!HeadsOK, Ledger!Unpaid
    <3>2. \A p \in outbox' : p.sub = u /\ p.state.rev + 1 = d.state.rev =>
             p.state.exp = sched[u].exp
      BY <1>1, <1>2, <1>3 DEF Ledger!LedgerInv, Ledger!HeadIsNewest
    <3> QED
      BY <2>1, <3>1, <3>2
  <2>2. CASE c # d
    <3>1. c \in outbox
      BY <2>2, <1>1
    <3>2. \A p \in outbox' : p.sub = c.sub /\ p.state.rev + 1 = c.state.rev => p \in outbox
      BY <3>1, <1>1, <1>2, <1>3
    <3> QED
      BY <3>1, <3>2 DEF Ledger!LedgerInv, Ledger!CreditsAddOnePeriod
  <2> QED
    BY <2>1, <2>2
<1>14. Ledger!LapsesAreDue'
  BY <1>1 DEF Ledger!LedgerInv, Ledger!LapsesAreDue
<1>15. Ledger!PublishedFromLedger'
  BY <1>1 DEF Ledger!LedgerInv, Ledger!PublishedFromLedger
<1> QED
  BY <1>4, <1>5, <1>6, <1>7, <1>8, <1>9, <1>10, <1>11, <1>12, <1>13, <1>14, <1>15 DEF
     Ledger!LedgerInv

LEMMA LedgerCredit ==
  ASSUME Ledger!ConstantsOK, Ledger!LedgerInv, NEW i \in Invoices, NEW t \in 0..Horizon,
         Ledger!Credit(i, t)
  PROVE  Ledger!LedgerInv'
<1> DEFINE u   == UserOf[i]
           end == Ledger!Since(t, sched[u].exp) + Duration[PlanOf[i]]
           s   == [rev |-> sched[u].rev + 1, plan |-> PlanOf[i], status |-> "active",
                   exp |-> end, grace |-> end + Grace[PlanOf[i]]]
           d   == [sub |-> u, inv |-> i, created |-> t, state |-> s]
<1>1. Ledger!Append(d) /\ \A c \in outbox : c.inv # i
  BY DEF Ledger!Credit, Ledger!Since
<1>2. /\ u \in Users /\ t \in Nat /\ i # None
      /\ Duration[PlanOf[i]] \in Nat /\ Grace[PlanOf[i]] \in Nat
  BY DEF Ledger!ConstantsOK
<1>3. sched[u].rev \in Nat /\ sched[u].exp \in Nat
  BY <1>2 DEF Ledger!LedgerInv, Ledger!HeadsOK, Ledger!StateOK, Ledger!State
<1>4. end \in Nat /\ end >= sched[u].exp /\ Ledger!StateOK(s)
  BY <1>2, <1>3 DEF Ledger!StateOK, Ledger!State, Ledger!Since
<1>5. /\ d.sub = u /\ d.inv = i /\ d.created = t /\ d.state = s
      /\ s.rev = sched[u].rev + 1 /\ s.exp = end /\ s.status = "active"
  OBVIOUS
<1> HIDE DEF d, s, end, u
<1> QED
  BY <1>1, <1>2, <1>4, <1>5, LedgerAppend DEF end, u

LEMMA LedgerLapse ==
  ASSUME Ledger!ConstantsOK, Ledger!LedgerInv, NEW u \in Users, NEW t \in 0..Horizon,
         Ledger!Lapse(u, t)
  PROVE  Ledger!LedgerInv'
<1> DEFINE next == IF t >= sched[u].grace THEN "expired" ELSE "past_due"
           s == [sched[u] EXCEPT !.rev = sched[u].rev + 1, !.status = next]
           d == [sub |-> u, inv |-> None, created |-> t, state |-> s]
<1>1. Ledger!Append(d) /\ sched[u].exp <= t
  BY DEF Ledger!Lapse
<1>2. t \in Nat
  BY DEF Ledger!ConstantsOK
<1>3. Ledger!StateOK(sched[u])
  BY DEF Ledger!LedgerInv, Ledger!HeadsOK
<1>4. /\ s.rev = sched[u].rev + 1 /\ s.exp = sched[u].exp /\ s.grace = sched[u].grace
      /\ s.status = next
  BY <1>3 DEF Ledger!StateOK, Ledger!State
<1>5. Ledger!StateOK(s)
  <2>1. s \in Ledger!State
    <3>1. sched[u].rev + 1 \in Nat /\ next \in {"past_due", "expired"} /\ sched[u] \in Ledger!State
      BY <1>3 DEF Ledger!StateOK, Ledger!State
    <3> HIDE DEF next
    <3> QED
      BY <3>1 DEF Ledger!State
  <2> QED
    BY <1>3, <1>4, <2>1 DEF Ledger!StateOK, Ledger!State
<1>6. /\ s.status = "past_due" => t >= s.exp
      /\ s.status = "expired" => t >= s.grace
  BY <1>1, <1>2, <1>3, <1>4 DEF Ledger!StateOK, Ledger!State
<1>7. s.exp >= sched[u].exp
  BY <1>3, <1>4 DEF Ledger!StateOK, Ledger!State
<1>8. d.sub = u /\ d.inv = None /\ d.created = t /\ d.state = s
  OBVIOUS
<1> HIDE DEF d, s, next
<1> QED
  BY <1>1, <1>2, <1>4, <1>5, <1>6, <1>7, <1>8, LedgerAppend

LEMMA LedgerPublish ==
  ASSUME Ledger!LedgerInv, NEW d \in outbox, Ledger!Publish(d) PROVE Ledger!LedgerInv'
<1>1. outbox' = outbox /\ sched' = sched
  BY DEF Ledger!Publish
<1>2. Ledger!PublishedFromLedger'
  BY <1>1 DEF Ledger!Publish, Ledger!LedgerInv, Ledger!PublishedFromLedger, Ledger!EntriesOK
<1> QED
  BY <1>1, <1>2 DEF Ledger!LedgerInv, Ledger!EntriesOK, Ledger!HeadsOK,
     Ledger!RevisionsBounded, Ledger!RevisionsUnique,
     Ledger!RevisionsDense, Ledger!HeadIsNewest, Ledger!OneEntryPerInvoice,
     Ledger!TermsGrow, Ledger!HeadTermIsLongest,
     Ledger!CreditsAddOnePeriod, Ledger!LapsesAreDue

LEMMA LedgerStep ==
  ASSUME Ledger!ConstantsOK, Ledger!LedgerInv, [Ledger!Next]_Ledger!vars
  PROVE  Ledger!LedgerInv'
<1>1. CASE UNCHANGED Ledger!vars
  BY <1>1 DEF Ledger!vars, Ledger!LedgerInv, Ledger!EntriesOK, Ledger!HeadsOK,
     Ledger!RevisionsBounded, Ledger!RevisionsUnique,
     Ledger!RevisionsDense, Ledger!HeadIsNewest, Ledger!OneEntryPerInvoice,
     Ledger!TermsGrow, Ledger!HeadTermIsLongest,
     Ledger!CreditsAddOnePeriod, Ledger!LapsesAreDue, Ledger!PublishedFromLedger
<1> QED
  BY <1>1, LedgerCredit, LedgerLapse, LedgerPublish DEF Ledger!Next

\* The published copy only moves forward, in revision and in term.
LEMMA PublishedMovesForward ==
  ASSUME Ledger!LedgerInv, [Ledger!Next]_Ledger!vars, NEW u \in Users
  PROVE  cp'[u].hash.rev >= cp[u].hash.rev /\ cp'[u].hash.exp >= cp[u].hash.exp
<1>0. cp[u].hash.rev \in Nat /\ cp[u].hash.exp \in Nat
  <2>1. \A d \in outbox : d.state.rev \in Nat /\ d.state.exp \in Nat
    BY DEF Ledger!LedgerInv, Ledger!EntriesOK, Ledger!StateOK, Ledger!State
  <2>2. Ledger!Unpaid.rev \in Nat /\ Ledger!Unpaid.exp \in Nat
    BY DEF Ledger!Unpaid
  <2> QED
    BY <2>1, <2>2 DEF Ledger!LedgerInv, Ledger!PublishedFromLedger
<1>1. ASSUME NEW d \in outbox, Ledger!Publish(d), d.sub = u
      PROVE  cp'[u].hash.rev >= cp[u].hash.rev /\ cp'[u].hash.exp >= cp[u].hash.exp
  <2>1. cp'[u].hash = d.state /\ cp[u].hash.rev < d.state.rev
    BY <1>1 DEF Ledger!Publish, Ledger!LedgerInv, Ledger!PublishedFromLedger
  <2>2. d.state.rev \in Nat /\ d.state.exp \in Nat
    BY DEF Ledger!LedgerInv, Ledger!EntriesOK, Ledger!StateOK, Ledger!State
  <2>3. CASE cp[u].hash = Ledger!Unpaid
    BY <2>1, <2>2, <2>3 DEF Ledger!Unpaid
  <2>4. CASE cp[u].hash # Ledger!Unpaid
    <3>1. PICK c \in outbox : c.sub = u /\ c.state = cp[u].hash
      BY <2>4 DEF Ledger!LedgerInv, Ledger!PublishedFromLedger
    <3> QED
      BY <1>0, <1>1, <2>1, <2>2, <3>1 DEF Ledger!LedgerInv, Ledger!TermsGrow
  <2> QED
    BY <2>3, <2>4
<1>2. CASE cp'[u].hash = cp[u].hash
  BY <1>0, <1>2
<1>3. \/ cp'[u].hash = cp[u].hash
      \/ \E d \in outbox : Ledger!Publish(d) /\ d.sub = u
  <2>1. ASSUME NEW d \in outbox, Ledger!Publish(d), d.sub # u PROVE cp'[u].hash = cp[u].hash
    BY <2>1 DEF Ledger!Publish, Ledger!LedgerInv, Ledger!PublishedFromLedger
  <2> QED
    BY <2>1 DEF Ledger!Next, Ledger!Credit, Ledger!Lapse, Ledger!Append, Ledger!vars
<1> QED
  BY <1>1, <1>2, <1>3

-----------------------------------------------------------------------------
\* Settlement implements BillingLedger, and the safety properties that follow.

LEMMA LedgerConstants == Ledger!ConstantsOK
  BY FunctionsAssumption, BoundsAssumption, NoneAssumption DEF Ledger!ConstantsOK

\* A step that leaves the outbox, the schedules and the control-plane's billing
\* states alone.
Quiet == UNCHANGED <<outbox, sched>> /\ \A u \in Users : cp'[u].hash = cp[u].hash

LEMMA QuietIsStutter == ASSUME Quiet PROVE UNCHANGED Ledger!vars
  BY DEF Quiet, Ledger!vars

LEMMA QuietCredit ==
  ASSUME TypeInv, NEW w \in Workers, CreditStep(w), ~StageInvoiceCredit(w) PROVE Quiet
<1>1. CASE AcquireUserLock(w)
  BY <1>1 DEF AcquireUserLock, Quiet, outboxVars, remoteVars
<1>2. CASE EnsureSubscription(w)
  BY <1>2 DEF EnsureSubscription, Quiet, outboxVars, TypeInv, StoreTypeOK, Subscription
<1>3. CASE SetBillingState(w)
  BY <1>3 DEF SetBillingState, Quiet, outboxVars
<1>4. CASE CompleteBillingDelivery(w)
  BY <1>4 DEF CompleteBillingDelivery, Quiet, remoteVars
<1> QED
  BY <1>1, <1>2, <1>3, <1>4 DEF CreditStep

\* Only three actions move the ledger.
LEMMA LedgerActions ==
  ASSUME TypeInv, [Next]_vars
  PROVE  \/ Quiet
         \/ \E w \in Workers : StageInvoiceCredit(w)
         \/ \E s \in Sweepers : StageScheduleTransition(s)
         \/ \E m \in inflight : HandleBillingState(m)
<1> USE DEF Quiet, invoiceVars, outboxVars, remoteVars
<1>1. CASE UNCHANGED vars
  BY <1>1 DEF vars
<1>2. CASE Tick
  BY <1>2 DEF Tick
<1>3. ASSUME NEW h \in Handlers, NEW e \in Events, Process(h, e) PROVE Quiet
  BY <1>3 DEF Process
<1>4. ASSUME NEW h \in Handlers, HandlerStep(h), ~CreditStep(h) PROVE Quiet
  BY <1>4 DEF HandlerStep, SetInvoiceStatus, RefuseEvent, ClaimSettlement, RecordEvent
<1>5. ASSUME NEW p \in Pollers, PollerStep(p), ~CreditStep(p) PROVE Quiet
  BY <1>5 DEF PollerStep, LeaseBillingDeliveries, DeliverNext, LeaseStuckSettlements,
              FinishSettlement, ExpireOverdue
<1>6. ASSUME NEW s \in Sweepers, SweeperStep(s), ~CreditStep(s), ~StageScheduleTransition(s)
      PROVE Quiet
  BY <1>6 DEF SweeperStep, DueSchedules, SweepNext, SweepRead
<1>7. ASSUME NEW u \in Users, CancelSubscription(u) PROVE Quiet
  BY <1>7 DEF CancelSubscription, TypeInv, StoreTypeOK, Subscription
<1>8. ASSUME NEW w \in Workers, Fail(w) \/ LeaseQueryFails(w) \/ StatusWriteFails(w) \/ Crash(w)
      PROVE Quiet
  BY <1>8 DEF Fail, LeaseQueryFails, StatusWriteFails, Crash
<1> HIDE DEF Quiet
<1> QED
  BY <1>1, <1>2, <1>3, <1>4, <1>5, <1>6, <1>7, <1>8, QuietCredit DEF Next, Workers

(* The three actions that do.                                              *)

LEMMA CreditRefines ==
  ASSUME TypeInv, NEW w \in Workers, StageInvoiceCredit(w) PROVE [Ledger!Next]_Ledger!vars
<1> DEFINE i == wk[w].inv
           d == NewCredit(i)
<1>1. i \in Invoices /\ now \in 0..Horizon
  BY DEF StageInvoiceCredit, TypeInv, StoreTypeOK, WorkersOK, WorkerFacts
<1>2. UNCHANGED [u \in Users |-> cp[u].hash]
  BY DEF StageInvoiceCredit, remoteVars
<1>3. CASE UNCHANGED <<sched, outbox>>
  BY <1>2, <1>3 DEF Ledger!vars
<1>4. CASE (\A c \in outbox : c.inv # i) /\ Stage(w, d)
  <2>1. outbox' = outbox \cup {d} /\ sched' = [sched EXCEPT ![d.sub] = d.state]
    BY <1>4 DEF Stage
  <2>2. Ledger!Append(d)
    BY <1>2, <2>1 DEF Ledger!Append
  <2>3. Ledger!Credit(i, now)
    BY <1>4, <2>2 DEF Ledger!Credit, NewCredit, Later
  <2> HIDE DEF i
  <2> QED
    BY <1>1, <2>3 DEF Ledger!Next
<1> QED
  BY <1>3, <1>4 DEF StageInvoiceCredit

\* What a sweeper has read under the lock still holds when it stages, or the
\* revision has moved on and the compare-and-set refuses the transition.
SweepInv ==
    \A w \in Workers : wk[w].pc = "sweepStage" =>
        LET cur == sched[wk[w].sub] IN
        /\ wk[w].n <= cur.rev
        /\ wk[w].n = cur.rev => transition(cur, wk[w].at) = wk[w].next

LEMMA TransitionRefines ==
  ASSUME TypeInv, SweepInv, Ledger!LedgerInv, NEW s \in Sweepers, StageScheduleTransition(s)
  PROVE  [Ledger!Next]_Ledger!vars
<1> DEFINE u == wk[s].sub
           t == wk[s].at
           d == NewTransition(u, wk[s].next, t)
<1>1. /\ u \in Users /\ t \in 0..Horizon /\ wk[s].next \in {"past_due", "expired"}
      /\ wk[s].pc = "sweepStage" /\ s \in Workers
  BY DEF StageScheduleTransition, TypeInv, WorkersOK, WorkerFacts, Worker, Workers
<1>2. UNCHANGED [x \in Users |-> cp[x].hash]
  BY DEF StageScheduleTransition, remoteVars
<1>3. CASE sched[u].rev # wk[s].n
  BY <1>2, <1>3 DEF StageScheduleTransition, Ledger!vars
<1>4. CASE sched[u].rev = wk[s].n
  <2>1. outbox' = outbox \cup {d} /\ sched' = [sched EXCEPT ![d.sub] = d.state]
    BY <1>4 DEF StageScheduleTransition, Stage
  <2>2. Ledger!Append(d)
    BY <1>2, <2>1 DEF Ledger!Append
  <2>3. transition(sched[u], t) = wk[s].next
    BY <1>1, <1>4 DEF SweepInv
  <2>4. sched[u].exp \in Nat /\ sched[u].grace \in Nat /\ sched[u].exp <= sched[u].grace
    BY <1>1 DEF Ledger!LedgerInv, Ledger!HeadsOK, Ledger!StateOK, Ledger!State
  <2>5. wk[s].next = (IF t >= sched[u].grace THEN "expired" ELSE "past_due")
    BY <1>1, <2>3 DEF transition
  <2>6. sched[u].exp <= t
    <3>1. t \in Nat
      BY <1>1, BoundsAssumption
    <3>2. CASE t >= sched[u].grace
      BY <2>4, <3>1, <3>2
    <3>3. CASE ~(t >= sched[u].grace)
      <4>1. t >= sched[u].exp
        BY <1>1, <2>3, <3>3 DEF transition
      <4> QED
        BY <2>4, <3>1, <4>1
    <3> QED
      BY <3>2, <3>3
  <2>7. d = [sub |-> u, inv |-> None, created |-> t,
             state |-> [sched[u] EXCEPT !.rev = sched[u].rev + 1,
                          !.status = IF t >= sched[u].grace THEN "expired" ELSE "past_due"]]
    BY <2>5 DEF NewTransition
  <2> HIDE DEF d
  <2>8. Ledger!Lapse(u, t)
    BY <2>2, <2>6, <2>7 DEF Ledger!Lapse
  <2> HIDE DEF u, t
  <2> QED
    BY <1>1, <2>8 DEF Ledger!Next
<1> QED
  BY <1>3, <1>4

LEMMA HandleRefines ==
  ASSUME TypeInv, NEW m \in inflight, HandleBillingState(m) PROVE [Ledger!Next]_Ledger!vars
<1> DEFINE d == m.dlv
           pub == [u \in Users |-> cp[u].hash]
<1>1. d \in outbox /\ d.sub \in Users
  BY DEF TypeInv, StoreTypeOK, Delivery
<1>2. UNCHANGED <<outbox, sched>>
  BY DEF HandleBillingState, outboxVars
<1>3. CASE cp[d.sub].hash.rev < d.state.rev
  <2>1. pub' = [pub EXCEPT ![d.sub] = d.state]
    BY <1>1, <1>3 DEF HandleBillingState, ApplyBillingState, TypeInv, StoreTypeOK
  <2>2. Ledger!Publish(d)
    BY <1>1, <1>2, <1>3, <2>1 DEF Ledger!Publish
  <2> QED
    BY <1>1, <2>2 DEF Ledger!Next
<1>4. CASE ~(cp[d.sub].hash.rev < d.state.rev)
  <2>1. cp' = cp
    BY <1>1, <1>4 DEF HandleBillingState, ApplyBillingState, TypeInv, StoreTypeOK
  <2> QED
    BY <1>2, <2>1 DEF Ledger!vars
<1> QED
  BY <1>3, <1>4

LEMMA StepRefines ==
  ASSUME TypeInv, SweepInv, Ledger!LedgerInv, [Next]_vars PROVE [Ledger!Next]_Ledger!vars
  BY LedgerActions, QuietIsStutter, CreditRefines, TransitionRefines, HandleRefines

\* A worker enters "sweepStage" only by SweepRead, and "replied" only when the
\* control-plane has handled its request.
LEMMA PcMoves ==
  ASSUME TypeInv, [Next]_vars, NEW w \in Workers, wk'[w] # wk[w]
  PROVE  /\ wk'[w].pc = "sweepStage" => w \in Sweepers /\ SweepRead(w)
         /\ wk'[w].pc = "replied" => \E m \in inflight : HandleBillingState(m) /\ m.from = w
<1> DEFINE G == wk'[w].pc \notin {"sweepStage", "replied"}
<1>0. ASSUME NEW x \in Workers, NEW r, wk' = [wk EXCEPT ![x] = r]
      PROVE  w = x /\ wk'[w] = r
  BY <1>0 DEF TypeInv, WorkersOK
<1>1. ASSUME NEW x \in Workers PROVE WorkerFacts(wk[x], outbox)
  BY DEF TypeInv, WorkersOK
<1>2. ASSUME NEW x \in Workers, ItemDone(x) PROVE G
  <2>1. wk'[w].pc = wk[x].ret
    BY <1>0, <1>1, <1>2 DEF ItemDone, WorkerFacts, Worker
  <2> QED
    BY <2>1, <1>1 DEF WorkerFacts
<1>3. ASSUME NEW x \in Workers, NEW pc, Goto(x, pc), pc \notin {"sweepStage", "replied"} PROVE G
  BY <1>0, <1>1, <1>3 DEF Goto, WorkerFacts, Worker
<1>4. ASSUME NEW x \in Workers, NEW d, Stage(x, d) PROVE G
  BY <1>0, <1>1, <1>4 DEF Stage, WorkerFacts, Worker
<1>5. ASSUME NEW x \in Workers, wk' = [wk EXCEPT ![x] = Idle] PROVE G
  BY <1>0, <1>5 DEF Idle
<1>6. ASSUME NEW x \in Workers, CreditStep(x) PROVE G
  <2>1. CASE AcquireUserLock(x)
    BY <1>3, <2>1 DEF AcquireUserLock
  <2>2. CASE EnsureSubscription(x)
    BY <1>3, <2>2 DEF EnsureSubscription
  <2>3. CASE StageInvoiceCredit(x)
    <3>1. CASE Stage(x, NewCredit(wk[x].inv))
      BY <1>4, <3>1
    <3>2. CASE \E d \in outbox : wk' = [wk EXCEPT ![x] = [wk[x] EXCEPT !.pc = "send", !.dlv = d]]
      BY <1>0, <1>1, <3>2 DEF WorkerFacts, Worker
    <3> QED
      BY <2>3, <3>1, <3>2 DEF StageInvoiceCredit
  <2>4. CASE SetBillingState(x)
    BY <1>3, <2>4 DEF SetBillingState
  <2>5. CASE CompleteBillingDelivery(x)
    BY <1>2, <2>5 DEF CompleteBillingDelivery
  <2> QED
    BY <1>6, <2>1, <2>2, <2>3, <2>4, <2>5 DEF CreditStep
<1>7. ASSUME NEW h \in Handlers, NEW e \in Events, Process(h, e) PROVE G
  BY <1>0, <1>7 DEF Process, Idle, Workers
<1>8. ASSUME NEW h \in Handlers, HandlerStep(h) PROVE G
  <2>0. h \in Workers
    BY DEF Workers
  <2>1. CASE SetInvoiceStatus(h)
    BY <1>3, <2>0, <2>1 DEF SetInvoiceStatus
  <2>2. CASE RefuseEvent(h)
    BY <1>5, <2>0, <2>2 DEF RefuseEvent
  <2>3. CASE ClaimSettlement(h)
    <3>1. CASE Goto(h, "record")
      BY <1>3, <2>0, <3>1
    <3>2. CASE \E i : wk' = [wk EXCEPT ![h] = [wk[h] EXCEPT !.pc = "lock", !.inv = i,
                                                            !.sub = UserOf[i]]]
      BY <1>0, <1>1, <2>0, <3>2 DEF WorkerFacts, Worker
    <3> QED
      BY <2>3, <3>1, <3>2 DEF ClaimSettlement
  <2>4. CASE RecordEvent(h)
    BY <1>5, <2>0, <2>4 DEF RecordEvent
  <2> QED
    BY <1>6, <1>8, <2>0, <2>1, <2>2, <2>3, <2>4 DEF HandlerStep
<1>9. ASSUME NEW p \in Pollers, PollerStep(p) PROVE G
  <2>0. p \in Workers
    BY DEF Workers
  <2>1. CASE LeaseBillingDeliveries(p)
    BY <1>0, <2>0, <2>1 DEF LeaseBillingDeliveries, Idle
  <2>2. CASE DeliverNext(p)
    <3>1. CASE \E pc \in {"leaseStuck", "expire"} : Goto(p, pc)
      BY <1>3, <2>0, <3>1
    <3>2. CASE \E d \in wk[p].todo :
            wk' = [wk EXCEPT ![p] = [wk[p] EXCEPT !.pc = "send", !.dlv = d,
                                                  !.todo = wk[p].todo \ {d}]]
      BY <1>0, <1>1, <2>0, <3>2 DEF WorkerFacts, Worker
    <3> QED
      BY <2>2, <3>1, <3>2 DEF DeliverNext
  <2>3. CASE LeaseStuckSettlements(p)
    BY <1>0, <2>0, <2>3 DEF LeaseStuckSettlements, Idle
  <2>4. CASE FinishSettlement(p)
    <3>1. CASE Goto(p, "expire")
      BY <1>3, <2>0, <3>1
    <3>2. CASE \E i \in wk[p].todo : wk' = [wk EXCEPT ![p] = [wk[p] EXCEPT !.todo = wk[p].todo \ {i}]]
      <4>1. wk'[w].pc = wk[p].pc
        BY <1>0, <1>1, <2>0, <3>2 DEF WorkerFacts, Worker
      <4> QED
        BY <2>4, <4>1 DEF FinishSettlement
    <3>3. CASE \E i \in wk[p].todo :
            wk' = [wk EXCEPT ![p] = [wk[p] EXCEPT !.pc = "lock", !.inv = i,
                           !.sub = UserOf[i], !.todo = wk[p].todo \ {i}]]
      BY <1>0, <1>1, <2>0, <3>3 DEF WorkerFacts, Worker
    <3> QED
      BY <2>4, <3>1, <3>2, <3>3 DEF FinishSettlement
  <2>5. CASE ExpireOverdue(p)
    BY <1>5, <2>0, <2>5 DEF ExpireOverdue
  <2> QED
    BY <1>6, <1>9, <2>0, <2>1, <2>2, <2>3, <2>4, <2>5 DEF PollerStep
<1>10. ASSUME NEW s \in Sweepers, SweeperStep(s)
       PROVE  G \/ (w = s /\ SweepRead(s) /\ wk'[w].pc # "replied")
  <2>0. s \in Workers
    BY DEF Workers
  <2>1. CASE DueSchedules(s)
    <3>1. PICK due : wk' = [wk EXCEPT ![s] = [Idle EXCEPT !.pc = "sweep", !.ret = "sweep",
                                               !.todo = due, !.at = now]]
      BY <2>1 DEF DueSchedules
    <3> QED
      BY <1>0, <2>0, <3>1 DEF Idle
  <2>2. CASE SweepNext(s)
    <3>1. CASE wk' = [wk EXCEPT ![s] = Idle]
      BY <1>5, <2>0, <3>1
    <3>2. CASE \E u \in wk[s].todo :
            wk' = [wk EXCEPT ![s] = [wk[s] EXCEPT !.pc = "sweepLock", !.sub = u,
                                                  !.todo = wk[s].todo \ {u}]]
      BY <1>0, <1>1, <2>0, <3>2 DEF WorkerFacts, Worker
    <3> QED
      BY <2>2, <3>1, <3>2 DEF SweepNext
  <2>3. CASE SweepRead(s)
    <3>1. CASE ItemDone(s)
      BY <1>2, <2>0, <3>1
    <3>2. CASE ~ItemDone(s)
      <4>1. PICK n, next : wk' = [wk EXCEPT ![s] = [wk[s] EXCEPT !.pc = "sweepStage",
                                                        !.n = n, !.next = next]]
        BY <2>3, <3>2 DEF SweepRead
      <4> QED
        BY <1>0, <1>1, <2>0, <2>3, <4>1 DEF WorkerFacts, Worker
    <3> QED
      BY <3>1, <3>2
  <2>4. CASE StageScheduleTransition(s)
    BY <1>2, <1>4, <2>0, <2>4 DEF StageScheduleTransition
  <2> QED
    BY <1>6, <1>10, <2>0, <2>1, <2>2, <2>3, <2>4 DEF SweeperStep
<1>11. ASSUME NEW m \in inflight, HandleBillingState(m)
       PROVE  m.from = w /\ wk'[w].pc = "replied"
  <2>1. m.from \in Workers
    BY DEF TypeInv, StoreTypeOK
  <2> QED
    BY <1>0, <1>1, <1>11, <2>1 DEF HandleBillingState, WorkerFacts, Worker
<1>12. ASSUME NEW x \in Workers, Fail(x) \/ Crash(x) \/ StatusWriteFails(x) PROVE G
  BY <1>2, <1>3, <1>5, <1>12 DEF Fail, Crash, StatusWriteFails
<1>13. ASSUME NEW p \in Pollers, LeaseQueryFails(p) PROVE G
  BY <1>0, <1>13 DEF LeaseQueryFails, Idle, Workers
<1>14. ~Tick /\ (\A u \in Users : ~CancelSubscription(u)) /\ ~UNCHANGED vars
  BY DEF Tick, CancelSubscription, vars
<1> QED
  BY <1>7, <1>8, <1>9, <1>10, <1>11, <1>12, <1>13, <1>14 DEF Next, Workers

\* A schedule changes only together with its revision.
LEMMA ScheduleMoves ==
  ASSUME TypeInv, Ledger!LedgerInv, [Ledger!Next]_Ledger!vars, NEW u \in Users
  PROVE  sched'[u] = sched[u] \/ sched'[u].rev = sched[u].rev + 1
<1>1. ASSUME NEW d, Ledger!Append(d), d.state.rev = sched[d.sub].rev + 1
      PROVE  sched'[u] = sched[u] \/ sched'[u].rev = sched[u].rev + 1
  BY <1>1 DEF Ledger!Append, TypeInv, StoreTypeOK
<1>2. ASSUME NEW i \in Invoices, NEW t \in 0..Horizon,
         Ledger!Credit(i, t)
      PROVE  \E d : Ledger!Append(d) /\ d.state.rev = sched[d.sub].rev + 1
  BY <1>2 DEF Ledger!Credit
<1>3. ASSUME NEW x \in Users, NEW t \in 0..Horizon, Ledger!Lapse(x, t)
      PROVE  \E d : Ledger!Append(d) /\ d.state.rev = sched[d.sub].rev + 1
  <2>1. PICK st : Ledger!Append([sub |-> x, inv |-> None, created |-> t,
                     state |-> [sched[x] EXCEPT !.rev = sched[x].rev + 1, !.status = st]])
    BY <1>3 DEF Ledger!Lapse
  <2>2. [sched[x] EXCEPT !.rev = sched[x].rev + 1, !.status = st].rev = sched[x].rev + 1
    BY DEF TypeInv, StoreTypeOK, BillingState
  <2> DEFINE n == [sched[x] EXCEPT !.rev = sched[x].rev + 1, !.status = st]
             d == [sub |-> x, inv |-> None, created |-> t, state |-> n]
  <2> HIDE DEF n
  <2>3. d.sub = x /\ d.state = n
    OBVIOUS
  <2>4. Ledger!Append(d) /\ n.rev = sched[x].rev + 1
    BY <2>1, <2>2 DEF n
  <2> HIDE DEF d
  <2> QED
    BY <2>3, <2>4
<1>4. CASE sched' = sched
  BY <1>4
<1> QED
  BY <1>1, <1>2, <1>3, <1>4 DEF Ledger!Next, Ledger!Publish, Ledger!vars

LEMMA SweepStep ==
  ASSUME TypeInv, SweepInv, Ledger!LedgerInv, [Next]_vars, [Ledger!Next]_Ledger!vars PROVE SweepInv'
<1> SUFFICES ASSUME NEW w \in Workers, wk'[w].pc = "sweepStage"
             PROVE  /\ wk'[w].n <= sched'[wk'[w].sub].rev
                    /\ wk'[w].n = sched'[wk'[w].sub].rev =>
                         transition(sched'[wk'[w].sub], wk'[w].at) = wk'[w].next
  BY DEF SweepInv, transition
<1>1. WorkerFacts(wk[w], outbox)
  BY DEF TypeInv, WorkersOK
<1>2. CASE wk'[w] = wk[w]
  <2>1. wk[w].pc = "sweepStage" /\ wk[w].sub \in Users /\ wk[w].n \in Nat
    BY <1>1, <1>2 DEF WorkerFacts, Worker
  <2>2. sched[wk[w].sub].rev \in Nat
    BY <2>1 DEF TypeInv, StoreTypeOK, BillingState
  <2>3. /\ wk[w].n <= sched[wk[w].sub].rev
        /\ wk[w].n = sched[wk[w].sub].rev =>
             transition(sched[wk[w].sub], wk[w].at) = wk[w].next
    BY <2>1 DEF SweepInv
  <2> QED
    BY <1>2, <2>1, <2>2, <2>3, ScheduleMoves
<1>3. CASE wk'[w] # wk[w]
  <2>1. w \in Sweepers /\ SweepRead(w)
    BY <1>3, PcMoves
  <2>2. sched' = sched /\ wk[w].sub \in Users /\ wk[w].pc = "sweepRead"
    BY <1>1, <2>1 DEF SweepRead, outboxVars, WorkerFacts
  <2> DEFINE cur == sched[wk[w].sub]
             next == transition(cur, wk[w].at)
  <2>3. wk' = [wk EXCEPT ![w] = [wk[w] EXCEPT !.pc = "sweepStage", !.n = cur.rev, !.next = next]]
    <3>1. ~ItemDone(w)
      <4>1. ASSUME ItemDone(w) PROVE wk'[w].pc = wk[w].ret
        BY <4>1, <1>1 DEF ItemDone, TypeInv, WorkersOK, WorkerFacts, Worker
      <4> QED
        BY <4>1, <1>1 DEF WorkerFacts
    <3> QED
      BY <2>1, <3>1 DEF SweepRead
  <2> HIDE DEF next
  <2>4. /\ wk'[w].sub = wk[w].sub /\ wk'[w].at = wk[w].at
        /\ wk'[w].n = cur.rev /\ wk'[w].next = next
    BY <1>1, <2>3 DEF TypeInv, WorkersOK, WorkerFacts, Worker
  <2>5. cur.rev \in Nat
    BY <2>2 DEF TypeInv, StoreTypeOK, BillingState
  <2> QED
    BY <2>2, <2>4, <2>5 DEF next
<1> QED
  BY <1>2, <1>3

\* The inductive invariant of the refinement.
RefinementInv == TypeInv /\ SweepInv /\ Ledger!LedgerInv

LEMMA RefinementInit == Init => RefinementInv /\ Ledger!Init
<1> SUFFICES ASSUME Init PROVE RefinementInv /\ Ledger!Init
  OBVIOUS
<1>1. Ledger!Init
  BY DEF Init, Ledger!Init, Ledger!Unpaid, NoState
<1>2. SweepInv
  BY DEF Init, SweepInv, Idle
<1> QED
  BY <1>1, <1>2, TypeInit, LedgerConstants, LedgerInit DEF RefinementInv

LEMMA RefinementStep ==
  RefinementInv /\ [Next]_vars => RefinementInv' /\ [Ledger!Next]_Ledger!vars
<1> SUFFICES ASSUME RefinementInv, [Next]_vars PROVE RefinementInv' /\ [Ledger!Next]_Ledger!vars
  OBVIOUS
<1>1. [Ledger!Next]_Ledger!vars
  BY StepRefines DEF RefinementInv
<1>2. TypeInv'
  BY TypeStep DEF RefinementInv
<1>3. SweepInv'
  BY <1>1, SweepStep DEF RefinementInv
<1>4. Ledger!LedgerInv'
  BY <1>1, LedgerConstants, LedgerStep DEF RefinementInv
<1> QED
  BY <1>1, <1>2, <1>3, <1>4 DEF RefinementInv

LEMMA RefinementInvariant == Spec => []RefinementInv
  BY RefinementInit, RefinementStep, PTL DEF Spec

\* Billing implements its ledger, whatever the number of workers and failures:
\* every step of CreditInvoice, Deliver, Reconcile and the sweeper is a step of
\* BillingLedger or leaves it alone.
THEOREM SettlementImplementsLedger == Spec => ImplementsLedger
<1>1. Init => Ledger!Init
  BY DEF Init, Ledger!Init, Ledger!Unpaid, NoState
<1>2. [Ledger!Next]_Ledger!vars => [Ledger!Next]_(Ledger!vars)
  BY DEF Ledger!Next, Ledger!vars, Ledger!Credit, Ledger!Lapse, Ledger!Publish, Ledger!Append,
         Ledger!Next, Ledger!vars, Ledger!Credit, Ledger!Lapse, Ledger!Publish, Ledger!Append
<1> QED
  BY <1>1, <1>2, RefinementStep, RefinementInvariant, PTL DEF Spec, ImplementsLedger,
     Ledger!Spec

----------------------------------------------------------------------------
(* What follows from the refinement.                                       *)

LEMMA LedgerTypes ==
  ASSUME RefinementInv
  PROVE  /\ \A d \in outbox : /\ d.sub \in Users /\ d.state.rev \in Nat /\ d.state.rev >= 1
                              /\ d.state.rev <= sched[d.sub].rev /\ d.state.exp \in Nat
                              /\ d.inv \in Invoices \cup {None} /\ d.created \in Nat
         /\ \A u \in Users : sched[u].rev \in Nat /\ cp[u].hash.rev \in Nat
  BY DEF RefinementInv, TypeInv, StoreTypeOK, Delivery, BillingState, Subscription,
         Ledger!LedgerInv, Ledger!RevisionsBounded

LEMMA OnePeriod == RefinementInv => ExactlyOnePeriod
<1> SUFFICES ASSUME RefinementInv PROVE ExactlyOnePeriod
  OBVIOUS
<1>1. ASSUME NEW c \in Credits, NEW d \in Credits, c.inv = d.inv PROVE c = d
  BY <1>1 DEF RefinementInv, Ledger!LedgerInv, Ledger!OneEntryPerInvoice, Credits
<1>2. ASSUME NEW d \in Credits
      PROVE  d.state.exp = Later(d.created, TermBefore(d)) + Duration[PlanOf[d.inv]]
  <2>1. d \in outbox /\ d.inv # None
    BY DEF Credits
  <2>2. CASE d.state.rev = 1
    BY <2>1, <2>2 DEF TermBefore, Later, RefinementInv, Ledger!LedgerInv,
       Ledger!CreditsAddOnePeriod, Ledger!Since
  <2>3. CASE d.state.rev # 1
    <3>1. d.state.rev - 1 \in Nat /\ d.state.rev - 1 >= 1 /\ d.state.rev - 1 <= sched[d.sub].rev
      BY <2>1, <2>3, LedgerTypes
    <3>2. \E p \in outbox : p.sub = d.sub /\ p.state.rev = d.state.rev - 1
      BY <2>1, <3>1, LedgerTypes DEF RefinementInv, Ledger!LedgerInv, Ledger!RevisionsDense
    <3> DEFINE p == CHOOSE p \in outbox : p.sub = d.sub /\ p.state.rev = d.state.rev - 1
    <3>3. p \in outbox /\ p.sub = d.sub /\ p.state.rev = d.state.rev - 1
      BY <3>2
    <3>4. TermBefore(d) = p.state.exp
      BY <2>3 DEF TermBefore
    <3> HIDE DEF p
    <3>5. p.state.rev + 1 = d.state.rev
      BY <2>1, <3>3, LedgerTypes
    <3> QED
      BY <2>1, <3>3, <3>4, <3>5 DEF Later, RefinementInv, Ledger!LedgerInv,
         Ledger!CreditsAddOnePeriod, Ledger!Since
  <2> QED
    BY <2>2, <2>3
<1> QED
  BY <1>1, <1>2 DEF ExactlyOnePeriod

\* A confirmed payment credits exactly one period, for any interleaving of
\* webhooks, retries, recovery and sweeps (StageInvoiceCredit).
THEOREM CreditedExactlyOnce == Spec => []ExactlyOnePeriod
  BY RefinementInvariant, OnePeriod, PTL

LEMMA NoConflict == RefinementInv => NoRevisionConflict
<1> SUFFICES ASSUME RefinementInv, NEW m \in inflight,
                    cp[m.dlv.sub].hash.rev = m.dlv.state.rev
             PROVE  cp[m.dlv.sub].hash = m.dlv.state
  BY DEF NoRevisionConflict, Conflicts
<1>1. m.dlv \in outbox
  BY DEF RefinementInv, TypeInv, StoreTypeOK
<1>2. m.dlv.sub \in Users /\ m.dlv.state.rev \in Nat /\ m.dlv.state.rev >= 1
  BY <1>1, LedgerTypes
<1>3. cp[m.dlv.sub].hash # Ledger!Unpaid
  BY <1>2 DEF Ledger!Unpaid
<1>4. PICK c \in outbox : c.sub = m.dlv.sub /\ c.state = cp[m.dlv.sub].hash
  BY <1>2, <1>3 DEF RefinementInv, Ledger!LedgerInv, Ledger!PublishedFromLedger
<1> QED
  BY <1>1, <1>4 DEF RefinementInv, Ledger!LedgerInv, Ledger!RevisionsUnique

\* The control-plane never answers a request of billing with a revision
\* conflict (ApplyBillingState): a revision is used for one state only.
THEOREM RevisionsNeverConflict == Spec => []NoRevisionConflict
  BY RefinementInvariant, NoConflict, PTL

LEMMA FollowsSchedule == RefinementInv => ControlPlaneFollowsSchedule
<1> SUFFICES ASSUME RefinementInv, NEW u \in Users
             PROVE  /\ cp[u].hash.rev <= sched[u].rev
                    /\ cp[u].hash.rev > 0 => \E d \in outbox : d.sub = u /\ d.state = cp[u].hash
                    /\ cp[u].hash.rev = sched[u].rev => cp[u].hash = sched[u]
  BY DEF ControlPlaneFollowsSchedule
<1>0. sched[u].rev \in Nat
  BY LedgerTypes
<1>1. CASE cp[u].hash = Ledger!Unpaid
  BY <1>0, <1>1 DEF Ledger!Unpaid, RefinementInv, Ledger!LedgerInv, Ledger!HeadsOK
<1>2. CASE cp[u].hash # Ledger!Unpaid
  <2>1. PICK d \in outbox : d.sub = u /\ d.state = cp[u].hash
    BY <1>2 DEF RefinementInv, Ledger!LedgerInv, Ledger!PublishedFromLedger
  <2> QED
    BY <2>1, LedgerTypes DEF RefinementInv, Ledger!LedgerInv, Ledger!HeadIsNewest
<1> QED
  BY <1>1, <1>2

\* What the control-plane serves was staged by billing and is never ahead of
\* its schedule.
THEOREM ControlPlaneNeverAhead == Spec => []ControlPlaneFollowsSchedule
  BY RefinementInvariant, FollowsSchedule, PTL

LEMMA LapsesDue == RefinementInv => NoEarlyLapse
  BY DEF RefinementInv, Ledger!LedgerInv, Ledger!LapsesAreDue, NoEarlyLapse

\* The sweeper never lapses a subscription before its paid term, or its grace,
\* has ended, even when a payment arrives between its read and its write.
THEOREM LapseOnlyWhenDue == Spec => []NoEarlyLapse
  BY RefinementInvariant, LapsesDue, PTL

LEMMA ForwardStep ==
  ASSUME RefinementInv, [Next]_vars, NEW u \in Users
  PROVE  cp'[u].hash.exp >= cp[u].hash.exp /\ cp'[u].hash.rev >= cp[u].hash.rev
<1>1. [Ledger!Next]_Ledger!vars
  BY RefinementStep
<1> QED
  BY <1>1, PublishedMovesForward DEF RefinementInv

\* A late, repeated or reordered request never shortens the term that the
\* control-plane serves (ApplyBillingState).
THEOREM TermsNeverShrink == Spec => TermNeverShrinks
<1>1. RefinementInv /\ [Next]_vars =>
        [\A u \in Users : /\ cp'[u].hash.exp >= cp[u].hash.exp
                          /\ cp'[u].hash.rev >= cp[u].hash.rev]_vars
  BY ForwardStep
<1> QED
  BY <1>1, RefinementInvariant, PTL DEF Spec, TermNeverShrinks
\* A canceled subscription is reopened only by the control-plane handling a request
\* with a revision that it does not have yet.
LEMMA CancelStep ==
  ASSUME TypeInv, [Next]_vars, NEW u \in Users, cp[u].status = "canceled", cp'[u].status # "canceled"
  PROVE  cp'[u].hash.rev > cp[u].hash.rev
<1> USE DEF remoteVars
<1> DEFINE Kept == cp'[u].status = "canceled"
<1>0. cp \in [Users -> Subscription] /\ \A v \in Users : cp[v].hash.rev \in Nat
  BY DEF TypeInv, StoreTypeOK, Subscription, BillingState
<1>1. CASE UNCHANGED vars
  BY <1>1 DEF vars
<1>2. CASE Tick
  BY <1>2 DEF Tick
<1>3. ASSUME NEW h \in Handlers, NEW e \in Events, Process(h, e) PROVE Kept
  BY <1>3 DEF Process
<1>4. ASSUME NEW w \in Workers, CreditStep(w) PROVE Kept
  <2>1. CASE EnsureSubscription(w)
    BY <1>0, <2>1 DEF EnsureSubscription, Subscription
  <2>2. CASE ~EnsureSubscription(w)
    <3>1. CASE AcquireUserLock(w)
      BY <3>1 DEF AcquireUserLock
    <3>2. CASE StageInvoiceCredit(w)
      BY <3>2 DEF StageInvoiceCredit
    <3>3. CASE SetBillingState(w)
      BY <3>3 DEF SetBillingState
    <3>4. CASE CompleteBillingDelivery(w)
      BY <3>4 DEF CompleteBillingDelivery
    <3> QED
      BY <1>4, <2>2, <3>1, <3>2, <3>3, <3>4 DEF CreditStep
  <2> QED
    BY <2>1, <2>2
<1>5. ASSUME NEW h \in Handlers, HandlerStep(h), ~CreditStep(h) PROVE Kept
  BY <1>5 DEF HandlerStep, SetInvoiceStatus, RefuseEvent, ClaimSettlement, RecordEvent
<1>6. ASSUME NEW p \in Pollers, PollerStep(p), ~CreditStep(p) PROVE Kept
  <2>1. CASE LeaseBillingDeliveries(p)
    BY <2>1 DEF LeaseBillingDeliveries
  <2>2. CASE DeliverNext(p) \/ LeaseStuckSettlements(p)
    BY <2>2 DEF DeliverNext, LeaseStuckSettlements
  <2>3. CASE FinishSettlement(p) \/ ExpireOverdue(p)
    BY <2>3 DEF FinishSettlement, ExpireOverdue
  <2> QED
    BY <1>6, <2>1, <2>2, <2>3 DEF PollerStep
<1>7. ASSUME NEW s \in Sweepers, SweeperStep(s), ~CreditStep(s) PROVE Kept
  <2>1. CASE DueSchedules(s) \/ SweepNext(s) \/ SweepRead(s)
    BY <2>1 DEF DueSchedules, SweepNext, SweepRead
  <2>2. CASE StageScheduleTransition(s)
    BY <2>2 DEF StageScheduleTransition
  <2> QED
    BY <1>7, <2>1, <2>2 DEF SweeperStep
<1>8. ASSUME NEW v \in Users, CancelSubscription(v) PROVE Kept
  BY <1>0, <1>8 DEF CancelSubscription, Subscription
<1>9. ASSUME NEW w \in Workers, Fail(w) \/ LeaseQueryFails(w) \/ StatusWriteFails(w) \/ Crash(w)
      PROVE Kept
  BY <1>9 DEF Fail, LeaseQueryFails, StatusWriteFails, Crash
<1>10. ASSUME NEW m \in inflight, HandleBillingState(m) PROVE cp'[u].hash.rev > cp[u].hash.rev
  <2>1. m.dlv.sub = u /\ cp'[u] = ApplyBillingState(cp[u], m.dlv.state)
    BY <1>0, <1>10 DEF HandleBillingState
  <2>2. cp[u].hash.rev < m.dlv.state.rev /\ cp'[u].hash = m.dlv.state
    BY <2>1 DEF ApplyBillingState
  <2>3. m.dlv.state.rev \in Nat
    BY DEF TypeInv, StoreTypeOK, Delivery, BillingState
  <2> QED
    BY <1>0, <2>2, <2>3
<1> QED
  BY <1>1, <1>2, <1>3, <1>4, <1>5, <1>6, <1>7, <1>8, <1>9, <1>10 DEF Next, Workers

\* However often a request is sent again, and however late it arrives, it does not
\* reopen what an operator canceled; a new revision does (CancelSubscription,
\* ApplyBillingState).
THEOREM CancelOutlivesRetries == Spec => RetryKeepsCancel
<1>1. TypeInv /\ [Next]_vars =>
        [\A u \in Users : cp[u].status = "canceled" /\ cp'[u].status # "canceled"
                            => cp'[u].hash.rev > cp[u].hash.rev]_vars
  BY CancelStep
<1>2. RefinementInv => TypeInv
  BY DEF RefinementInv
<1> QED
  BY <1>1, <1>2, RefinementInvariant, PTL DEF Spec, RetryKeepsCancel
=============================================================================
