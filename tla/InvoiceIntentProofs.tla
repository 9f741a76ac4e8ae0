------------------------ MODULE InvoiceIntentProofs ------------------------
(***************************************************************************)
(* Proofs about InvoiceIntent, for any keys, requests, orders and number of *)
(* concurrent calls, retries, crashes and lost replies: a key leads to at   *)
(* most one gateway invoice, every caller of a key is answered with it, and *)
(* a failed intent has none.                                                *)
(*                                                                         *)
(* The right to POST an order is won once, in BeginInvoiceCreate, and is    *)
(* then somewhere: with the handler that has yet to post, on its way to the *)
(* gateway, turned into an invoice, or with the handler that saw it refused.*)
(* The invariant says that these exclude one another, and that what a       *)
(* handler read of its intent stays true of it.                             *)
(***************************************************************************)
EXTENDS InvoiceIntent, FiniteSetTheorems, TLAPS

\* The right to create the order of k was given away, and is not used up by a refusal.
Begun(k) == intent[k].state \in {"creating", "ready"}

\* What a key reserved stays its own: no order serves two keys.
KeyInv ==
    /\ \A k \in Keys : intent[k].state = "none" => intent[k] = NoIntent
    /\ \A k \in Keys : intent[k].state # "none" => intent[k].order # None /\ intent[k].req # None
    /\ \A j, k \in Keys : intent[j].order = intent[k].order /\ intent[j].order # None => j = k

\* An order is on its way or an invoice, once, and is that of a begun intent.
OrderInv ==
    /\ \A v, w \in gateway : v.order = w.order => v = w
    /\ \A m, n \in posts : m.order = n.order => m = n
    /\ \A v \in gateway, m \in posts : v.order # m.order
    /\ \A v \in gateway : \E k \in Keys : Begun(k) /\ intent[k].order = v.order /\ intent[k].req = v.req
    /\ \A m \in posts : \E k \in Keys : Begun(k) /\ intent[k].order = m.order /\ intent[k].req = m.req

\* A row is the gateway's invoice of its order, and a ready intent has one.
RowInv ==
    /\ \A o \in Orders : rows[o] # None => rows[o] \in gateway /\ rows[o].order = o
    /\ \A k \in Keys : intent[k].state = "ready" => rows[intent[k].order] # None

\* Nothing of the order of k is on its way, and no invoice of it exists.
Unposted(k) ==
    /\ \A v \in gateway : v.order # intent[k].order
    /\ \A m \in posts : m.order # intent[k].order

Keyed == PCs \ {"idle", "reserve"}
Read == Keyed \ {"get"}

\* What a call h in progress knows about its intent.
CallInv(h) ==
    LET r == hd[h]
        i == intent[hd[h].key]
    IN /\ r.pc # "idle" => r.key \in Keys /\ r.req \in Requests
       /\ r.pc \in Keyed => i.state # "none"
       /\ r.pc \in Read => /\ r.seen.state # "none"
                           /\ r.seen.order = i.order /\ r.seen.req = i.req /\ r.req = i.req
       /\ r.pc = "resolve" /\ r.seen.state = "ready" => i.state = "ready"
       /\ r.pc \in {"post", "fail"} => i.state = "creating" /\ Unposted(r.key)
       /\ r.pc = "await" => /\ i.state = "creating"
                            /\ [from |-> h, order |-> i.order, req |-> i.req] \in posts
       /\ r.pc = "complete" => r.inv \in gateway /\ r.inv.order = i.order
       /\ r.pc = "answer" => i.state = "ready" /\ r.inv = rows[i.order]

\* One handler at most holds the right to post an order, or saw it refused.
PosterInv ==
    \A g, h \in Handlers : /\ g # h
                           /\ hd[g].pc \in {"post", "fail"} /\ hd[h].pc \in {"post", "fail"}
                           => hd[g].key # hd[h].key

\* A caller was told the row of a ready intent that he asked for.
AnswerInv ==
    \A a \in answers : /\ intent[a.key].state = "ready"
                       /\ a.inv = rows[intent[a.key].order]
                       /\ a.req = intent[a.key].req

\* The inductive invariant.
IntentInv ==
    /\ TypeOK /\ IsFiniteSet(gateway)
    /\ KeyInv /\ OrderInv /\ RowInv /\ PosterInv /\ AnswerInv
    /\ \A h \in Handlers : CallInv(h)

----------------------------------------------------------------------------
(* Steps that change one handler's local state.                            *)

LEMMA Moves ==
    ASSUME TypeOK, NEW h \in Handlers, NEW r \in Handler, hd' = [hd EXCEPT ![h] = r]
    PROVE  /\ hd' \in [Handlers -> Handler] /\ hd'[h] = r
           /\ \A g \in Handlers : g # h => hd'[g] = hd[g]
  BY DEF TypeOK

LEMMA IdleIsHandler == Idle \in Handler
  BY DEF Idle, Handler, PCs, NoIntent, Intent, States

\* A step of h that stores nothing, and takes no right to post, keeps the invariant
\* if what h knows afterwards is true; it may take the POSTs of h with it.
LEMMA LocalStep ==
    ASSUME IntentInv, NEW h \in Handlers, NEW r \in Handler,
           hd' = [hd EXCEPT ![h] = r], r.pc \notin {"post", "fail"}, CallInv(h)',
           UNCHANGED <<intent, rows, gateway, answers>>,
           posts' = posts \/ posts' = {m \in posts : m.from # h},
           calls' \in 0..MaxCalls, failures' \in 0..MaxFailures
    PROVE  IntentInv'
<1>1. hd' \in [Handlers -> Handler] /\ hd'[h] = r /\ \A g \in Handlers : g # h => hd'[g] = hd[g]
  BY Moves DEF IntentInv
<1>2. posts' \subseteq posts /\ \A m \in posts : m.from # h => m \in posts'
  OBVIOUS
<1>3. TypeOK' /\ IsFiniteSet(gateway)'
  BY <1>1, <1>2 DEF IntentInv, TypeOK
<1>4. KeyInv' /\ OrderInv' /\ RowInv' /\ AnswerInv'
  BY <1>2 DEF IntentInv, KeyInv, OrderInv, RowInv, AnswerInv, Begun
<1>5. PosterInv'
  BY <1>1 DEF IntentInv, PosterInv
<1>6. ASSUME NEW g \in Handlers, g # h PROVE CallInv(g)'
  <2>1. CallInv(g) /\ hd'[g] = hd[g]
    BY <1>1, <1>6 DEF IntentInv
  <2>2. \A m \in posts : m.from = g => m \in posts'
    BY <1>2, <1>6
  <2>3. \A k \in Keys : Unposted(k) => Unposted(k)'
    BY <1>2 DEF Unposted
  <2>4. \A o, q : [from |-> g, order |-> o, req |-> q] \in posts =>
                  [from |-> g, order |-> o, req |-> q] \in posts'
    BY <2>2
  <2>. QED
    BY <2>1, <2>3, <2>4 DEF CallInv
<1>. QED
  BY <1>3, <1>4, <1>5, <1>6 DEF IntentInv

LEMMA CreateInvoiceKeeps ==
    ASSUME IntentInv, NEW h \in Handlers, NEW k \in Keys, NEW q \in Requests, CreateInvoice(h, k, q)
    PROVE  IntentInv'
<1>1. calls' \in 0..MaxCalls /\ failures' \in 0..MaxFailures
  BY ConstantsAssumption DEF IntentInv, TypeOK, CreateInvoice
<1>2. intent[k] \in Intent
  BY DEF IntentInv, TypeOK
<1>3. CASE intent[k].state = "none"
  <2>1. hd' = [hd EXCEPT ![h] = [Idle EXCEPT !.pc = "reserve", !.key = k, !.req = q]]
    BY <1>3 DEF CreateInvoice
  <2>2. [Idle EXCEPT !.pc = "reserve", !.key = k, !.req = q] \in Handler
    BY DEF Idle, Handler, PCs, NoIntent, Intent, States
  <2>3. CallInv(h)'
    BY <2>1 DEF IntentInv, TypeOK, CallInv, Idle, Keyed, Read
  <2>. QED
    BY <1>1, <2>1, <2>2, <2>3, LocalStep DEF CreateInvoice, Idle
<1>4. CASE intent[k].state # "none"
  <2>1. /\ hd' = [hd EXCEPT ![h] = [Idle EXCEPT !.pc = "resolve", !.key = k, !.req = q, !.seen = intent[k]]]
        /\ intent[k].req = q
    BY <1>4 DEF CreateInvoice, SameRequest
  <2>2. [Idle EXCEPT !.pc = "resolve", !.key = k, !.req = q, !.seen = intent[k]] \in Handler
    BY <1>2 DEF Idle, Handler, PCs
  <2>3. CallInv(h)'
    BY <1>4, <2>1 DEF IntentInv, TypeOK, CallInv, Idle, Keyed, Read, CreateInvoice
  <2>. QED
    BY <1>1, <2>1, <2>2, <2>3, LocalStep DEF CreateInvoice, Idle
<1>. QED
  BY <1>3, <1>4

LEMMA GetInvoiceIntentKeeps ==
    ASSUME IntentInv, NEW h \in Handlers, GetInvoiceIntent(h)
    PROVE  IntentInv'
<1>0. calls' \in 0..MaxCalls /\ failures' \in 0..MaxFailures
  BY DEF IntentInv, TypeOK, GetInvoiceIntent
<1>1. /\ hd[h] \in Handler /\ CallInv(h) /\ hd[h].key \in Keys /\ intent[hd[h].key] \in Intent
      /\ hd[h].pc = "get"
  BY DEF IntentInv, TypeOK, CallInv, GetInvoiceIntent
<1>2. CASE SameRequest(intent[hd[h].key], hd[h].req)
  <2>1. hd' = [hd EXCEPT ![h] = [hd[h] EXCEPT !.pc = "resolve", !.seen = intent[hd[h].key]]]
    BY <1>2 DEF GetInvoiceIntent
  <2>2. [hd[h] EXCEPT !.pc = "resolve", !.seen = intent[hd[h].key]] \in Handler
    BY <1>1 DEF Handler, PCs
  <2>3. CallInv(h)'
    BY <1>1, <1>2, <2>1 DEF IntentInv, TypeOK, CallInv, Handler, Keyed, Read, PCs, SameRequest, GetInvoiceIntent
  <2>. QED
    BY <1>0, <1>1, <2>1, <2>2, <2>3, LocalStep DEF GetInvoiceIntent, Handler
<1>3. CASE ~SameRequest(intent[hd[h].key], hd[h].req)
  <2>1. hd' = [hd EXCEPT ![h] = Idle]
    BY <1>3 DEF GetInvoiceIntent, Return
  <2>2. CallInv(h)'
    BY <2>1 DEF IntentInv, TypeOK, CallInv, Idle, Keyed, Read
  <2>. QED
    BY <1>0, <2>1, <2>2, IdleIsHandler, LocalStep DEF GetInvoiceIntent, Idle
<1>. QED
  BY <1>2, <1>3

LEMMA ResolveKeeps ==
    ASSUME IntentInv, NEW h \in Handlers, resolveInvoiceIntent(h)
    PROVE  IntentInv'
<1> DEFINE i == hd[h].seen
           r == CASE i.state = "ready"    -> [hd[h] EXCEPT !.pc = "answer", !.inv = rows[i.order]]
                  [] i.state = "failed"   -> Idle
                  [] i.state = "reserved" -> [hd[h] EXCEPT !.pc = "begin"]
                  [] OTHER                -> [hd[h] EXCEPT !.pc = "lookup"]
<1>0. calls' \in 0..MaxCalls /\ failures' \in 0..MaxFailures
  BY DEF IntentInv, TypeOK, resolveInvoiceIntent
<1>1. /\ hd[h] \in Handler /\ CallInv(h) /\ hd[h].pc = "resolve" /\ hd[h].key \in Keys
      /\ intent[hd[h].key] \in Intent /\ KeyInv
  BY DEF IntentInv, TypeOK, CallInv, resolveInvoiceIntent
<1>2. hd' = [hd EXCEPT ![h] = r]
  BY DEF resolveInvoiceIntent
<1>3. i.order \in Orders /\ rows[i.order] \in Invoice \cup {None}
  BY <1>1 DEF CallInv, Read, Keyed, PCs, KeyInv, Intent, IntentInv, TypeOK
<1>4. r \in Handler
  BY <1>1, <1>3, IdleIsHandler DEF Handler, PCs
<1>5. r.pc \notin {"post", "fail"}
  BY <1>1 DEF Handler, Idle
<1>6. CallInv(h)'
  <2>1. hd'[h] = r
    BY <1>2 DEF IntentInv, TypeOK
  <2>2. UNCHANGED <<intent, rows>>
    BY DEF resolveInvoiceIntent
  <2>3. CASE i.state = "ready"
    <3>1. hd'[h] = [hd[h] EXCEPT !.pc = "answer", !.inv = rows[i.order]]
      BY <2>1, <2>3
    <3>2. /\ hd'[h].pc = "answer" /\ hd'[h].key = hd[h].key /\ hd'[h].req = hd[h].req
          /\ hd'[h].seen = hd[h].seen /\ hd'[h].inv = rows[hd[h].seen.order]
      BY <1>1, <3>1 DEF Handler
    <3>3. intent[hd[h].key].state = "ready"
      BY <1>1, <2>3 DEF CallInv
    <3>. QED
      BY <1>1, <2>2, <3>2, <3>3 DEF CallInv, Keyed, Read, PCs
  <2>4. CASE i.state = "failed"
    BY <2>1, <2>4 DEF CallInv, Idle, Keyed, Read
  <2>5. CASE i.state \notin {"ready", "failed"}
    <3>1. hd'[h] = [hd[h] EXCEPT !.pc = "begin"] \/ hd'[h] = [hd[h] EXCEPT !.pc = "lookup"]
      BY <2>1, <2>5
    <3>2. /\ hd'[h].pc \in {"begin", "lookup"} /\ hd'[h].key = hd[h].key /\ hd'[h].req = hd[h].req
          /\ hd'[h].seen = hd[h].seen
      BY <1>1, <3>1 DEF Handler
    <3>. QED
      BY <1>1, <2>2, <3>2 DEF CallInv, Keyed, Read, PCs
  <2>. QED
    BY <2>3, <2>4, <2>5
<1>. QED
  BY <1>0, <1>2, <1>4, <1>5, <1>6, LocalStep DEF resolveInvoiceIntent

LEMMA LookupKeeps ==
    ASSUME IntentInv, NEW h \in Handlers, LookupInvoice(h)
    PROVE  IntentInv'
<1> DEFINE found == {v \in gateway : v.order = hd[h].seen.order}
<1>0. calls' \in 0..MaxCalls /\ failures' \in 0..MaxFailures
  BY DEF IntentInv, TypeOK, LookupInvoice
<1>1. hd[h] \in Handler /\ CallInv(h) /\ hd[h].pc = "lookup"
  BY DEF IntentInv, TypeOK, LookupInvoice
<1>2. ASSUME NEW v \in found, hd' = [hd EXCEPT ![h] = [hd[h] EXCEPT !.pc = "complete", !.inv = v]]
      PROVE  IntentInv'
  <2>1. [hd[h] EXCEPT !.pc = "complete", !.inv = v] \in Handler
    BY <1>1 DEF Handler, PCs, IntentInv, TypeOK
  <2>2. CallInv(h)'
    BY <1>1, <1>2 DEF IntentInv, TypeOK, CallInv, Handler, Keyed, Read, PCs, LookupInvoice
  <2>. QED
    BY <1>0, <1>1, <1>2, <2>1, <2>2, LocalStep DEF LookupInvoice, Handler
<1>3. ASSUME hd' = [hd EXCEPT ![h] = Idle]
      PROVE  IntentInv'
  <2>1. CallInv(h)'
    BY <1>3 DEF IntentInv, TypeOK, CallInv, Idle, Keyed, Read
  <2>. QED
    BY <1>0, <1>3, <2>1, IdleIsHandler, LocalStep DEF LookupInvoice, Idle
<1>. QED
  BY <1>2, <1>3 DEF LookupInvoice, Return

\* An ambiguous POST, and a call that ends before its time.
LEMMA FailureKeeps ==
    ASSUME IntentInv, NEW h \in Handlers, PostIsAmbiguous(h) \/ Crash(h)
    PROVE  IntentInv'
<1>0. /\ calls' \in 0..MaxCalls /\ failures' \in 0..MaxFailures
      /\ UNCHANGED <<intent, rows, gateway, answers>>
      /\ posts' = posts \/ posts' = {m \in posts : m.from # h}
  BY ConstantsAssumption DEF IntentInv, TypeOK, PostIsAmbiguous, Crash, Failing, PostMayBeLost
<1>1. hd[h] \in Handler /\ CallInv(h)
  BY DEF IntentInv, TypeOK
<1>2. CASE PostIsAmbiguous(h)
  <2>1. hd' = [hd EXCEPT ![h] = [hd[h] EXCEPT !.pc = "lookup"]] /\ hd[h].pc = "await"
    BY <1>2 DEF PostIsAmbiguous, Goto
  <2>2. [hd[h] EXCEPT !.pc = "lookup"] \in Handler
    BY <1>1 DEF Handler, PCs
  <2>3. CallInv(h)'
    BY <1>0, <1>1, <2>1 DEF IntentInv, TypeOK, CallInv, Handler, Keyed, Read, PCs
  <2>. QED
    BY <1>0, <1>1, <2>1, <2>2, <2>3, LocalStep DEF Handler
<1>3. CASE Crash(h)
  <2>1. hd' = [hd EXCEPT ![h] = Idle]
    BY <1>3 DEF Crash, Return
  <2>2. CallInv(h)'
    BY <2>1 DEF IntentInv, TypeOK, CallInv, Idle, Keyed, Read
  <2>. QED
    BY <1>0, <2>1, <2>2, IdleIsHandler, LocalStep DEF Idle
<1>. QED
  BY <1>2, <1>3

----------------------------------------------------------------------------
(* Steps that store something.                                             *)

\* An order that is on its way, or an invoice, is no other key's.
LEMMA UnbegunIsUnposted ==
    ASSUME IntentInv, NEW k \in Keys, ~Begun(k), intent[k].state # "none"
    PROVE  Unposted(k)
  BY DEF IntentInv, KeyInv, OrderInv, Unposted, TypeOK, Invoice

LEMMA ReserveKeeps ==
    ASSUME IntentInv, NEW h \in Handlers, ReserveInvoiceIntent(h)
    PROVE  IntentInv'
<1> DEFINE k == hd[h].key
<1>1. /\ hd[h] \in Handler /\ CallInv(h) /\ hd[h].pc = "reserve" /\ k \in Keys /\ hd[h].req \in Requests
      /\ TypeOK /\ KeyInv /\ OrderInv /\ RowInv /\ AnswerInv /\ PosterInv
      /\ UNCHANGED <<rows, gateway, posts, answers, calls, failures>>
  BY DEF IntentInv, TypeOK, CallInv, ReserveInvoiceIntent
<1>2. /\ hd' = [hd EXCEPT ![h] = [hd[h] EXCEPT !.pc = "get"]]
      /\ [hd[h] EXCEPT !.pc = "get"] \in Handler
  BY <1>1 DEF ReserveInvoiceIntent, Goto, Handler, PCs
<1>3. hd' \in [Handlers -> Handler] /\ hd'[h] = [hd[h] EXCEPT !.pc = "get"]
      /\ \A g \in Handlers : g # h => hd'[g] = hd[g]
  BY <1>1, <1>2, Moves
<1>4. CASE intent[k].state # "none"
  <2>1. UNCHANGED intent
    BY <1>4 DEF ReserveInvoiceIntent
  <2>2. CallInv(h)'
    BY <1>1, <1>3, <1>4, <2>1 DEF CallInv, Handler, Keyed, Read, PCs
  <2>. QED
    BY <1>1, <1>2, <2>1, <2>2, LocalStep DEF TypeOK, Handler
<1>5. CASE intent[k].state = "none"
  <2>1. PICK o \in Orders \ {intent[j].order : j \in Keys} :
          intent' = [intent EXCEPT ![k] = [state |-> "reserved", req |-> hd[h].req, order |-> o]]
    BY <1>5 DEF ReserveInvoiceIntent
  <2>2. /\ intent'[k] = [state |-> "reserved", req |-> hd[h].req, order |-> o]
        /\ \A j \in Keys : j # k => intent'[j] = intent[j]
        /\ \A j \in Keys : intent[j].order # o
        /\ intent' \in [Keys -> Intent]
    BY <1>1, <2>1 DEF TypeOK, Intent, States
  <2>3. TypeOK' /\ IsFiniteSet(gateway)'
    BY <1>1, <1>3, <2>2 DEF TypeOK, IntentInv
  <2>4. KeyInv'
    BY <1>1, <2>2, ConstantsAssumption DEF KeyInv
  <2>5. \A j \in Keys : intent[j].state # "none" => intent'[j] = intent[j]
    BY <1>5, <2>2
  <2>6. OrderInv'
    BY <1>1, <2>5 DEF OrderInv, Begun
  <2>7. RowInv' /\ AnswerInv'
    BY <1>1, <2>2, <2>5 DEF RowInv, AnswerInv, TypeOK
  <2>8. PosterInv'
    BY <1>1, <1>3 DEF PosterInv, Handler
  <2>9. ASSUME NEW g \in Handlers PROVE CallInv(g)'
    <3>1. CASE g = h
      BY <1>1, <1>3, <2>2, <3>1 DEF CallInv, Handler, Keyed, Read, PCs
    <3>2. CASE g # h
      <4>1. CallInv(g) /\ hd'[g] = hd[g]
        BY <1>3, <3>2 DEF IntentInv
      <4>2. hd[g].pc \in Keyed => intent'[hd[g].key] = intent[hd[g].key]
        BY <2>5, <4>1 DEF CallInv, Keyed
      <4>3. hd[g].pc \in Keyed /\ Unposted(hd[g].key) => Unposted(hd[g].key)'
        BY <1>1, <4>1, <4>2 DEF Unposted
      <4>. QED
        BY <1>1, <4>1, <4>2, <4>3 DEF CallInv, Keyed, Read, PCs
    <3>. QED
      BY <3>1, <3>2
  <2>. QED
    BY <2>3, <2>4, <2>6, <2>7, <2>8, <2>9 DEF IntentInv
<1>. QED
  BY <1>4, <1>5

LEMMA BeginKeeps ==
    ASSUME IntentInv, NEW h \in Handlers, BeginInvoiceCreate(h)
    PROVE  IntentInv'
<1> DEFINE k == hd[h].key
<1>1. /\ hd[h] \in Handler /\ CallInv(h) /\ hd[h].pc = "begin" /\ k \in Keys
      /\ TypeOK /\ KeyInv /\ OrderInv /\ RowInv /\ AnswerInv /\ PosterInv
      /\ UNCHANGED <<rows, gateway, posts, answers, calls, failures>>
  BY DEF IntentInv, TypeOK, CallInv, BeginInvoiceCreate
<1>2. CASE intent[k].state # "reserved"
  <2>1. UNCHANGED intent /\ hd' = [hd EXCEPT ![h] = [hd[h] EXCEPT !.pc = "lookup"]]
    BY <1>2 DEF BeginInvoiceCreate, Goto
  <2>2. [hd[h] EXCEPT !.pc = "lookup"] \in Handler
    BY <1>1 DEF Handler, PCs
  <2>3. CallInv(h)'
    BY <1>1, <2>1 DEF CallInv, Handler, Keyed, Read, PCs, TypeOK
  <2>. QED
    BY <1>1, <2>1, <2>2, <2>3, LocalStep DEF TypeOK, Handler
<1>3. CASE intent[k].state = "reserved"
  <2>1. /\ intent' = [intent EXCEPT ![k] = [intent[k] EXCEPT !.state = "creating"]]
        /\ hd' = [hd EXCEPT ![h] = [hd[h] EXCEPT !.pc = "post"]]
    BY <1>3 DEF BeginInvoiceCreate, Goto
  <2>2. [hd[h] EXCEPT !.pc = "post"] \in Handler /\ intent[k] \in Intent
    BY <1>1 DEF Handler, PCs, TypeOK
  <2>3. /\ hd' \in [Handlers -> Handler] /\ hd'[h] = [hd[h] EXCEPT !.pc = "post"]
        /\ \A g \in Handlers : g # h => hd'[g] = hd[g]
    BY <1>1, <2>1, <2>2, Moves
  <2>4. /\ intent'[k].state = "creating" /\ intent' \in [Keys -> Intent]
        /\ \A j \in Keys : j # k => intent'[j] = intent[j]
        /\ \A j \in Keys : intent'[j].order = intent[j].order /\ intent'[j].req = intent[j].req
    BY <1>1, <2>1, <2>2 DEF TypeOK, Intent, States
  <2>5. TypeOK' /\ IsFiniteSet(gateway)'
    BY <1>1, <2>3, <2>4 DEF TypeOK, IntentInv
  <2>6. KeyInv'
    BY <1>1, <1>3, <2>4 DEF KeyInv
  <2>7. OrderInv'
    BY <1>1, <2>4 DEF OrderInv, Begun
  <2>8. RowInv' /\ AnswerInv'
    BY <1>1, <1>3, <2>4 DEF RowInv, AnswerInv, TypeOK
  <2>9. PosterInv'
    <3>1. \A g \in Handlers : g # h /\ hd[g].pc \in {"post", "fail"} => hd[g].key # k
      BY <1>3 DEF IntentInv, CallInv
    <3>. QED
      BY <1>1, <2>3, <3>1 DEF PosterInv, Handler
  <2>10. Unposted(k)
    BY <1>1, <1>3, UnbegunIsUnposted DEF Begun
  <2>11. \A j \in Keys : Unposted(j) => Unposted(j)'
    BY <1>1, <2>4 DEF Unposted
  <2>12. ASSUME NEW g \in Handlers PROVE CallInv(g)'
    <3>1. CASE g = h
      BY <1>1, <2>3, <2>4, <2>10, <2>11, <3>1 DEF CallInv, Handler, Keyed, Read, PCs
    <3>2. CASE g # h
      <4>1. CallInv(g) /\ hd'[g] = hd[g]
        BY <2>3, <3>2 DEF IntentInv
      <4>. QED
        BY <1>1, <1>3, <2>4, <2>11, <4>1 DEF CallInv, Keyed, Read, PCs
    <3>. QED
      BY <3>1, <3>2
  <2>. QED
    BY <2>5, <2>6, <2>7, <2>8, <2>9, <2>12 DEF IntentInv
<1>. QED
  BY <1>2, <1>3

LEMMA PostKeeps ==
    ASSUME IntentInv, NEW h \in Handlers, PostInvoice(h)
    PROVE  IntentInv'
<1> DEFINE k == hd[h].key
           n == [from |-> h, order |-> intent[k].order, req |-> intent[k].req]
<1>1. /\ hd[h] \in Handler /\ CallInv(h) /\ hd[h].pc = "post" /\ k \in Keys
      /\ TypeOK /\ KeyInv /\ OrderInv /\ RowInv /\ AnswerInv /\ PosterInv
      /\ UNCHANGED <<intent, rows, gateway, answers, calls, failures>>
  BY DEF IntentInv, TypeOK, CallInv, PostInvoice
<1>2. /\ intent[k].state = "creating" /\ Unposted(k)
      /\ hd[h].seen.order = intent[k].order /\ hd[h].seen.req = intent[k].req
      /\ intent[k].order \in Orders /\ intent[k].req \in Requests
  BY <1>1 DEF CallInv, Keyed, Read, PCs, KeyInv, TypeOK, Intent
<1>3. posts' = posts \cup {n}
  BY <1>2 DEF PostInvoice
<1>4. /\ hd' = [hd EXCEPT ![h] = [hd[h] EXCEPT !.pc = "await"]]
      /\ [hd[h] EXCEPT !.pc = "await"] \in Handler
  BY <1>1 DEF PostInvoice, Goto, Handler, PCs
<1>5. /\ hd' \in [Handlers -> Handler] /\ hd'[h] = [hd[h] EXCEPT !.pc = "await"]
      /\ \A g \in Handlers : g # h => hd'[g] = hd[g]
  BY <1>1, <1>4, Moves
<1>6. TypeOK' /\ IsFiniteSet(gateway)'
  BY <1>1, <1>2, <1>3, <1>5 DEF TypeOK, IntentInv
<1>7. KeyInv' /\ RowInv' /\ AnswerInv'
  BY <1>1 DEF KeyInv, RowInv, AnswerInv
<1>8. OrderInv'
  BY <1>1, <1>2, <1>3 DEF OrderInv, Begun, Unposted
<1>9. PosterInv'
  BY <1>1, <1>5 DEF PosterInv, Handler
<1>10. ASSUME NEW g \in Handlers PROVE CallInv(g)'
  <2>1. CASE g = h
    BY <1>1, <1>2, <1>3, <1>5, <2>1 DEF CallInv, Handler, Keyed, Read, PCs
  <2>2. CASE g # h
    <3>1. CallInv(g) /\ hd'[g] = hd[g]
      BY <1>5, <2>2 DEF IntentInv
    <3>2. hd[g].pc \in {"post", "fail"} => hd[g].key # k /\ hd[g].key \in Keys
      BY <1>1, <2>2, <3>1 DEF PosterInv, CallInv
    <3>3. hd[g].pc \in {"post", "fail"} /\ Unposted(hd[g].key) => Unposted(hd[g].key)'
      BY <1>1, <1>2, <1>3, <3>1, <3>2, ConstantsAssumption DEF Unposted, KeyInv
    <3>. QED
      BY <1>1, <1>3, <3>1, <3>3 DEF CallInv, Keyed, Read, PCs
  <2>. QED
    BY <2>1, <2>2
<1>. QED
  BY <1>6, <1>7, <1>8, <1>9, <1>10 DEF IntentInv

\* The invoice that the gateway opens for a POST.
LEMMA GatewayCreatesKeeps ==
    ASSUME IntentInv, NEW m \in posts, GatewayCreates(m)
    PROVE  IntentInv'
<1> DEFINE inv == [order |-> m.order, req |-> m.req, nr |-> Cardinality(gateway)]
           h == m.from
<1>1. /\ TypeOK /\ KeyInv /\ OrderInv /\ RowInv /\ AnswerInv /\ PosterInv
      /\ UNCHANGED <<intent, rows, answers, calls, failures>>
      /\ h \in Handlers /\ m.order \in Orders /\ m.req \in Requests
      /\ gateway' = gateway \cup {inv} /\ posts' = posts \ {m}
  BY DEF IntentInv, TypeOK, GatewayCreates
<1>2. inv \in Invoice /\ IsFiniteSet(gateway')
  BY <1>1, FS_CardinalityType, FS_AddElement DEF IntentInv, Invoice
<1>3. /\ hd' \in [Handlers -> Handler]
      /\ \A g \in Handlers : g # h => hd'[g] = hd[g]
      /\ Waiting(m) => hd'[h] = [hd[h] EXCEPT !.pc = "complete", !.inv = inv]
      /\ ~Waiting(m) => hd' = hd
  <2>1. hd[h] \in Handler
    BY <1>1 DEF TypeOK
  <2>2. [hd[h] EXCEPT !.pc = "complete", !.inv = inv] \in Handler
    BY <1>2, <2>1 DEF Handler, PCs
  <2>3. CASE Waiting(m)
    BY <1>1, <2>2, <2>3, Moves DEF GatewayCreates
  <2>4. CASE ~Waiting(m)
    BY <1>1, <2>4 DEF GatewayCreates, TypeOK
  <2>. QED
    BY <2>3, <2>4
<1>4. TypeOK'
  BY <1>1, <1>2, <1>3 DEF TypeOK
<1>5. KeyInv' /\ RowInv' /\ AnswerInv'
  BY <1>1 DEF KeyInv, RowInv, AnswerInv
<1>6. OrderInv'
  BY <1>1 DEF OrderInv, Begun
<1>7. PosterInv'
  <2>1. \A g \in Handlers : hd'[g].pc \in {"post", "fail"} => hd'[g] = hd[g]
    BY <1>1, <1>3 DEF Handler, TypeOK
  <2>. QED
    BY <1>1, <2>1 DEF PosterInv
<1>8. ASSUME NEW k \in Keys, Unposted(k) PROVE Unposted(k)'
  BY <1>1, <1>8 DEF Unposted
<1>9. ASSUME NEW g \in Handlers PROVE CallInv(g)'
  <2>1. CASE g = h /\ Waiting(m)
    <3>1. /\ hd[g] \in Handler /\ hd[g].pc = "await" /\ hd[g].seen.order = m.order /\ CallInv(g)
          /\ hd'[g] = [hd[g] EXCEPT !.pc = "complete", !.inv = inv]
      BY <1>1, <1>3, <2>1 DEF Waiting, IntentInv, TypeOK
    <3>. QED
      BY <1>1, <3>1 DEF CallInv, Handler, Keyed, Read, PCs
  <2>2. CASE ~(g = h /\ Waiting(m))
    <3>1. CallInv(g) /\ hd'[g] = hd[g]
      BY <1>3, <2>2 DEF IntentInv
    <3>2. hd[g].pc = "await" => ~(m.from = g /\ m.order = intent[hd[g].key].order)
      BY <2>2, <3>1 DEF Waiting, CallInv, Keyed, Read, PCs
    <3>3. hd[g].pc = "await" => [from |-> g, order |-> intent[hd[g].key].order,
                                  req |-> intent[hd[g].key].req] \in posts'
      BY <1>1, <3>1, <3>2 DEF CallInv
    <3>. QED
      BY <1>1, <1>8, <3>1, <3>3 DEF CallInv, Keyed, Read, PCs
  <2>. QED
    BY <2>1, <2>2
<1>. QED
  BY <1>2, <1>4, <1>5, <1>6, <1>7, <1>9 DEF IntentInv

LEMMA GatewayRejectsKeeps ==
    ASSUME IntentInv, NEW m \in posts, GatewayRejects(m)
    PROVE  IntentInv'
<1> DEFINE h == m.from
<1>1. /\ TypeOK /\ KeyInv /\ OrderInv /\ RowInv /\ AnswerInv /\ PosterInv
      /\ UNCHANGED <<intent, rows, gateway, answers, calls, failures>>
      /\ h \in Handlers /\ posts' = posts \ {m}
  BY DEF IntentInv, TypeOK, GatewayRejects
<1>2. /\ hd' \in [Handlers -> Handler]
      /\ \A g \in Handlers : g # h => hd'[g] = hd[g]
      /\ Waiting(m) => hd'[h] = [hd[h] EXCEPT !.pc = "fail"]
      /\ ~Waiting(m) => hd' = hd
  <2>1. [hd[h] EXCEPT !.pc = "fail"] \in Handler
    BY <1>1 DEF Handler, PCs, TypeOK
  <2>2. CASE Waiting(m)
    BY <1>1, <2>1, <2>2, Moves DEF GatewayRejects
  <2>3. CASE ~Waiting(m)
    BY <1>1, <2>3 DEF GatewayRejects, TypeOK
  <2>. QED
    BY <2>2, <2>3
<1>3. TypeOK' /\ IsFiniteSet(gateway)'
  BY <1>1, <1>2 DEF TypeOK, IntentInv
<1>4. KeyInv' /\ OrderInv' /\ RowInv' /\ AnswerInv'
  BY <1>1 DEF KeyInv, OrderInv, RowInv, AnswerInv, Begun
<1>5. \A k \in Keys : Unposted(k) => Unposted(k)'
  BY <1>1 DEF Unposted
<1>6. Waiting(m) => /\ hd[h] \in Handler /\ hd[h].pc = "await" /\ hd[h].key \in Keys
                    /\ CallInv(h) /\ m.order = intent[hd[h].key].order
  BY <1>1 DEF Waiting, IntentInv, TypeOK, CallInv, Keyed, Read, PCs
<1>7. PosterInv'
  <2>1. \A g \in Handlers : Waiting(m) /\ hd[g].pc \in {"post", "fail"} => hd[g].key # hd[h].key
    BY <1>6 DEF IntentInv, CallInv, Unposted
  <2>. QED
    BY <1>1, <1>2, <1>6, <2>1 DEF PosterInv, Handler
<1>8. ASSUME NEW g \in Handlers PROVE CallInv(g)'
  <2>1. CASE g = h /\ Waiting(m)
    <3>1. hd'[g].key = hd[g].key
      BY <1>2, <1>6, <2>1 DEF Handler
    <3>2. Unposted(hd[g].key)'
      BY <1>1, <1>6, <2>1, <3>1 DEF Unposted, OrderInv
    <3>. QED
      BY <1>1, <1>2, <1>6, <2>1, <3>2 DEF CallInv, Handler, Keyed, Read, PCs
  <2>2. CASE ~(g = h /\ Waiting(m))
    <3>1. CallInv(g) /\ hd'[g] = hd[g]
      BY <1>2, <2>2 DEF IntentInv
    <3>2. hd[g].pc = "await" => ~(m.from = g /\ m.order = intent[hd[g].key].order)
      BY <2>2, <3>1 DEF Waiting, CallInv, Keyed, Read, PCs
    <3>3. hd[g].pc = "await" => [from |-> g, order |-> intent[hd[g].key].order,
                                  req |-> intent[hd[g].key].req] \in posts'
      BY <1>1, <3>1, <3>2 DEF CallInv
    <3>. QED
      BY <1>1, <1>5, <3>1, <3>3 DEF CallInv, Keyed, Read, PCs
  <2>. QED
    BY <2>1, <2>2
<1>. QED
  BY <1>3, <1>4, <1>7, <1>8 DEF IntentInv

LEMMA FailKeeps ==
    ASSUME IntentInv, NEW h \in Handlers, FailInvoiceCreate(h)
    PROVE  IntentInv'
<1> DEFINE k == hd[h].key
<1>1. /\ hd[h] \in Handler /\ CallInv(h) /\ hd[h].pc = "fail" /\ k \in Keys
      /\ TypeOK /\ KeyInv /\ OrderInv /\ RowInv /\ AnswerInv /\ PosterInv
      /\ UNCHANGED <<rows, gateway, posts, answers, calls, failures>>
  BY DEF IntentInv, TypeOK, CallInv, FailInvoiceCreate
<1>2. /\ intent' = [intent EXCEPT ![k] = [intent[k] EXCEPT !.state = "failed"]]
      /\ hd' = [hd EXCEPT ![h] = Idle]
  BY DEF FailInvoiceCreate, Return
<1>3. /\ hd' \in [Handlers -> Handler] /\ hd'[h] = Idle
      /\ \A g \in Handlers : g # h => hd'[g] = hd[g]
  BY <1>1, <1>2, IdleIsHandler, Moves
<1>4. intent[k].state = "creating" /\ Unposted(k) /\ intent[k].order \in Orders
  BY <1>1 DEF CallInv, KeyInv, TypeOK, Intent
<1>5. /\ intent'[k].state = "failed" /\ intent' \in [Keys -> Intent]
      /\ \A j \in Keys : j # k => intent'[j] = intent[j]
      /\ \A j \in Keys : intent'[j].order = intent[j].order /\ intent'[j].req = intent[j].req
  BY <1>1, <1>2 DEF TypeOK, Intent, States
<1>6. TypeOK' /\ IsFiniteSet(gateway)'
  BY <1>1, <1>3, <1>5 DEF TypeOK, IntentInv
<1>7. KeyInv'
  BY <1>1, <1>4, <1>5 DEF KeyInv
<1>8. OrderInv'
  BY <1>1, <1>4, <1>5 DEF OrderInv, Begun, Unposted
<1>9. RowInv' /\ AnswerInv'
  BY <1>1, <1>4, <1>5 DEF RowInv, AnswerInv, TypeOK
<1>10. PosterInv'
  BY <1>1, <1>3 DEF PosterInv, Idle
<1>11. \A j \in Keys : Unposted(j) => Unposted(j)'
  BY <1>1, <1>5 DEF Unposted
<1>12. rows[intent[k].order] = None
  BY <1>1, <1>4 DEF RowInv, Unposted
<1>13. ASSUME NEW g \in Handlers PROVE CallInv(g)'
  <2>1. CASE g = h
    BY <1>3, <2>1 DEF CallInv, Idle, Keyed, Read
  <2>2. CASE g # h
    <3>1. CallInv(g) /\ hd'[g] = hd[g]
      BY <1>3, <2>2 DEF IntentInv
    <3>2. CASE hd[g].key # k
      BY <1>1, <1>5, <1>11, <3>1, <3>2 DEF CallInv, Keyed, Read, PCs
    <3>3. CASE hd[g].key = k
      <4>1. hd[g].pc \notin {"post", "fail", "complete", "await", "answer"}
        BY <1>1, <1>4, <2>2, <3>1, <3>3 DEF CallInv, PosterInv, Unposted
      <4>2. ~(hd[g].pc = "resolve" /\ hd[g].seen.state = "ready")
        BY <1>4, <3>1, <3>3 DEF CallInv
      <4>. QED
        BY <1>1, <1>5, <3>1, <3>3, <4>1, <4>2 DEF CallInv, Keyed, Read, PCs
    <3>. QED
      BY <3>2, <3>3
  <2>. QED
    BY <2>1, <2>2
<1>. QED
  BY <1>6, <1>7, <1>8, <1>9, <1>10, <1>13 DEF IntentInv

LEMMA CompleteKeeps ==
    ASSUME IntentInv, NEW h \in Handlers, CompleteInvoiceCreate(h)
    PROVE  IntentInv'
<1> DEFINE k == hd[h].key
           o == intent[k].order
           v == hd[h].inv
<1>1. /\ hd[h] \in Handler /\ CallInv(h) /\ hd[h].pc = "complete" /\ k \in Keys
      /\ TypeOK /\ KeyInv /\ OrderInv /\ RowInv /\ AnswerInv /\ PosterInv
      /\ UNCHANGED <<gateway, posts, answers, calls, failures>>
  BY DEF IntentInv, TypeOK, CallInv, CompleteInvoiceCreate
<1>2. v \in gateway /\ v \in Invoice /\ v.order = o /\ o \in Orders /\ intent[k].state # "none"
  BY <1>1 DEF CallInv, Keyed, Read, PCs, TypeOK, Invoice
<1>3. Begun(k)
  BY <1>1, <1>2, UnbegunIsUnposted DEF Unposted
<1>4. /\ intent' = [intent EXCEPT ![k] = [intent[k] EXCEPT !.state = "ready"]]
      /\ hd' = [hd EXCEPT ![h] = [hd[h] EXCEPT !.pc = "answer"]]
      /\ rows' = IF rows[o] = None THEN [rows EXCEPT ![o] = v] ELSE rows
  BY <1>2 DEF CompleteInvoiceCreate, Goto
<1>5. [hd[h] EXCEPT !.pc = "answer"] \in Handler
  BY <1>1 DEF Handler, PCs
<1>6. /\ hd' \in [Handlers -> Handler] /\ hd'[h] = [hd[h] EXCEPT !.pc = "answer"]
      /\ \A g \in Handlers : g # h => hd'[g] = hd[g]
  BY <1>1, <1>4, <1>5, Moves
<1>7. /\ intent'[k].state = "ready" /\ intent' \in [Keys -> Intent]
      /\ \A j \in Keys : j # k => intent'[j] = intent[j]
      /\ \A j \in Keys : intent'[j].order = intent[j].order /\ intent'[j].req = intent[j].req
  BY <1>1, <1>4 DEF TypeOK, Intent, States
<1>8. /\ rows' \in [Orders -> Invoice \cup {None}]
      /\ rows'[o] = v /\ rows'[o] # None
      /\ \A x \in Orders : rows[x] # None => rows'[x] = rows[x]
      /\ \A x \in Orders : rows'[x] # None => rows'[x] \in gateway /\ rows'[x].order = x
  <2>1. v # None
    BY <1>2, NoInvoiceAssumption
  <2>2. CASE rows[o] = None
    BY <1>1, <1>2, <1>4, <2>1, <2>2 DEF TypeOK, RowInv
  <2>3. CASE rows[o] # None
    BY <1>1, <1>2, <1>4, <2>3 DEF TypeOK, RowInv, OrderInv
  <2>. QED
    BY <2>2, <2>3
<1>9. TypeOK' /\ IsFiniteSet(gateway)'
  BY <1>1, <1>6, <1>7, <1>8 DEF TypeOK, IntentInv
<1>10. KeyInv'
  BY <1>1, <1>2, <1>7 DEF KeyInv
<1>11. OrderInv'
  BY <1>1, <1>7 DEF OrderInv, Begun
<1>12. \A j \in Keys : intent[j].state = "ready" =>
          /\ rows'[intent[j].order] = rows[intent[j].order] /\ rows[intent[j].order] # None
          /\ intent'[j].state = "ready" /\ intent[j].order \in Orders
  BY <1>1, <1>7, <1>8 DEF RowInv, KeyInv, TypeOK, Intent
<1>13. RowInv'
  BY <1>1, <1>7, <1>8, <1>12 DEF RowInv
<1>14. AnswerInv'
  BY <1>1, <1>7, <1>12 DEF AnswerInv, TypeOK
<1>15. PosterInv'
  BY <1>1, <1>6 DEF PosterInv, Handler
<1>16. \A j \in Keys : Unposted(j) => Unposted(j)'
  BY <1>1, <1>7 DEF Unposted
<1>17. ASSUME NEW g \in Handlers PROVE CallInv(g)'
  <2>1. CASE g = h
    BY <1>1, <1>6, <1>7, <1>8, <2>1 DEF CallInv, Handler, Keyed, Read, PCs
  <2>2. CASE g # h
    <3>1. CallInv(g) /\ hd'[g] = hd[g]
      BY <1>6, <2>2 DEF IntentInv
    <3>2. hd[g].pc \in {"post", "fail", "await"} => hd[g].key # k
      BY <1>1, <1>2, <3>1 DEF CallInv, Unposted, OrderInv
    <3>3. hd[g].pc = "answer" => rows'[intent[hd[g].key].order] = rows[intent[hd[g].key].order]
      BY <1>12, <3>1 DEF CallInv
    <3>4. hd[g].pc # "idle" => hd[g].key \in Keys
      BY <3>1 DEF CallInv
    <3>. QED
      BY <1>1, <1>7, <1>16, <3>1, <3>2, <3>3, <3>4 DEF CallInv, Keyed, Read, PCs
  <2>. QED
    BY <2>1, <2>2
<1>. QED
  BY <1>9, <1>10, <1>11, <1>13, <1>14, <1>15, <1>17 DEF IntentInv

LEMMA AnswerKeeps ==
    ASSUME IntentInv, NEW h \in Handlers, Answer(h)
    PROVE  IntentInv'
<1> DEFINE a == [key |-> hd[h].key, req |-> hd[h].req, inv |-> hd[h].inv]
<1>1. /\ hd[h] \in Handler /\ CallInv(h) /\ hd[h].pc = "answer" /\ hd[h].key \in Keys /\ hd[h].req \in Requests
      /\ TypeOK /\ KeyInv /\ OrderInv /\ RowInv /\ AnswerInv /\ PosterInv
      /\ UNCHANGED <<intent, rows, gateway, posts, calls, failures>>
      /\ answers' = answers \cup {a} /\ hd' = [hd EXCEPT ![h] = Idle]
  BY DEF IntentInv, TypeOK, CallInv, Answer, Return
<1>2. /\ hd' \in [Handlers -> Handler] /\ hd'[h] = Idle
      /\ \A g \in Handlers : g # h => hd'[g] = hd[g]
  BY <1>1, IdleIsHandler, Moves
<1>3. /\ intent[a.key].state = "ready" /\ a.inv = rows[intent[a.key].order]
      /\ a.req = intent[a.key].req /\ a.inv \in Invoice
  BY <1>1 DEF CallInv, Keyed, Read, PCs, RowInv, KeyInv, TypeOK, Intent
<1>4. TypeOK' /\ IsFiniteSet(gateway)'
  BY <1>1, <1>2, <1>3 DEF TypeOK, IntentInv
<1>5. KeyInv' /\ OrderInv' /\ RowInv'
  BY <1>1 DEF KeyInv, OrderInv, RowInv, Begun
<1>6. AnswerInv'
  BY <1>1, <1>3 DEF AnswerInv
<1>7. PosterInv'
  BY <1>1, <1>2 DEF PosterInv, Idle
<1>8. ASSUME NEW g \in Handlers PROVE CallInv(g)'
  <2>1. CASE g = h
    BY <1>2, <2>1 DEF CallInv, Idle, Keyed, Read
  <2>2. CASE g # h
    BY <1>1, <1>2, <2>2 DEF IntentInv, CallInv, Unposted
  <2>. QED
    BY <2>1, <2>2
<1>. QED
  BY <1>4, <1>5, <1>6, <1>7, <1>8 DEF IntentInv

----------------------------------------------------------------------------
(* Theorems.                                                               *)

LEMMA InitIsIntentInv == Init => IntentInv
<1> SUFFICES ASSUME Init PROVE IntentInv
  OBVIOUS
<1>1. TypeOK
  BY ConstantsAssumption, IdleIsHandler DEF Init, TypeOK, NoIntent, Intent, States
<1>2. IsFiniteSet(gateway)
  BY FS_EmptySet DEF Init
<1>3. KeyInv /\ OrderInv /\ RowInv /\ PosterInv /\ AnswerInv
  BY DEF Init, KeyInv, OrderInv, RowInv, PosterInv, AnswerInv, NoIntent, Idle
<1>4. \A h \in Handlers : CallInv(h)
  BY DEF Init, CallInv, Idle, Keyed, Read
<1>. QED
  BY <1>1, <1>2, <1>3, <1>4 DEF IntentInv

LEMMA NextKeepsIntentInv == IntentInv /\ [Next]_vars => IntentInv'
<1> SUFFICES ASSUME IntentInv, [Next]_vars PROVE IntentInv'
  OBVIOUS
<1>1. ASSUME NEW h \in Handlers, HandlerStep(h) PROVE IntentInv'
  BY <1>1, ReserveKeeps, GetInvoiceIntentKeeps, ResolveKeeps, BeginKeeps, PostKeeps, FailKeeps,
     LookupKeeps, CompleteKeeps, AnswerKeeps DEF HandlerStep
<1>2. CASE UNCHANGED vars
  BY <1>2 DEF vars, IntentInv, TypeOK, KeyInv, OrderInv, RowInv, PosterInv, AnswerInv, CallInv, Begun, Unposted
<1>. QED
  BY <1>1, <1>2, CreateInvoiceKeeps, FailureKeeps, GatewayCreatesKeeps, GatewayRejectsKeeps DEF Next

LEMMA IntentInvariant == Spec => []IntentInv
  BY InitIsIntentInv, NextKeepsIntentInv, PTL DEF Spec

\* Type correctness: among others, no caller is ever answered without an invoice.
THEOREM IntentTypeCorrect == Spec => []TypeOK
<1>1. IntentInv => TypeOK
  BY DEF IntentInv
<1>. QED
  BY <1>1, IntentInvariant, PTL

\* However many callers, retries, crashes and late POSTs share a key, the gateway
\* opens at most one invoice for it, and only what the key reserved.
THEOREM KeyHasOneInvoice == Spec => []OneInvoicePerKey
<1>1. IntentInv => OneInvoicePerKey
  BY DEF IntentInv, OrderInv, OneInvoicePerKey
<1>. QED
  BY <1>1, IntentInvariant, PTL

\* All callers of a key are answered with one and the same invoice, for the request
\* they made.
THEOREM CallersGetTheSameInvoice == Spec => []SameAnswer
<1>1. IntentInv => SameAnswer
  <2> SUFFICES ASSUME IntentInv PROVE SameAnswer
    OBVIOUS
  <2>1. \A a, b \in answers : a.key = b.key => a.inv = b.inv
    BY DEF IntentInv, AnswerInv
  <2>2. ASSUME NEW a \in answers PROVE a.inv.req = a.req
    <3>1. /\ a.key \in Keys /\ intent[a.key].state = "ready" /\ a.inv = rows[intent[a.key].order]
          /\ a.req = intent[a.key].req
      BY DEF IntentInv, AnswerInv, TypeOK
    <3>2. intent[a.key].order \in Orders
      BY <3>1 DEF IntentInv, KeyInv, TypeOK, Intent
    <3>3. a.inv \in gateway /\ a.inv.order = intent[a.key].order
      BY <3>1, <3>2 DEF IntentInv, RowInv
    <3>4. PICK k \in Keys : intent[k].order = a.inv.order /\ intent[k].req = a.inv.req
      BY <3>3 DEF IntentInv, OrderInv
    <3>5. k = a.key
      BY <3>1, <3>2, <3>3, <3>4, ConstantsAssumption DEF IntentInv, KeyInv
    <3>. QED
      BY <3>1, <3>4, <3>5
  <2>. QED
    BY <2>1, <2>2 DEF SameAnswer
<1>. QED
  BY <1>1, IntentInvariant, PTL

\* An intent is failed only when its order has no invoice and will get none.
THEOREM FailedLeavesNothing == Spec => []FailedHasNoInvoice
<1>1. IntentInv => FailedHasNoInvoice
  BY UnbegunIsUnposted DEF FailedHasNoInvoice, Unposted, Begun
<1>. QED
  BY <1>1, IntentInvariant, PTL
=============================================================================
