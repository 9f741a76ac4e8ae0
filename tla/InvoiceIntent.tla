---------------------------- MODULE InvoiceIntent ----------------------------
(***************************************************************************)
(* How billing opens at most one gateway invoice per idempotency key.       *)
(*                                                                         *)
(* createInvoice first reserves an intent under the caller's key, with an  *)
(* order id chosen for it; one caller wins the right to POST the order to  *)
(* the gateway, and everybody else, and everybody after an ambiguous POST, *)
(* looks the order up instead of creating it again.  Handlers of several   *)
(* instances, retries of the client, lost replies, POSTs that arrive late  *)
(* and crashes between any two steps are all here.                         *)
(***************************************************************************)
EXTENDS Integers, FiniteSets

CONSTANTS
    Keys,         \* Idempotency-Key values
    Requests,     \* what a caller asks for: account, plan, currency, provider
    Handlers,     \* concurrent createInvoice calls
    Orders,       \* order ids (idgen.New); the one of an INSERT that loses is dropped
    Recoverable,  \* the requests whose gateway can look an order up
    MaxFailures,  \* bound: failed steps and crashes in one behaviour
    MaxCalls,     \* bound: calls of createInvoice in one behaviour
    None

ASSUME ConstantsAssumption ==
    /\ None \notin Keys \cup Requests \cup Orders
    /\ Recoverable \subseteq Requests
    /\ MaxFailures \in Nat
    /\ MaxCalls \in Nat

VARIABLES
    intent,    \* invoice_intents: key -> [state, req, order]
    rows,      \* invoices: order -> the gateway invoice it refers to, or None
    gateway,   \* the gateway's invoices [order, req, nr]
    posts,     \* creation requests on their way to the gateway
    answers,   \* what callers were told: [key, req, inv]
    hd,        \* handler -> its local state
    calls, failures

vars == <<intent, rows, gateway, posts, answers, hd, calls, failures>>

States == {"none", "reserved", "creating", "ready", "failed"}

Intent == [state : States, req : Requests \cup {None}, order : Orders \cup {None}]

NoIntent == [state |-> "none", req |-> None, order |-> None]

\* A gateway invoice; nr tells two invoices of one order apart.
Invoice == [order : Orders, req : Requests, nr : Nat]

ASSUME NoInvoiceAssumption == None \notin Invoice

PCs == {"idle", "reserve", "get", "resolve", "begin", "post", "await", "lookup",
        "complete", "fail", "answer"}

\* A call: its key and request, the intent as last read, the invoice at hand.
Handler == [pc : PCs, key : Keys \cup {None}, req : Requests \cup {None},
            seen : Intent, inv : Invoice \cup {None}]

Idle == [pc |-> "idle", key |-> None, req |-> None, seen |-> NoIntent, inv |-> None]

Goto(h, pc) == hd' = [hd EXCEPT ![h] = [hd[h] EXCEPT !.pc = pc]]

Return(h) == hd' = [hd EXCEPT ![h] = Idle]

----------------------------------------------------------------------------
(* createInvoice.                                                          *)

\* Slip: the key alone decides, whatever the request.
SameKeyIsEnough(i, req) == TRUE

\* The request must be the one the key was reserved for (request_hash).
SameRequest(i, req) == i.req = req

\* Entry: GetInvoiceIntent decides whether the key is new.  A key that was used
\* for another request is refused, which changes nothing.
CreateInvoice(h, k, q) ==
    /\ hd[h].pc = "idle"
    /\ calls < MaxCalls
    /\ calls' = calls + 1
    /\ \/ /\ intent[k].state = "none"
          /\ hd' = [hd EXCEPT ![h] = [Idle EXCEPT !.pc = "reserve", !.key = k, !.req = q]]
       \/ /\ intent[k].state # "none"
          /\ SameRequest(intent[k], q)
          /\ hd' = [hd EXCEPT ![h] = [Idle EXCEPT !.pc = "resolve", !.key = k, !.req = q,
                                                  !.seen = intent[k]]]
    /\ UNCHANGED <<intent, rows, gateway, posts, answers, failures>>

\* ReserveInvoiceIntent, its INSERT: the first caller of a key fixes the request
\* and the order id.
ReserveInvoiceIntent(h) ==
    LET k == hd[h].key IN
    /\ hd[h].pc = "reserve"
    /\ \/ /\ intent[k].state = "none"
          /\ \E o \in Orders \ {intent[j].order : j \in Keys} :
               intent' = [intent EXCEPT ![k] = [state |-> "reserved", req |-> hd[h].req,
                                                order |-> o]]
       \/ intent[k].state # "none" /\ UNCHANGED intent
    /\ Goto(h, "get")
    /\ UNCHANGED <<rows, gateway, posts, answers, calls, failures>>

\* ... and the GetInvoiceIntent after it; a different request is refused.
GetInvoiceIntent(h) ==
    LET i == intent[hd[h].key] IN
    /\ hd[h].pc = "get"
    /\ \/ SameRequest(i, hd[h].req) /\ hd' = [hd EXCEPT ![h] =
                                        [hd[h] EXCEPT !.pc = "resolve", !.seen = i]]
       \/ ~SameRequest(i, hd[h].req) /\ Return(h)
    /\ UNCHANGED <<intent, rows, gateway, posts, answers, calls, failures>>

\* resolveInvoiceIntent: what to do depends on the state read before, which may
\* be out of date by now.
resolveInvoiceIntent(h) ==
    LET i == hd[h].seen IN
    /\ hd[h].pc = "resolve"
    /\ hd' = [hd EXCEPT ![h] =
                CASE i.state = "ready"    -> [hd[h] EXCEPT !.pc = "answer",
                                                           !.inv = rows[i.order]]
                  [] i.state = "failed"   -> Idle
                  [] i.state = "reserved" -> [hd[h] EXCEPT !.pc = "begin"]
                  [] OTHER                -> [hd[h] EXCEPT !.pc = "lookup"]]
    /\ UNCHANGED <<intent, rows, gateway, posts, answers, calls, failures>>

\* BeginInvoiceCreate: one caller moves the intent from reserved to creating.
BeginInvoiceCreate(h) ==
    LET k == hd[h].key IN
    /\ hd[h].pc = "begin"
    /\ \/ /\ intent[k].state = "reserved"
          /\ intent' = [intent EXCEPT ![k] = [intent[k] EXCEPT !.state = "creating"]]
          /\ Goto(h, "post")
       \/ intent[k].state # "reserved" /\ Goto(h, "lookup") /\ UNCHANGED intent
    /\ UNCHANGED <<rows, gateway, posts, answers, calls, failures>>

\* The gateway's CreateInvoice: the POST leaves, with the reserved order id.
PostInvoice(h) ==
    /\ hd[h].pc = "post"
    /\ posts' = posts \cup {[from |-> h, order |-> hd[h].seen.order, req |-> hd[h].seen.req]}
    /\ Goto(h, "await")
    /\ UNCHANGED <<intent, rows, gateway, answers, calls, failures>>

Waiting(m) == hd[m.from].pc = "await" /\ hd[m.from].seen.order = m.order

\* The gateway opens an invoice; a caller that still waits gets it.
GatewayCreates(m) ==
    LET inv == [order |-> m.order, req |-> m.req, nr |-> Cardinality(gateway)] IN
    /\ gateway' = gateway \cup {inv}
    /\ posts' = posts \ {m}
    /\ hd' = IF Waiting(m) THEN [hd EXCEPT ![m.from] = [hd[m.from] EXCEPT
                                                          !.pc = "complete", !.inv = inv]]
             ELSE hd
    /\ UNCHANGED <<intent, rows, answers, calls, failures>>

\* The gateway refuses (4xx): no invoice exists.  The on-chain gateway, whose
\* address pool is local and which cannot look orders up, has no such answer.
GatewayRejects(m) ==
    /\ m.req \in Recoverable
    /\ posts' = posts \ {m}
    /\ hd' = IF Waiting(m) THEN [hd EXCEPT ![m.from] = [hd[m.from] EXCEPT !.pc = "fail"]]
             ELSE hd
    /\ UNCHANGED <<intent, rows, gateway, answers, calls, failures>>

FailInvoiceCreate(h) ==
    LET k == hd[h].key IN
    /\ hd[h].pc = "fail"
    /\ intent' = [intent EXCEPT ![k] = [intent[k] EXCEPT !.state = "failed"]]
    /\ Return(h)
    /\ UNCHANGED <<rows, gateway, posts, answers, calls, failures>>

\* LookupInvoice: the gateway's invoices of the order.  None, or more than one,
\* is an error, as is a gateway that cannot look orders up; nothing changes.
LookupInvoice(h) ==
    LET found == {v \in gateway : v.order = hd[h].seen.order} IN
    /\ hd[h].pc = "lookup"
    /\ \/ /\ hd[h].req \in Recoverable
          /\ Cardinality(found) = 1
          /\ \E v \in found :
               hd' = [hd EXCEPT ![h] = [hd[h] EXCEPT !.pc = "complete", !.inv = v]]
       \/ /\ hd[h].req \notin Recoverable \/ Cardinality(found) # 1
          /\ Return(h)
    /\ UNCHANGED <<intent, rows, gateway, posts, answers, calls, failures>>

\* CompleteInvoiceCreate: the invoice row, unless it is there, and the state, in
\* one transaction.
CompleteInvoiceCreate(h) ==
    LET k == hd[h].key
        o == hd[h].inv.order
    IN /\ hd[h].pc = "complete"
       /\ rows' = IF rows[o] = None THEN [rows EXCEPT ![o] = hd[h].inv] ELSE rows
       /\ intent' = [intent EXCEPT ![k] = [intent[k] EXCEPT !.state = "ready"]]
       /\ Goto(h, "answer")
       /\ UNCHANGED <<gateway, posts, answers, calls, failures>>

Answer(h) ==
    /\ hd[h].pc = "answer"
    /\ answers' = answers \cup {[key |-> hd[h].key, req |-> hd[h].req, inv |-> hd[h].inv]}
    /\ Return(h)
    /\ UNCHANGED <<intent, rows, gateway, posts, calls, failures>>

----------------------------------------------------------------------------
(* Failures.                                                               *)

Failing == failures < MaxFailures /\ failures' = failures + 1

\* Whether or not the gateway gets the POST of h.
PostMayBeLost(h) == posts' = posts \/ posts' = {m \in posts : m.from # h}

\* Slip: the POST is sent again.
RepostWhenAmbiguous(h) ==
    /\ Failing
    /\ hd[h].pc = "await"
    /\ PostMayBeLost(h)
    /\ Goto(h, "post")
    /\ UNCHANGED <<intent, rows, gateway, answers, calls>>

\* Slip: an unknown outcome counts as a refusal.
FailWhenAmbiguous(h) ==
    /\ Failing
    /\ hd[h].pc = "await"
    /\ PostMayBeLost(h)
    /\ Goto(h, "fail")
    /\ UNCHANGED <<intent, rows, gateway, answers, calls>>

\* The answer to the POST is lost, late or a 5xx: the outcome is unknown, the
\* order is looked up.
PostIsAmbiguous(h) ==
    /\ Failing
    /\ hd[h].pc = "await"
    /\ PostMayBeLost(h)
    /\ Goto(h, "lookup")
    /\ UNCHANGED <<intent, rows, gateway, answers, calls>>

\* A store or lookup error, a client that gives up or a crash ends the call.
Crash(h) ==
    /\ Failing
    /\ hd[h].pc # "idle"
    /\ PostMayBeLost(h)
    /\ Return(h)
    /\ UNCHANGED <<intent, rows, gateway, answers, calls>>

----------------------------------------------------------------------------

Init ==
    /\ intent = [k \in Keys |-> NoIntent]
    /\ rows = [o \in Orders |-> None]
    /\ gateway = {}
    /\ posts = {}
    /\ answers = {}
    /\ hd = [h \in Handlers |-> Idle]
    /\ calls = 0
    /\ failures = 0

HandlerStep(h) ==
    \/ ReserveInvoiceIntent(h)
    \/ GetInvoiceIntent(h)
    \/ resolveInvoiceIntent(h)
    \/ BeginInvoiceCreate(h)
    \/ PostInvoice(h)
    \/ FailInvoiceCreate(h)
    \/ LookupInvoice(h)
    \/ CompleteInvoiceCreate(h)
    \/ Answer(h)

Next ==
    \/ \E h \in Handlers, k \in Keys, q \in Requests : CreateInvoice(h, k, q)
    \/ \E h \in Handlers : HandlerStep(h) \/ PostIsAmbiguous(h) \/ Crash(h)
    \/ \E m \in posts : GatewayCreates(m) \/ GatewayRejects(m)

Spec == Init /\ [][Next]_vars

----------------------------------------------------------------------------
(* Properties.                                                             *)

TypeOK ==
    /\ intent \in [Keys -> Intent]
    /\ rows \in [Orders -> Invoice \cup {None}]
    /\ gateway \subseteq Invoice
    /\ posts \subseteq [from : Handlers, order : Orders, req : Requests]
    /\ answers \subseteq [key : Keys, req : Requests, inv : Invoice]
    /\ hd \in [Handlers -> Handler]
    /\ calls \in 0..MaxCalls /\ failures \in 0..MaxFailures

\* A key costs the customer at most one payable invoice, whoever retries, crashes
\* or is late: no two gateway invoices belong to the same order, and every
\* gateway invoice belongs to an intent and asks for what it reserved.
OneInvoicePerKey ==
    /\ \A v, w \in gateway : v.order = w.order => v = w
    /\ \A v \in gateway : \E k \in Keys : intent[k].order = v.order /\ intent[k].req = v.req

\* Two callers that get an answer for the same key get the same invoice, and it is
\* the one they asked for; a key is never answered with another request's invoice.
SameAnswer ==
    /\ \A a, b \in answers : a.key = b.key => a.inv = b.inv
    /\ \A a \in answers : a.inv.req = a.req

\* A failed intent will never have a gateway invoice: nothing payable is left
\* behind that billing would refuse to recover.
FailedHasNoInvoice ==
    \A k \in Keys : intent[k].state = "failed" =>
        /\ \A v \in gateway : v.order # intent[k].order
        /\ \A m \in posts : m.order # intent[k].order
=============================================================================
