---------------------------- MODULE BillingLedger ----------------------------
(***************************************************************************)
(* What the billing service promises, without workers, failures, leases or *)
(* locks: an append-only ledger of billing states per account, in which    *)
(* each paid invoice occurs once, and a published copy (the control-plane) *)
(* that only ever moves forward along the ledger.  Settlement implements   *)
(* this specification.                                                     *)
(***************************************************************************)
EXTENDS Integers

CONSTANTS Users, Invoices, UserOf, PlanOf, Duration, Grace, Instants, None

VARIABLES ledger,    \* entries [sub, inv, created, state]; inv = None: a lapse
          head,      \* account -> its newest billing state
          published  \* account -> the state the control-plane serves

vars == <<ledger, head, published>>

Unpaid == [rev |-> 0, plan |-> None, status |-> "none", exp |-> 0, grace |-> 0]

Init ==
    /\ ledger = {}
    /\ head = [u \in Users |-> Unpaid]
    /\ published = [u \in Users |-> Unpaid]

Append(d) ==
    /\ ledger' = ledger \cup {d}
    /\ head' = [head EXCEPT ![d.sub] = d.state]
    /\ UNCHANGED published

\* The first and only entry of invoice i, made at instant t: its account gets
\* one period after the later of t and the end of its term.
Credit(i, t) ==
    LET u   == UserOf[i]
        end == (IF t >= head[u].exp THEN t ELSE head[u].exp) + Duration[PlanOf[i]]
    IN /\ \A d \in ledger : d.inv # i
       /\ Append([sub |-> u, inv |-> i, created |-> t,
                  state |-> [rev |-> head[u].rev + 1, plan |-> PlanOf[i],
                             status |-> "active", exp |-> end,
                             grace |-> end + Grace[PlanOf[i]]]])

\* A term that has ended at t becomes past due, after its grace expired; the
\* term itself is left alone.
Lapse(u, t) ==
    LET next == IF t >= head[u].grace THEN "expired" ELSE "past_due" IN
    /\ head[u].exp <= t
    /\ Append([sub |-> u, inv |-> None, created |-> t,
               state |-> [head[u] EXCEPT !.rev = head[u].rev + 1, !.status = next]])

\* The control-plane learns of an entry newer than what it has.
Publish(d) ==
    /\ published[d.sub].rev < d.state.rev
    /\ published' = [published EXCEPT ![d.sub] = d.state]
    /\ UNCHANGED <<ledger, head>>

Next ==
    \/ \E i \in Invoices, t \in Instants : Credit(i, t)
    \/ \E u \in Users, t \in Instants : Lapse(u, t)
    \/ \E d \in ledger : Publish(d)

Spec == Init /\ [][Next]_vars

-----------------------------------------------------------------------------
\* The inductive invariant of the ledger, in named parts: what each account's
\* revisions, terms and entries satisfy in every reachable state.  ConstantsOK is
\* what it needs of the constants.
ConstantsOK ==
    /\ UserOf \in [Invoices -> Users]
    /\ \A i \in Invoices : Duration[PlanOf[i]] \in Nat /\ Grace[PlanOf[i]] \in Nat
    /\ Instants \subseteq Nat
    /\ None \notin Invoices

\* What the invariant needs of the type of an entry and of a state.
State == [rev : Nat, plan : {PlanOf[i] : i \in Invoices} \cup {None},
          status : {"none", "active", "past_due", "expired"}, exp : Nat, grace : Nat]

StateOK(s) == s \in State /\ s.exp <= s.grace

EntriesOK ==
    \A d \in ledger : /\ d.sub \in Users
                      /\ d.inv \in Invoices \cup {None}
                      /\ d.created \in Nat
                      /\ StateOK(d.state)

HeadsOK ==
    /\ head = [u \in Users |-> head[u]]
    /\ \A u \in Users : StateOK(head[u]) /\ (head[u].rev = 0 => head[u] = Unpaid)

\* Revisions of an account are 1, 2, ..., its head's, each used once.
RevisionsBounded == \A d \in ledger : d.state.rev >= 1 /\ d.state.rev <= head[d.sub].rev

RevisionsUnique ==
    \A c, d \in ledger : c.sub = d.sub /\ c.state.rev = d.state.rev => c = d

RevisionsDense ==
    \A u \in Users : \A r \in Nat :
        r >= 1 /\ r <= head[u].rev => \E d \in ledger : d.sub = u /\ d.state.rev = r

HeadIsNewest == \A d \in ledger : d.state.rev = head[d.sub].rev => d.state = head[d.sub]

OneEntryPerInvoice == \A c, d \in ledger : c.inv = d.inv /\ c.inv # None => c = d

TermsGrow ==
    \A c, d \in ledger : c.sub = d.sub /\ c.state.rev <= d.state.rev
                           => c.state.exp <= d.state.exp

HeadTermIsLongest == \A d \in ledger : d.state.exp <= head[d.sub].exp

Since(t, exp) == IF t >= exp THEN t ELSE exp

\* A credit adds one period to the term of the revision before it.
CreditsAddOnePeriod ==
    \A d \in ledger : d.inv # None =>
        /\ d.sub = UserOf[d.inv]
        /\ d.state.rev = 1 =>
             d.state.exp = Since(d.created, 0) + Duration[PlanOf[d.inv]]
        /\ \A p \in ledger : p.sub = d.sub /\ p.state.rev + 1 = d.state.rev =>
             d.state.exp = Since(d.created, p.state.exp) + Duration[PlanOf[d.inv]]

LapsesAreDue ==
    \A d \in ledger : /\ d.state.status = "past_due" => d.created >= d.state.exp
                      /\ d.state.status = "expired" => d.created >= d.state.grace

PublishedFromLedger ==
    /\ published = [u \in Users |-> published[u]]
    /\ \A u \in Users : \/ published[u] = Unpaid
                        \/ \E d \in ledger : d.sub = u /\ d.state = published[u]

LedgerInv ==
    /\ EntriesOK
    /\ HeadsOK
    /\ RevisionsBounded
    /\ RevisionsUnique
    /\ RevisionsDense
    /\ HeadIsNewest
    /\ OneEntryPerInvoice
    /\ TermsGrow
    /\ HeadTermIsLongest
    /\ CreditsAddOnePeriod
    /\ LapsesAreDue
    /\ PublishedFromLedger
=============================================================================
