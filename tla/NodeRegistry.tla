---------------------------- MODULE NodeRegistry ----------------------------
(***************************************************************************)
(* The control plane's node registry: registration, PATCH, address          *)
(* rotation, retirement, demotion, guarded activation and the verdicts that *)
(* telemetry's aggregates lead to.  Requests run concurrently; one that     *)
(* reads a node and then writes it does so in two steps, and every change   *)
(* is followed by a history record and a rebuild request, each of which may *)
(* fail on its own.                                                         *)
(***************************************************************************)
EXTENDS Integers, FiniteSets

CONSTANTS
    Nodes,        \* node ids
    Exits,        \* the ones whose role is exit; the others are entries
    EntryOf,      \* exit -> the entry it is paired with
    Addresses,    \* entry IPs
    Handlers,     \* concurrent requests
    Ops,          \* the operations clients use
    Sent,         \* bound: the statuses that bodies of register and PATCH carry
    Faults,       \* what may fail: "history", "enqueue", "crash"
    MaxRevision,  \* bound: changes of the eligible users
    MaxFailures,  \* bound: failures in one behaviour
    None

ASSUME RegistryConstants ==
    /\ Exits \subseteq Nodes
    /\ EntryOf \in [Exits -> Nodes \ Exits]
    /\ Ops \subseteq {"register", "update", "rotate", "retire", "demote", "activate", "signal"}
    /\ Sent \subseteq {"provisioning", "active", "degraded", "blocked", "draining", "retired"}
    /\ Faults \subseteq {"history", "enqueue", "crash"}
    /\ MaxRevision \in Nat /\ MaxFailures \in Nat

VARIABLES
    node,      \* nodes: id -> [status, ip, wide]
    eligible,  \* revision of the users a node must admit
    owed,      \* nodes changed since a rebuild was last enqueued for them
    hd,        \* request handler -> its local state
    failures

vars == <<node, eligible, owed, hd, failures>>

Statuses == {"provisioning", "active", "degraded", "blocked", "draining", "retired"}

\* A node as the registry stores it; wide: two or more enabled transport types.
Body == [status : Statuses, ip : Addresses, wide : BOOLEAN]

\* Not registered.
NoNode == [status |-> "none", ip |-> None, wide |-> FALSE]

Verdicts == {"healthy", "degraded", "blocked"}

Handler == [pc : {"idle", "write", "setip", "apply", "set", "record", "enqueue"},
            op : Ops \cup {None}, n : Nodes \cup {None}, body : Body \cup {None},
            to : Statuses \cup Addresses \cup {None}, todo : SUBSET (Nodes \X Verdicts)]

Idle == [pc |-> "idle", op |-> None, n |-> None, body |-> None, to |-> None, todo |-> {}]

Registered(n) == node[n].status # "none"

\* A request of kind op for node n starts in h and goes to pc.
Start(h, op, n, pc) ==
    /\ op \in Ops
    /\ hd[h] = Idle
    /\ hd' = [hd EXCEPT ![h] = [Idle EXCEPT !.op = op, !.n = n, !.pc = pc]]

Goto(h, pc) == hd' = [hd EXCEPT ![h] = [hd[h] EXCEPT !.pc = pc]]

\* One column of n's row.
SetStatus(n, s) == node' = [node EXCEPT ![n] = [node[n] EXCEPT !.status = s]]

Owe(n) == owed' = owed \cup {n}

----------------------------------------------------------------------------
(* The operations of NodeService.                                          *)

\* Register: any state but active.
Register(h, n, b) ==
    /\ "register" \in Ops
    /\ hd[h] = Idle
    /\ ~Registered(n)
    /\ b.status # "active"
    /\ node' = [node EXCEPT ![n] = b]
    /\ UNCHANGED <<eligible, owed, hd, failures>>

\* Update, up to its write: the stored node is read, a move into active refused.
UpdateGet(h, n, b) ==
    /\ Registered(n)
    /\ ~(b.status = "active" /\ node[n].status # "active")
    /\ "update" \in Ops
    /\ hd[h] = Idle
    /\ hd' = [hd EXCEPT ![h] = [Idle EXCEPT !.op = "update", !.n = n, !.pc = "write",
                                            !.body = b, !.to = node[n].status]]
    /\ UNCHANGED <<node, eligible, owed, failures>>

\* Slip: a PATCH that leaves the status alone asks for no rebuild.
UpdateQuietly(h) ==
    /\ hd[h].pc = "write"
    /\ node' = [node EXCEPT ![hd[h].n] = hd[h].body]
    /\ Owe(hd[h].n)
    /\ hd' = [hd EXCEPT ![h] = IF hd[h].to # hd[h].body.status
                               THEN [hd[h] EXCEPT !.pc = "record"] ELSE Idle]
    /\ UNCHANGED <<eligible, failures>>

\* NodeStore.Update: the whole row is replaced; the history is written when the
\* status differs from the one that was read.
Update(h) ==
    /\ hd[h].pc = "write"
    /\ node' = [node EXCEPT ![hd[h].n] = hd[h].body]
    /\ Owe(hd[h].n)
    /\ Goto(h, IF hd[h].to # hd[h].body.status THEN "record" ELSE "enqueue")
    /\ UNCHANGED <<eligible, failures>>

\* Rotate: the node is read, then its address set.
RotateGet(h, n, ip) ==
    /\ Registered(n)
    /\ "rotate" \in Ops
    /\ hd[h] = Idle
    /\ hd' = [hd EXCEPT ![h] = [Idle EXCEPT !.op = "rotate", !.n = n, !.pc = "setip", !.to = ip]]
    /\ UNCHANGED <<node, eligible, owed, failures>>

SetEntryIP(h) ==
    /\ hd[h].pc = "setip"
    /\ node' = [node EXCEPT ![hd[h].n] = [node[hd[h].n] EXCEPT !.ip = hd[h].to]]
    /\ Owe(hd[h].n)
    /\ Goto(h, "record")
    /\ UNCHANGED <<eligible, failures>>

Retire(h, n) ==
    /\ Registered(n)
    /\ Start(h, "retire", n, "record")
    /\ SetStatus(n, "retired")
    /\ Owe(n)
    /\ UNCHANGED <<eligible, failures>>

\* Slip: the barrier ignores the operator's states.
CanDemoteAlways(n) == Registered(n)

CanDemote(n) == Registered(n) /\ node[n].status \notin {"draining", "retired"}

Demote(h, n) ==
    /\ CanDemote(n)
    /\ Start(h, "demote", n, "record")
    /\ SetStatus(n, "provisioning")
    /\ Owe(n)
    /\ UNCHANGED <<eligible, failures>>

\* Slip: the paired exit is not looked at.
CanActivateUnpaired(n, rev, evidence) ==
    /\ node[n].status = "provisioning"
    /\ IF n \in Exits THEN evidence ELSE node[n].wide /\ rev = eligible

\* Slip: the revision is not compared.
CanActivateAnyRevision(n, rev, evidence) ==
    /\ node[n].status = "provisioning"
    /\ IF n \in Exits THEN evidence
       ELSE /\ node[n].wide
            /\ \E x \in Exits : EntryOf[x] = n /\ node[x].status = "active"

\* activate, its checks: an exit needs the probe's evidence; an entry two
\* transports, an active exit and the revision of the current users.
CanActivate(n, rev, evidence) ==
    /\ node[n].status = "provisioning"
    /\ IF n \in Exits THEN evidence
       ELSE /\ node[n].wide
            /\ \E x \in Exits : EntryOf[x] = n /\ node[x].status = "active"
            /\ rev = eligible

\* Activate: one serializable transaction.
Activate(h, n, rev, evidence) ==
    /\ CanActivate(n, rev, evidence)
    /\ Start(h, "activate", n, "record")
    /\ SetStatus(n, "active")
    /\ Owe(n)
    /\ UNCHANGED <<eligible, failures>>

----------------------------------------------------------------------------
(* SignalService.                                                          *)

rank == [v \in Verdicts |-> CASE v = "blocked" -> 2 [] v = "degraded" -> 1 [] OTHER -> 0]

\* The worst verdict per node.  A node enters the map only when its verdict ranks
\* above the map's zero value, whose rank is that of healthy.
Worst(batch) ==
    {a \in batch : rank[a[2]] > 0 /\ \A b \in batch : b[1] = a[1] => rank[b[2]] <= rank[a[2]]}

\* Ingest up to its second loop: the classified aggregates (node, verdict) of one
\* window are stored (left out here), the worst of each node is kept for applyVerdict.
Ingest(h, batch) ==
    /\ "signal" \in Ops
    /\ hd[h] = Idle
    /\ batch # {}
    /\ \A a \in batch : Registered(a[1])
    /\ hd' = IF Worst(batch) = {} THEN hd
             ELSE [hd EXCEPT ![h] = [Idle EXCEPT !.op = "signal", !.pc = "apply",
                                                 !.todo = Worst(batch)]]
    /\ UNCHANGED <<node, eligible, owed, failures>>

\* Where a verdict moves a node that is in state cur; cur itself for nowhere.
Target(cur, v) ==
    CASE cur \notin {"active", "degraded", "blocked"} -> cur
      [] cur = "blocked" \/ v = "blocked"             -> "blocked"
      [] cur # "blocked" /\ v = "degraded"            -> "degraded"
      [] OTHER                                        -> "active"

\* applyVerdict, its read and decision; the loop takes the nodes in any order.
ApplyVerdict(h) ==
    /\ hd[h].pc = "apply"
    /\ \E a \in hd[h].todo :
         LET cur  == node[a[1]].status
             rest == hd[h].todo \ {a}
             next == [hd[h] EXCEPT !.todo = rest]
         IN hd' = [hd EXCEPT ![h] =
                     CASE Target(cur, a[2]) # cur ->
                            [next EXCEPT !.pc = "set", !.n = a[1], !.to = Target(cur, a[2])]
                       [] Target(cur, a[2]) = cur /\ rest # {} -> next
                       [] OTHER -> Idle]
    /\ UNCHANGED <<node, eligible, owed, failures>>

\* The rest of Ingest after one node.
Continue(h) == [hd[h] EXCEPT !.pc = "apply", !.n = None, !.to = None]

NextNode(h) == hd' = [hd EXCEPT ![h] = IF hd[h].todo = {} THEN Idle ELSE Continue(h)]

\* setStatusIfChanged: SetStatus, whatever the status is by now.
SetStatusIfChanged(h) ==
    /\ hd[h].pc = "set"
    /\ SetStatus(hd[h].n, hd[h].to)
    /\ \/ node[hd[h].n].status = hd[h].to /\ NextNode(h) /\ UNCHANGED owed
       \/ node[hd[h].n].status # hd[h].to /\ Goto(h, "record") /\ Owe(hd[h].n)
    /\ UNCHANGED <<eligible, failures>>

----------------------------------------------------------------------------
(* After a change.                                                         *)

RecordRotation(h) ==
    /\ hd[h].pc = "record"
    /\ Goto(h, "enqueue")
    /\ UNCHANGED <<node, eligible, owed, failures>>

\* The history write is best effort in Activate and Demote only.
BestEffort == {"activate", "demote"}

Failing(f) == f \in Faults /\ failures < MaxFailures /\ failures' = failures + 1

\* AddNodeRotation fails: elsewhere the request ends here, with an error.
RecordFails(h) ==
    /\ Failing("history")
    /\ hd[h].pc = "record"
    /\ hd' = [hd EXCEPT ![h] = IF hd[h].op \in BestEffort
                               THEN [hd[h] EXCEPT !.pc = "enqueue"] ELSE Idle]
    /\ UNCHANGED <<node, eligible, owed>>

EnqueueNode(h) ==
    /\ hd[h].pc = "enqueue"
    /\ owed' = owed \ {hd[h].n}
    /\ NextNode(h)
    /\ UNCHANGED <<node, eligible, failures>>

\* The durable queue's INSERT fails, which is logged.
EnqueueFails(h) ==
    /\ Failing("enqueue")
    /\ hd[h].pc = "enqueue"
    /\ NextNode(h)
    /\ UNCHANGED <<node, eligible, owed>>

Crash(h) ==
    /\ Failing("crash")
    /\ hd[h] # Idle
    /\ hd' = [hd EXCEPT ![h] = Idle]
    /\ UNCHANGED <<node, eligible, owed>>

\* A ban, a new user, rotated credentials, a lapse: other users are eligible now.
ChangeEligible ==
    /\ eligible < MaxRevision
    /\ eligible' = eligible + 1
    /\ UNCHANGED <<node, owed, hd, failures>>

----------------------------------------------------------------------------

Init ==
    /\ node = [n \in Nodes |-> NoNode]
    /\ eligible = 0
    /\ owed = {}
    /\ hd = [h \in Handlers |-> Idle]
    /\ failures = 0

Request(h) ==
    \E n \in Nodes :
        \/ \E b \in [status : Sent, ip : Addresses, wide : BOOLEAN] : Register(h, n, b) \/ UpdateGet(h, n, b)
        \/ \E ip \in Addresses : RotateGet(h, n, ip)
        \/ Retire(h, n)
        \/ Demote(h, n)
        \/ \E rev \in 0..eligible, evidence \in BOOLEAN : Activate(h, n, rev, evidence)

HandlerStep(h) ==
    \/ Update(h)
    \/ SetEntryIP(h)
    \/ ApplyVerdict(h)
    \/ SetStatusIfChanged(h)
    \/ RecordRotation(h)
    \/ EnqueueNode(h)

Next ==
    \/ ChangeEligible
    \/ \E h \in Handlers :
         \/ Request(h)
         \/ \E batch \in SUBSET (Nodes \X Verdicts) : Ingest(h, batch)
         \/ HandlerStep(h)
         \/ RecordFails(h)
         \/ EnqueueFails(h)
         \/ Crash(h)

Spec == Init /\ [][Next]_vars

----------------------------------------------------------------------------
(* Properties.                                                             *)

\* Every variable has its type; a handler that works on a node has one.
TypeOK ==
    /\ node \in [Nodes -> Body \cup {NoNode}]
    /\ eligible \in 0..MaxRevision /\ failures \in 0..MaxFailures
    /\ owed \subseteq {n \in Nodes : Registered(n)}
    /\ hd \in [Handlers -> Handler]
    /\ \A h \in Handlers : hd[h].pc \in {"write", "setip", "set", "record", "enqueue"}
                            => hd[h].n \in Nodes

\* The step is h's write of a row it had read before: the write of a PATCH (pc
\* "write") or of a verdict ("set").
WritesBack(h, n, pc) == hd[h].n = n /\ hd[h].pc = pc /\ hd'[h] # hd[h]

\* Reaching active is only possible through the guarded activation: whoever else is
\* at work, a node that starts to serve was provisioning, and an entry that starts
\* to serve has its transports and an exit that serves.  The one way around it is a
\* PATCH that read the node while it was active and puts that status back.
ActivationIsGated ==
    [][\A n \in Nodes :
         node[n].status # "active" /\ node'[n].status = "active" =>
            \/ \E h \in Handlers : WritesBack(h, n, "write") /\ hd[h].to = "active"
            \/ /\ node[n].status = "provisioning"
               /\ n \notin Exits =>
                    /\ node[n].wide
                    /\ \E x \in Exits : EntryOf[x] = n /\ node[x].status = "active"]_vars

\* A node the operator has taken out (draining, retired) is not brought back by a
\* registration, a demotion, an activation or a rotation that raced with it: only
\* by a PATCH, or by a verdict that was reached before.
DecommissionedStays ==
    [][\A n \in Nodes : node[n].status \in {"draining", "retired"}
            => \/ node'[n].status \in {"draining", "retired"}
               \/ \E h \in Handlers : WritesBack(h, n, "write") \/ WritesBack(h, n, "set")]_vars

\* A change of a node is followed by a rebuild request: as long as none has been
\* made and nothing has failed, the request that changed the node is still on its
\* way to it.
ChangeIsQueued ==
    failures = 0 =>
      \A n \in owed : \E h \in Handlers : hd[h].n = n /\ hd[h].pc \in {"record", "enqueue"}
=============================================================================
