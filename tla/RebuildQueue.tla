---------------------------- MODULE RebuildQueue ----------------------------
(***************************************************************************)
(* The durable rebuild queue and the per-user server sets it keeps up to    *)
(* date: a change of the fleet or of a user leaves a job row, pollers claim *)
(* rows under a lease, mark the affected sets dirty and build them again,   *)
(* and GetForUser builds a set that is missing or dirty when it is asked    *)
(* for.  Clocks are left out: a lease lapses and a backoff ends at some     *)
(* time, possibly while the poller is still working through its batch.     *)
(***************************************************************************)
EXTENDS Integers, FiniteSetsExt

CONSTANTS
    Nodes,
    Users,
    Workers,      \* pollers of the durable queue, of all instances
    Readers,      \* concurrent GetForUser calls
    BatchSize,    \* rows a claim takes at most
    MaxAttempts,  \* claims after which a failing job is dropped
    Budgets,      \* bounds, one of which a behaviour keeps: [changes: how many, nodes: of the
                  \* fleet, failures: failed steps and crashes, readers: who reads]
    None

ASSUME QueueConstants ==
    /\ BatchSize \in Nat \ {0} /\ MaxAttempts \in Nat \ {0}
    /\ IsFiniteSet(Budgets) /\ Budgets # {}
    /\ Budgets \subseteq [changes : Nat, nodes : SUBSET Nodes, failures : Nat, readers : SUBSET Readers]
    /\ None \notin Nodes \cup Users

VARIABLES
    active,    \* the nodes whose status is active
    creds,     \* user -> version of the user's credentials
    sets,      \* subscription_sets: user -> [nodes, creds, dirty, late], or None
    jobs,      \* rebuild_jobs
    changes,   \* changes so far; also the last job id
    wk,        \* worker or reader -> its local state
    dropped,   \* (not in the code) targets of the jobs given up after MaxAttempts
    failures,
    budget     \* the bounds of this behaviour

vars == <<active, creds, sets, jobs, changes, wk, dropped, failures, budget>>

MaxChanges == Max({b.changes : b \in Budgets})

\* A built set; its revision number is left out.  late (not in the code): the fleet
\* or the user had changed between the reads of the build and its Upsert.
Set == [nodes : SUBSET Nodes, creds : Nat, dirty : BOOLEAN, late : BOOLEAN]

\* A row: not stored yet (in the request that made the change), due, claimed (by
\* somebody, under a lease) or waiting for its backoff.
Job == [id : 1..MaxChanges, kind : {"node", "user"}, target : Nodes \cup Users,
        attempts : 0..MaxAttempts, state : {"unsent", "due", "claimed", "backoff"}]

\* A worker: its claimed batch, the job in hand (as claimed), the users still to
\* build, and a build's own reads.
Worker == [pc : {"idle", "next", "mark", "affected", "build", "nodes", "upsert", "complete", "retry"},
           batch : SUBSET Job, job : Job \cup {None}, todo : SUBSET Users,
           user : Users \cup {None}, built : Set \cup {None}]

Idle == [pc |-> "idle", batch |-> {}, job |-> None, todo |-> {}, user |-> None, built |-> None]

Goto(w, pc) == wk' = [wk EXCEPT ![w] = [wk[w] EXCEPT !.pc = pc]]

----------------------------------------------------------------------------
(* What is enqueued.                                                       *)

NewJob(kind, target) ==
    [id |-> changes + 1, kind |-> kind, target |-> target, attempts |-> 0, state |-> "unsent"]

\* A node starts or ceases to be active (NodeService).
ChangeNode(n) ==
    /\ changes < budget.changes
    /\ changes' = changes + 1
    /\ active' = IF n \in active THEN active \ {n} ELSE active \cup {n}
    /\ jobs' = jobs \cup {NewJob("node", n)}
    /\ UNCHANGED <<creds, sets, wk, failures, dropped, budget>>

\* A user's credentials are rotated (UserService).
ChangeUser(u) ==
    /\ changes < budget.changes
    /\ changes' = changes + 1
    /\ creds' = [creds EXCEPT ![u] = creds[u] + 1]
    /\ jobs' = jobs \cup {NewJob("user", u)}
    /\ UNCHANGED <<active, sets, wk, failures, dropped, budget>>

\* ... and the request that changed it stores a job.  A failed INSERT is logged and
\* forgotten: NodeRegistry's EnqueueFails.
Enqueue(j) ==
    /\ j.state = "unsent"
    /\ jobs' = (jobs \ {j}) \cup {[j EXCEPT !.state = "due"]}
    /\ UNCHANGED <<active, creds, sets, changes, wk, dropped, failures, budget>>

----------------------------------------------------------------------------
(* The pollers.                                                            *)

\* Claim: up to BatchSize rows that are due, oldest first.
Claim(w) ==
    LET due   == {j \in jobs : j.state = "due"}
        taken == {j \in due : Cardinality({i \in due : i.id < j.id}) < BatchSize}
        now   == {[j EXCEPT !.state = "claimed",
                            !.attempts = IF j.attempts < MaxAttempts THEN j.attempts + 1
                                         ELSE MaxAttempts] : j \in taken}
    IN /\ wk[w].pc = "idle"
       /\ due # {}
       /\ jobs' = (jobs \ taken) \cup now
       /\ wk' = [wk EXCEPT ![w] = [Idle EXCEPT !.pc = "next", !.batch = now]]
       /\ UNCHANGED <<active, creds, sets, changes, failures, dropped, budget>>

\* claimAndProcess: the jobs of the batch one after the other, in the order of the
\* UPDATE's RETURNING, which is not that of the ids; run dispatches.
NextJob(w) ==
    /\ wk[w].pc = "next"
    /\ \/ wk[w].batch = {} /\ wk' = [wk EXCEPT ![w] = Idle]
       \/ \E j \in wk[w].batch :
            wk' = [wk EXCEPT ![w] =
                     [wk[w] EXCEPT !.batch = wk[w].batch \ {j}, !.job = j,
                                   !.pc = IF j.kind = "node" THEN "mark" ELSE "build",
                                   !.todo = IF j.kind = "node" THEN {} ELSE {j.target}]]
    /\ UNCHANGED <<active, creds, sets, jobs, changes, failures, dropped, budget>>

Holders(n) == {u \in Users : sets[u] # None /\ n \in sets[u].nodes}

\* Slip: the sets of the other users are invalidated.
MarkDirtyOthers(w) ==
    /\ wk[w].pc = "mark"
    /\ sets' = [u \in Users |-> IF sets[u] # None /\ u \notin Holders(wk[w].job.target)
                                THEN [sets[u] EXCEPT !.dirty = TRUE] ELSE sets[u]]
    /\ Goto(w, "complete")
    /\ UNCHANGED <<active, creds, jobs, changes, failures, dropped, budget>>

\* MarkDirtyByNode: the sets that hold the node are dirty.
MarkDirtyByNode(w) ==
    /\ wk[w].pc = "mark"
    /\ sets' = [u \in Users |-> IF u \in Holders(wk[w].job.target)
                                THEN [sets[u] EXCEPT !.dirty = TRUE] ELSE sets[u]]
    /\ Goto(w, "affected")
    /\ UNCHANGED <<active, creds, jobs, changes, failures, dropped, budget>>

\* UserIDsByNode: the users to rebuild.
UserIDsByNode(w) ==
    /\ wk[w].pc = "affected"
    /\ wk' = [wk EXCEPT ![w] = [wk[w] EXCEPT !.todo = Holders(wk[w].job.target),
                                             !.pc = IF Holders(wk[w].job.target) = {}
                                                    THEN "complete" ELSE "build"]]
    /\ UNCHANGED <<active, creds, sets, jobs, changes, failures, dropped, budget>>

\* Build, its reads: the user, ...
BuildUser(w) ==
    /\ wk[w].pc = "build"
    /\ \E u \in wk[w].todo :
         wk' = [wk EXCEPT ![w] = [wk[w] EXCEPT !.pc = "nodes", !.user = u,
                                   !.built = [nodes |-> {}, creds |-> creds[u],
                                              dirty |-> FALSE, late |-> FALSE]]]
    /\ UNCHANGED <<active, creds, sets, jobs, changes, failures, dropped, budget>>

\* ... the active nodes, ...
ListActive(w) ==
    /\ wk[w].pc = "nodes"
    /\ wk' = [wk EXCEPT ![w] = [wk[w] EXCEPT !.pc = "upsert", !.built.nodes = active]]
    /\ UNCHANGED <<active, creds, sets, jobs, changes, failures, dropped, budget>>

\* ... and its Upsert, which replaces the row; then the next user, or the end of
\* the job or of the GetForUser call.
Upsert(w) ==
    LET rest == wk[w].todo \ {wk[w].user}
        now  == wk[w].built.nodes = active /\ wk[w].built.creds = creds[wk[w].user] IN
    /\ wk[w].pc = "upsert"
    /\ sets' = [sets EXCEPT ![wk[w].user] = [wk[w].built EXCEPT !.late = ~now]]
    /\ wk' = [wk EXCEPT ![w] =
                IF w \in Readers THEN Idle
                ELSE [wk[w] EXCEPT !.todo = rest, !.user = None, !.built = None,
                                   !.pc = IF rest = {} THEN "complete" ELSE "build"]]
    /\ UNCHANGED <<active, creds, jobs, changes, failures, dropped, budget>>

JobDone(w) == [wk[w] EXCEPT !.pc = "next", !.job = None, !.todo = {}, !.user = None, !.built = None]

Complete(w) ==
    /\ wk[w].pc = "complete"
    /\ jobs' = {j \in jobs : j.id # wk[w].job.id}
    /\ wk' = [wk EXCEPT ![w] = JobDone(w)]
    /\ UNCHANGED <<active, creds, sets, changes, failures, dropped, budget>>

\* A job that failed: it is dropped after MaxAttempts claims, else released after
\* a backoff, whoever holds its row by now.
Retry(w) ==
    /\ wk[w].pc = "retry"
    /\ \/ /\ wk[w].job.attempts >= MaxAttempts
          /\ jobs' = {j \in jobs : j.id # wk[w].job.id}
          /\ dropped' = dropped \cup {wk[w].job.target}
       \/ /\ wk[w].job.attempts < MaxAttempts
          /\ jobs' = {IF j.id = wk[w].job.id THEN [j EXCEPT !.state = "backoff"] ELSE j : j \in jobs}
          /\ UNCHANGED dropped
    /\ wk' = [wk EXCEPT ![w] = JobDone(w)]
    /\ UNCHANGED <<active, creds, sets, changes, failures, budget>>

\* Slip: only rows without a claim are looked at.
BackoffEnds(j) ==
    /\ j.state = "backoff"
    /\ jobs' = (jobs \ {j}) \cup {[j EXCEPT !.state = "due"]}
    /\ UNCHANGED <<active, creds, sets, changes, wk, dropped, failures, budget>>

\* The backoff of a released job ends, the lease of a claimed one lapses.
BecomesDue(j) ==
    /\ j.state \in {"claimed", "backoff"}
    /\ jobs' = (jobs \ {j}) \cup {[j EXCEPT !.state = "due"]}
    /\ UNCHANGED <<active, creds, sets, changes, wk, dropped, failures, budget>>

----------------------------------------------------------------------------
(* GetForUser builds a set that is missing or dirty; it answers with any    *)
(* other as it is.                                                         *)

GetForUser(w, u) ==
    /\ wk[w].pc = "idle"
    /\ sets[u] # None => sets[u].dirty
    /\ wk' = [wk EXCEPT ![w] = [Idle EXCEPT !.pc = "build", !.todo = {u}]]
    /\ UNCHANGED <<active, creds, sets, jobs, changes, failures, dropped, budget>>

----------------------------------------------------------------------------
(* Failures.                                                               *)

\* A store call of the job fails; a store call that settles it fails likewise,
\* which leaves the row to its lease.
JobFails(w) ==
    /\ failures < budget.failures
    /\ failures' = failures + 1
    /\ \/ wk[w].pc \in {"mark", "affected", "build", "nodes", "upsert"} /\ Goto(w, "retry")
       \/ wk[w].pc \in {"complete", "retry"} /\ wk' = [wk EXCEPT ![w] = JobDone(w)]
    /\ UNCHANGED <<active, creds, sets, jobs, changes, dropped, budget>>

\* A process stops with its claims.
Crash(w) ==
    /\ failures < budget.failures
    /\ failures' = failures + 1
    /\ wk[w].pc # "idle"
    /\ wk' = [wk EXCEPT ![w] = Idle]
    /\ UNCHANGED <<active, creds, sets, jobs, changes, dropped, budget>>

----------------------------------------------------------------------------

\* Every user has a set of the fleet as it is, or none yet.
Init ==
    /\ budget \in Budgets
    /\ active \in SUBSET budget.nodes
    /\ creds = [u \in Users |-> 0]
    /\ sets \in [Users -> {None, [nodes |-> active, creds |-> 0, dirty |-> FALSE, late |-> FALSE]}]
    /\ jobs = {}
    /\ changes = 0
    /\ wk = [w \in Workers \cup Readers |-> Idle]
    /\ dropped = {}
    /\ failures = 0

BuildStep(w) == BuildUser(w) \/ ListActive(w) \/ Upsert(w)

JobStep(w) ==
    \/ NextJob(w)
    \/ MarkDirtyByNode(w)
    \/ UserIDsByNode(w)
    \/ BuildStep(w)
    \/ Complete(w)
    \/ Retry(w)

Next ==
    \/ \E n \in budget.nodes : ChangeNode(n)
    \/ \E u \in Users : ChangeUser(u)
    \/ \E w \in Workers : Claim(w) \/ JobStep(w) \/ JobFails(w) \/ Crash(w)
    \/ \E w \in budget.readers : Crash(w) \/ BuildStep(w) \/ \E u \in Users : GetForUser(w, u)
    \/ \E j \in jobs : Enqueue(j) \/ BecomesDue(j)

Spec == Init /\ [][Next]_vars

\* The pollers run for as long as the service does, an accepted read is carried
\* on, and time passes.
Fairness ==
    /\ \A w \in Workers : WF_vars(Claim(w)) /\ WF_vars(JobStep(w))
    /\ \A w \in Readers : WF_vars(BuildStep(w))
    /\ \A i \in 1..MaxChanges : WF_vars(\E j \in jobs : j.id = i /\ (Enqueue(j) \/ BecomesDue(j)))

FairSpec == Spec /\ Fairness

----------------------------------------------------------------------------
(* Properties.                                                             *)

\* Every variable has its type; the job a worker has in hand counts its claim.
TypeOK ==
    /\ active \subseteq Nodes
    /\ creds \in [Users -> 0..MaxChanges]
    /\ sets \in [Users -> Set \cup {None}]
    /\ jobs \subseteq Job
    /\ changes \in 0..MaxChanges
    /\ wk \in [Workers \cup Readers -> Worker]
    /\ dropped \subseteq Nodes \cup Users
    /\ budget \in Budgets
    /\ \A i, j \in jobs : i.id = j.id => i = j
    /\ \A w \in Workers : wk[w].job # None => wk[w].job.attempts > 0

\* The set that is served for u lists a node that is not active, or old credentials.
Stale(u) ==
    /\ sets[u] # None /\ ~sets[u].dirty
    /\ sets[u].nodes \ active # {} \/ sets[u].creds # creds[u]

Late(u) == sets[u] # None /\ sets[u].late

\* A job that would have rebuilt u's set as it is now was given up.
Dropped(u) == u \in dropped \/ (sets[u] # None /\ (sets[u].nodes \ active) \cap dropped # {})

\* "The rebuild worker invalidates the cache for every user holding that node and
\* recomputes their set onto the remaining active fleet": a clean set that lists a
\* node that is no longer active, or old credentials, does not stay while pollers
\* stop, leases lapse and steps fail.  Two ways to stay are the code's own and are
\* excepted: its job failed until it was given up (handle drops it as poison), or a
\* build that had read before the change stored it as clean, after the rebuild of the
\* change was done and its job gone (Upsert compares nothing).
StaleSetsAreRebuilt == \A u \in Users : Stale(u) ~> (~Stale(u) \/ Late(u) \/ Dropped(u))

\* No job stays in the queue for ever: the rows of a poller that stopped in the
\* middle of its batch are taken over, a row two pollers work on is settled, and a
\* job that keeps failing holds back neither itself nor the others of its batch.
JobsAreSettled ==
    \A i \in 1..MaxChanges : (\E j \in jobs : j.id = i) ~> (\A j \in jobs : j.id # i)
=============================================================================
