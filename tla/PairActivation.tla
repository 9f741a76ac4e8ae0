--------------------------- MODULE PairActivation ---------------------------
(***************************************************************************)
(* reconcile_node.sh against the node registry: a script brings an entry    *)
(* and its exit into service by demoting both, activating the exit, putting *)
(* the current users on the entry's host and activating the entry.  Its     *)
(* calls may fail before or after the registry acts, it may be signalled    *)
(* (its trap rolls the exit back) or killed, another run may start, users   *)
(* are banned meanwhile, and the access refresh (reconcile_fleet_access.sh, *)
(* the orchestrator's access sync) writes the same host.                    *)
(***************************************************************************)
EXTENDS NodeRegistry

CONSTANTS
    Reconcilers,  \* runs of reconcile_node.sh, on one machine
    Refreshers,   \* runs of access_sync.sh by the timer or the orchestrator
    Mishaps       \* what may go wrong: "call", "reply", "signal", "kill"

ASSUME PairConstants ==
    /\ Mishaps \subseteq {"call", "reply", "signal", "kill"}
    /\ \A x, y \in Exits : EntryOf[x] = EntryOf[y] => x = y
    /\ None \notin Reconcilers

VARIABLES
    rc,         \* reconciler -> [pc, x (its exit), rev (R1), armed]
    refresh,    \* refresher -> [n (an entry or None), rev]
    installed,  \* entry -> [rev (of the users on its host), by (who wrote it)], or None
    lock        \* entry -> the reconciler that holds the pair lock, or None

script == <<rc, refresh, installed, lock>>

pairVars == <<vars, script>>

Entries == Nodes \ Exits

NotRunning == [pc |-> "idle", x |-> None, rev |-> None, armed |-> FALSE]

Entry(r) == EntryOf[rc[r].x]

At(r, pc) == rc[r].pc = pc

Mishap(f) == f \in Mishaps /\ failures < MaxFailures /\ failures' = failures + 1

NodeStatusSet(n, s) == [node EXCEPT ![n] = [node[n] EXCEPT !.status = s]]

----------------------------------------------------------------------------
(* The end of a run.                                                       *)

\* The script exits: the lock is released.
Exit(r) ==
    /\ rc' = [rc EXCEPT ![r] = [rc[r] EXCEPT !.pc = "idle", !.armed = FALSE]]
    /\ lock' = [lock EXCEPT ![Entry(r)] = None]

\* What follows an error: after the exit's activation it is rolled back.
Abort(r) ==
    IF rc[r].armed
    THEN rc' = [rc EXCEPT ![r] = [rc[r] EXCEPT !.pc = "rollback"]] /\ UNCHANGED lock
    ELSE Exit(r)

Proceed(r, pc) == rc' = [rc EXCEPT ![r] = [rc[r] EXCEPT !.pc = pc]] /\ UNCHANGED lock

\* A call of the control plane (_cp): it succeeds; or it takes effect and the
\* answer is lost (a timeout); or it is refused; or it never arrives.  A request
\* that takes effect only after the script has given it up is left out.
Call(r, allowed, effect, pc) ==
    \/ allowed /\ node' = effect /\ Proceed(r, pc) /\ UNCHANGED failures
    \/ allowed /\ node' = effect /\ Abort(r) /\ Mishap("reply")
    \/ ~allowed /\ UNCHANGED node /\ Abort(r) /\ UNCHANGED failures
    \/ UNCHANGED node /\ Abort(r) /\ Mishap("call")

----------------------------------------------------------------------------
(* reconcile_main, reconcile_pair, _reconcile_after_exit.                  *)

\* Slip: two runs for one pair.
AcquireNoLock(r, x) ==
    /\ At(r, "idle")
    /\ lock' = [lock EXCEPT ![EntryOf[x]] = r]
    /\ rc' = [rc EXCEPT ![r] = [NotRunning EXCEPT !.pc = "demoteEntry", !.x = x]]
    /\ UNCHANGED <<vars, refresh, installed>>

\* The pair lock is taken without waiting.
AcquireLock(r, x) ==
    /\ At(r, "idle")
    /\ lock[EntryOf[x]] = None
    /\ lock' = [lock EXCEPT ![EntryOf[x]] = r]
    /\ rc' = [rc EXCEPT ![r] = [NotRunning EXCEPT !.pc = "demoteEntry", !.x = x]]
    /\ UNCHANGED <<vars, refresh, installed>>

DemoteEntry(r) ==
    /\ At(r, "demoteEntry")
    /\ Call(r, CanDemote(Entry(r)), NodeStatusSet(Entry(r), "provisioning"), "demoteExit")
    /\ UNCHANGED <<eligible, owed, hd, refresh, installed>>

DemoteExit(r) ==
    /\ At(r, "demoteExit")
    /\ Call(r, CanDemote(rc[r].x), NodeStatusSet(rc[r].x, "provisioning"), "verifyExit")
    /\ UNCHANGED <<eligible, owed, hd, refresh, installed>>

\* RECONCILE_VERIFY_EXIT: the probe of the exit's data plane succeeds or not.
VerifyExit(r) ==
    /\ At(r, "verifyExit")
    /\ Proceed(r, "activateExit") \/ Abort(r)
    /\ UNCHANGED <<vars, refresh, installed>>

ActivateExit(r) ==
    /\ At(r, "activateExit")
    /\ Call(r, CanActivate(rc[r].x, None, TRUE), NodeStatusSet(rc[r].x, "active"), "arm")
    /\ UNCHANGED <<eligible, owed, hd, refresh, installed>>

\* RECON_ROLLBACK_EXIT is set.
Arm(r) ==
    /\ At(r, "arm")
    /\ rc' = [rc EXCEPT ![r] = [rc[r] EXCEPT !.pc = "fetchR1", !.armed = TRUE]]
    /\ UNCHANGED <<vars, refresh, installed, lock>>

\* The access snapshot; an empty one, or a failed read, ends the run.
FetchR1(r) ==
    /\ At(r, "fetchR1")
    /\ \/ /\ rc' = [rc EXCEPT ![r] = [rc[r] EXCEPT !.pc = "apply", !.rev = eligible]]
          /\ UNCHANGED lock
       \/ Abort(r)
    /\ UNCHANGED <<vars, refresh, installed>>

\* RECONCILE_APPLY_CMD (access_sync.sh): the snapshot is put on the entry's host;
\* it fails when a refresh holds the access lock, or for a reason of its own.
Apply(r) ==
    /\ At(r, "apply")
    /\ \/ /\ installed' = [installed EXCEPT ![Entry(r)] = [rev |-> rc[r].rev, by |-> "script"]]
          /\ Proceed(r, "fetchR2")
       \/ UNCHANGED installed /\ Abort(r)
    /\ UNCHANGED <<vars, refresh>>

FetchR2(r) ==
    /\ At(r, "fetchR2")
    /\ \/ rc[r].rev = eligible /\ Proceed(r, "probe")
       \/ Abort(r)
    /\ UNCHANGED <<vars, refresh, installed>>

\* RECONCILE_PROBE_CMD and transport_gate.
Probe(r) ==
    /\ At(r, "probe")
    /\ Proceed(r, "activateEntry") \/ Abort(r)
    /\ UNCHANGED <<vars, refresh, installed>>

ActivateEntry(r) ==
    /\ At(r, "activateEntry")
    /\ Call(r, CanActivate(Entry(r), rc[r].rev, FALSE), NodeStatusSet(Entry(r), "active"), "disarm")
    /\ UNCHANGED <<eligible, owed, hd, refresh, installed>>

Disarm(r) ==
    /\ At(r, "disarm")
    /\ Exit(r)
    /\ UNCHANGED <<vars, refresh, installed>>

\* The exit is demoted after an error or by the trap; a failure is only logged.
RollBack(r) ==
    /\ At(r, "rollback")
    /\ \/ /\ CanDemote(rc[r].x)
          /\ node' = NodeStatusSet(rc[r].x, "provisioning")
          /\ UNCHANGED failures \/ Mishap("reply")
       \/ /\ UNCHANGED node
          /\ (~CanDemote(rc[r].x) /\ UNCHANGED failures) \/ Mishap("call")
    /\ Exit(r)
    /\ UNCHANGED <<eligible, owed, hd, refresh, installed>>

\* INT or TERM: the trap rolls back what is armed and ends the script.
Signal(r) ==
    /\ Mishap("signal")
    /\ rc[r].pc \notin {"idle", "rollback"}
    /\ Abort(r)
    /\ UNCHANGED <<node, eligible, owed, hd, refresh, installed>>

\* KILL, or the machine stops: the lock (flock) goes with the process.
Kill(r) ==
    /\ Mishap("kill")
    /\ ~At(r, "idle")
    /\ rc' = [rc EXCEPT ![r] = NotRunning]
    /\ lock' = [lock EXCEPT ![Entry(r)] = None]
    /\ UNCHANGED <<node, eligible, owed, hd, refresh, installed>>

----------------------------------------------------------------------------
(* The access refresh: the snapshot is fetched before the access lock is    *)
(* taken, and installed later.                                             *)

NoRefresh == [n |-> None, rev |-> None]

FetchSnapshot(f, n) ==
    /\ refresh[f].n = None
    /\ refresh' = [refresh EXCEPT ![f] = [n |-> n, rev |-> eligible]]
    /\ UNCHANGED <<vars, rc, installed, lock>>

SyncAccess(f) ==
    /\ refresh[f].n # None
    /\ \/ installed' = [installed EXCEPT ![refresh[f].n] = [rev |-> refresh[f].rev, by |-> "refresh"]]
       \/ UNCHANGED installed
    /\ refresh' = [refresh EXCEPT ![f] = NoRefresh]
    /\ UNCHANGED <<vars, rc, lock>>

----------------------------------------------------------------------------

NoScripts ==
    /\ rc = [r \in Reconcilers |-> NotRunning]
    /\ refresh = [f \in Refreshers |-> NoRefresh]
    /\ installed = [n \in Entries |-> None]
    /\ lock = [n \in Entries |-> None]

\* The nodes are registered and have their transports; they may be in service.
PairInit ==
    /\ node \in [Nodes -> [status : {"provisioning", "active"}, ip : Addresses, wide : {TRUE}]]
    /\ \A x \in Exits : node[EntryOf[x]].status = "active" => node[x].status = "active"
    /\ eligible = 0
    /\ owed = {}
    /\ hd = [h \in Handlers |-> Idle]
    /\ failures = 0
    /\ NoScripts

ReconcileStep(r) ==
    \/ DemoteEntry(r)
    \/ DemoteExit(r)
    \/ VerifyExit(r)
    \/ ActivateExit(r)
    \/ Arm(r)
    \/ FetchR1(r)
    \/ Apply(r)
    \/ FetchR2(r)
    \/ Probe(r)
    \/ ActivateEntry(r)
    \/ Disarm(r)
    \/ RollBack(r)

ScriptNext ==
    \/ \E r \in Reconcilers : \/ \E x \in Exits : AcquireLock(r, x)
                              \/ ReconcileStep(r)
                              \/ Signal(r)
                              \/ Kill(r)
    \/ \E f \in Refreshers : SyncAccess(f) \/ \E n \in Entries : FetchSnapshot(f, n)

PairNext == ScriptNext \/ (Next /\ UNCHANGED script)

PairSpec == PairInit /\ [][PairNext]_pairVars
----------------------------------------------------------------------------
(* Properties.                                                             *)

Paired(x) == node[EntryOf[x]].status = "active" => node[x].status = "active"

\* Exit first, entry last, and the entry demoted before its exit: whatever fails
\* and however runs follow each other, no step of a script leaves an entry serving
\* without its exit, but the rollback of a run that activated the entry without
\* hearing of it (the reply was lost, or a signal came during the call).
ServingEntryHasExit ==
    [][\A x \in Exits :
         Paired(x) /\ ~Paired(x)' /\ UNCHANGED hd
           => \E r \in Reconcilers : At(r, "rollback") /\ rc[r].x = x]_pairVars

\* An entry that starts to serve admits exactly the users that are eligible at
\* that moment, if the script was the last to write its host: a ban during the
\* convergence is caught by the revision that the activation compares.
ActivationAdmitsCurrent ==
    [][\A n \in Entries :
         node[n].status # "active" /\ node'[n].status = "active"
         /\ installed[n] # None /\ installed[n].by = "script"
            => installed[n].rev = eligible]_pairVars
=============================================================================
