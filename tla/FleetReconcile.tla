--------------------------- MODULE FleetReconcile ---------------------------
(***************************************************************************)
(* The orchestrator: one loop that observes the fleet, refreshes access,    *)
(* plans from the recommendations of telemetry, and acts through scripts    *)
(* that create, rotate and destroy pairs of machines and keep the registry  *)
(* and a manifest per run up to date.  Every step may fail or be the last   *)
(* one before a crash; the loop keeps nothing in memory between cycles.     *)
(***************************************************************************)
EXTENDS Integers, Sequences, FiniteSets, SequencesExt

CONSTANTS
    Runs,        \* bound: run ids; run 1 is the pair in service at the start
    MaxActions,  \* MaxActionsPerCycle
    MaxIP,       \* bound: addresses the provider has; without one it refuses
    MaxFailures, \* bound: steps that fail
    MaxChanges,  \* bound: decisions of the operator, changed reports, due rotations
    None

ASSUME FleetConstants ==
    /\ Runs \subseteq Nat /\ IsFiniteSet(Runs) /\ 1 \in Runs
    /\ MaxActions \in Nat \ {0} /\ MaxIP \in Nat \ {0}
    /\ MaxFailures \in Nat /\ MaxChanges \in Nat

VARIABLES
    rows,      \* the registry: node -> row
    vm,        \* run -> [entry (its address, 0 for no machine), exit]
    manifest,  \* run -> [kind, ip]
    blocked,   \* nodes that the recommendations name
    input,     \* whose reports there are: the own "prober" (authoritative) or clients in the "field"
    nextIP,
    loop,      \* the loop's local state
    undone,    \* history: nodes whose record was retired and whose machines the loop leaves alone
    failures,
    changes

vars == <<rows, vm, manifest, blocked, input, nextIP, loop, undone, failures, changes>>
fleet == <<rows, vm, manifest, nextIP>>
world == <<blocked, input, undone, changes>>

Nodes == Runs \X {"entry", "exit"}
Entry(r) == <<r, "entry">>
Exit(r) == <<r, "exit">>
Peer(n) == IF n[2] = "entry" THEN Exit(n[1]) ELSE Entry(n[1])

\* A node's record; status: none, provisioning, active, degraded, draining or retired;
\* grace: the drain label (none, running within DrainGrace, over); due: rotate_after is past.
NoRow == [status |-> "none", ip |-> 0, ephemeral |-> FALSE, grace |-> "none", due |-> FALSE]
NoManifest == [kind |-> "none", ip |-> 0]
NoMachine == [entry |-> 0, exit |-> FALSE]

\* A manifest is a stub (the workspace), full, or empty: a write that was cut short.
EmptyManifest == [kind |-> "empty", ip |-> 0]

\* snap: the nodes as listed; todo: what is left of the plan; run: the run a script
\* works on; held: a row that was read and will be written.
Idle == [pc |-> "idle", snap |-> <<>>, todo |-> <<>>, run |-> 0, held |-> None]

At(pc) == loop.pc = pc
Goto(pc) == loop' = [loop EXCEPT !.pc = pc]
EndCycle == loop' = Idle

\* On to the next action of the plan.
Done == loop' = [loop EXCEPT !.pc = "act", !.todo = Tail(@), !.run = 0, !.held = None]

\* The node of the action that is executed, and its row as listed.
Node == Head(loop.todo).node
Listed == loop.snap[Node]

Put(n, row) == rows' = [rows EXCEPT ![n] = row]

\* UpdateNode: the whole row is written; the registry refuses a move into active.
UpdateNode(n, row) ==
    IF row.status = "active" /\ rows[n].status # "active"
    THEN EndCycle /\ UNCHANGED rows
    ELSE Put(n, row) /\ Done

----------------------------------------------------------------------------
(* The policy engine.                                                      *)

\* An action of the plan: [type, node].
sideEffecting(a) == a.type # "mark_degraded"

\* gatePassed: an authoritative report, or a corroborated one that a fresh own probe confirms.
gatePassed(probe) == input = "prober" \/ probe = "bad"

replaceOrRotate(row) == IF row.ephemeral THEN "rotate" ELSE "replace"

\* Step 1, for a node that the recommendations name: whatever comes out, the node is decided.
OnBlock(n, row, fresh, probe) ==
    IF ~fresh \/ row.status \in {"none", "draining", "retired", "provisioning"} THEN {}
    ELSE IF gatePassed(probe) THEN {[type |-> replaceOrRotate(row), node |-> n]}
    ELSE IF row.status = "degraded" THEN {}
    ELSE {[type |-> "mark_degraded", node |-> n]}

\* Steps 2 and 3, for the others: scheduled rotation, and the end of a drain.
Scheduled(n, row) ==
    CASE row.due /\ row.status \in {"active", "degraded"}      -> {[type |-> "rotate", node |-> n]}
      [] row.status = "draining" /\ row.grace = "over"         -> {[type |-> "retire", node |-> n]}
      [] OTHER                                                 -> {}

Wanted(nodes, named, fresh, probe) ==
    UNION {IF n \in named THEN OnBlock(n, nodes[n], fresh, probe[n]) ELSE Scheduled(n, nodes[n]) : n \in Nodes}

\* Slip: new work before the end of what was begun.
RankNewFirst == [mark_degraded |-> 0, rotate |-> 1, replace |-> 2, retire |-> 3]

Rank == [mark_degraded |-> 0, retire |-> 1, rotate |-> 2, replace |-> 3]

\* capSideEffects: the harmless ones, and at most MaxActions others.
capSideEffects(s) ==
    LET harmless == Cardinality({i \in DOMAIN s : ~sideEffecting(s[i])})
    IN SubSeq(s, 1, IF Len(s) < harmless + MaxActions THEN Len(s) ELSE harmless + MaxActions)

\* Plan: ordered by rank; the order of the listing, which breaks ties, is left open.
Plans(nodes, named, fresh, probe) ==
    {capSideEffects(s) : s \in {t \in SetToSeqs(Wanted(nodes, named, fresh, probe)) :
                                  \A i, j \in DOMAIN t : i < j => Rank[t[i].type] <= Rank[t[j].type]}}

----------------------------------------------------------------------------
(* A cycle.                                                                *)

ListNodes ==
    /\ At("idle")
    /\ loop' = [Idle EXCEPT !.pc = "sync", !.snap = rows]
    /\ UNCHANGED <<fleet, world, failures>>

\* Whether access_sync.sh reaches the entry of run r: the manifest names its machine.
Reachable(r) == manifest[r].kind = "full" /\ vm[r].entry # 0 /\ manifest[r].ip = vm[r].entry

ServingEntries == {r \in Runs : loop.snap[Entry(r)].status = "active"}

\* syncFleetAccess: every listed active entry, or the cycle ends.
SyncFleetAccess ==
    /\ At("sync")
    /\ IF \A r \in ServingEntries : Reachable(r) THEN Goto("plan") ELSE EndCycle
    /\ UNCHANGED <<fleet, world, failures>>

\* Probe dials the listed address: a machine that answers is healthy, one that is gone
\* is not, and neither is one without an address, as exits are.
Probe(n) == IF n[2] = "entry" /\ loop.snap[n].ip = vm[n[1]].entry THEN "healthy" ELSE "bad"

\* confirmSuspects: the verdicts on the nodes that are named; any probe may fail, or be off.
Probes == {[n \in Nodes |-> IF n \in heard THEN Probe(n) ELSE "none"] : heard \in SUBSET blocked}

\* The recommendations, the probes of the nodes they name, and the plan. Without recommendations, or with stale ones, nothing is made of them.
MakePlan ==
    /\ At("plan")
    /\ \E named \in {{}, blocked}, fresh \in BOOLEAN, probe \in Probes :
         \E p \in Plans(loop.snap, named, fresh, probe) :
            loop' = [loop EXCEPT !.pc = "act", !.todo = p]
    /\ UNCHANGED <<fleet, world, failures>>

FinishCycle ==
    /\ At("act") /\ loop.todo = <<>>
    /\ EndCycle
    /\ UNCHANGED <<fleet, world, failures>>

\* Slip: the old pair is drained before there is a new one.
ExecuteDrainFirst(a) ==
    CASE a.type = "rotate"  -> Goto("rotate")
      [] a.type = "replace" -> Goto("drain")
      [] a.type = "retire"  -> Goto("down")

\* execute: the first step of an action's script.
Execute(a) ==
    CASE a.type = "rotate"  -> Goto("rotate")
      [] a.type = "replace" -> Goto("stub")
      [] a.type = "retire"  -> Goto("down")

Act ==
    /\ At("act") /\ loop.todo # <<>>
    /\ sideEffecting(Head(loop.todo))
    /\ Execute(Head(loop.todo))
    /\ UNCHANGED <<fleet, world, failures>>

\* The row as it was listed, with another status.
MarkDegraded ==
    /\ At("act") /\ loop.todo # <<>>
    /\ Head(loop.todo).type = "mark_degraded"
    /\ UpdateNode(Node, [Listed EXCEPT !.status = "degraded"])
    /\ UNCHANGED <<vm, manifest, nextIP, world, failures>>

----------------------------------------------------------------------------
(* node_rotate.sh, reconcile_live.sh, and the verification.                *)

\* The node is the run's entry and the machine is the manifest's; then it is replaced.
ReplaceMachine ==
    /\ At("rotate")
    /\ IF Node[2] = "entry" /\ Reachable(Node[1]) /\ nextIP <= MaxIP
       THEN /\ vm' = [vm EXCEPT ![Node[1]].entry = nextIP]
            /\ nextIP' = nextIP + 1
            /\ loop' = [loop EXCEPT !.pc = "demote", !.run = Node[1]]
       ELSE EndCycle /\ UNCHANGED <<vm, nextIP>>
    /\ UNCHANGED <<rows, manifest, world, failures>>

\* reality_sync_node: the current row with the new address, provisioning.
DemoteRotated ==
    /\ At("demote")
    /\ Put(Node, [rows[Node] EXCEPT !.status = "provisioning", !.ip = vm[loop.run].entry, !.ephemeral = TRUE])
    /\ Goto("remember")
    /\ UNCHANGED <<vm, manifest, nextIP, world, failures>>

UpdateManifestEntry ==
    /\ At("remember")
    /\ manifest' = [manifest EXCEPT ![loop.run].ip = vm[loop.run].entry]
    /\ Goto("live")
    /\ UNCHANGED <<rows, vm, nextIP, world, failures>>

\* reconcile_live.sh (module PairActivation): both demoted, the exit activated, the
\* entry activated; it may stop on the way.  Drained and retired nodes are refused.
Demotable(n) == rows[n].status \notin {"none", "draining", "retired"}
ActivatePair ==
    /\ At("live")
    /\ LET r == loop.run
           set(e, x) == rows' = [rows EXCEPT ![Entry(r)].status = e, ![Exit(r)].status = x]
       IN \/ /\ Demotable(Entry(r)) /\ Demotable(Exit(r))
             /\ IF Reachable(r) /\ vm[r].exit
                THEN set("active", "active") /\ Goto(IF Head(loop.todo).type = "rotate" THEN "verify" ELSE "check")
                ELSE set("provisioning", "provisioning") /\ EndCycle
          \/ /\ ~Demotable(Entry(r)) /\ UNCHANGED rows /\ EndCycle
          \/ /\ Demotable(Entry(r)) /\ ~Demotable(Exit(r))
             /\ set("provisioning", rows[Exit(r)].status) /\ EndCycle
    /\ UNCHANGED <<vm, manifest, nextIP, world, failures>>

\* GetNode: the address must have changed and the node be active.
VerifyRotated ==
    /\ At("verify")
    /\ IF rows[Node].ip # Listed.ip /\ rows[Node].status = "active"
       THEN loop' = [loop EXCEPT !.pc = "reschedule", !.held = rows[Node]]
       ELSE EndCycle
    /\ UNCHANGED <<fleet, world, failures>>

\* The row just read, with a new rotate_after.
Reschedule ==
    /\ At("reschedule")
    /\ UpdateNode(Node, [loop.held EXCEPT !.due = FALSE])
    /\ UNCHANGED <<vm, manifest, nextIP, world, failures>>

----------------------------------------------------------------------------
(* node_up.sh, reconcile_live.sh, and the drain of the old pair.           *)

\* A fresh run id, if the preflight passes.
FreshRuns == {r \in Runs : manifest[r] = NoManifest /\ vm[r] = NoMachine /\ nextIP <= MaxIP}

\* Slip: the manifest is written when the machines exist.
WriteStubLate ==
    /\ At("stub")
    /\ \/ \E r \in FreshRuns : loop' = [loop EXCEPT !.pc = "apply", !.run = r]
       \/ FreshRuns = {} /\ EndCycle
    /\ UNCHANGED <<rows, vm, manifest, nextIP, world, failures>>

WriteStubManifest ==
    /\ At("stub")
    /\ \/ \E r \in FreshRuns : /\ manifest' = [manifest EXCEPT ![r].kind = "stub"]
                                /\ loop' = [loop EXCEPT !.pc = "apply", !.run = r]
       \/ FreshRuns = {} /\ EndCycle /\ UNCHANGED manifest
    /\ UNCHANGED <<rows, vm, nextIP, world, failures>>

TerraformApply ==
    /\ At("apply")
    /\ vm' = [vm EXCEPT ![loop.run] = [entry |-> nextIP, exit |-> TRUE]]
    /\ nextIP' = nextIP + 1
    /\ Goto("regEntry")
    /\ UNCHANGED <<rows, manifest, world, failures>>

RegisterEntry ==
    /\ At("regEntry")
    /\ Put(Entry(loop.run), [NoRow EXCEPT !.status = "provisioning", !.ip = vm[loop.run].entry, !.ephemeral = TRUE])
    /\ Goto("regExit")
    /\ UNCHANGED <<vm, manifest, nextIP, world, failures>>

RegisterExit ==
    /\ At("regExit")
    /\ Put(Exit(loop.run), [NoRow EXCEPT !.status = "provisioning"])
    /\ Goto("manifest")
    /\ UNCHANGED <<vm, manifest, nextIP, world, failures>>

\* write_manifest puts the full record in the place of the stub; readPair reads it.
WriteManifest ==
    /\ At("manifest")
    /\ manifest' = [manifest EXCEPT ![loop.run] = [kind |-> "full", ip |-> vm[loop.run].entry]]
    /\ Goto("live")
    /\ UNCHANGED <<rows, vm, nextIP, world, failures>>

CheckReplacement ==
    /\ At("check")
    /\ IF rows[Entry(loop.run)].status = "active" /\ rows[Exit(loop.run)].status = "active"
       THEN Goto("drain") ELSE EndCycle
    /\ UNCHANGED <<fleet, world, failures>>

\* The rows as listed, draining from now on: the node, then the other one of its
\* pair if it was listed.
Drained(n) == [loop.snap[n] EXCEPT !.status = "draining", !.grace = "running"]
DrainNode ==
    /\ At("drain")
    /\ Put(Node, Drained(Node))
    /\ IF loop.snap[Peer(Node)].status = "none" THEN Done ELSE Goto("drainPeer")
    /\ UNCHANGED <<vm, manifest, nextIP, world, failures>>

DrainPeer ==
    /\ At("drainPeer")
    /\ Put(Peer(Node), Drained(Peer(Node)))
    /\ Done
    /\ UNCHANGED <<vm, manifest, nextIP, world, failures>>

----------------------------------------------------------------------------
(* node_down.sh, and the mark.                                             *)

Retired(n) == [rows[n] EXCEPT !.status = "retired"]

\* Both records are retired, each best effort.
RetireRecords ==
    /\ At("down")
    /\ LET r == Node[1]
           all == {n \in {Entry(r), Exit(r)} : rows[n].status # "none"}
       IN IF manifest[r].kind # "full" THEN EndCycle /\ UNCHANGED <<rows, failures>>
          ELSE /\ \E lost \in SUBSET all :
                    /\ failures + Cardinality(lost) <= MaxFailures
                    /\ failures' = failures + Cardinality(lost)
                    /\ rows' = [n \in Nodes |-> IF n \in all \ lost THEN Retired(n) ELSE rows[n]]
               /\ Goto("destroy")
    /\ UNCHANGED <<vm, manifest, nextIP, world>>

TerraformDestroy ==
    /\ At("destroy")
    /\ vm' = [vm EXCEPT ![Node[1]] = NoMachine]
    /\ Goto("mark")
    /\ UNCHANGED <<rows, manifest, nextIP, world, failures>>

\* The node is read again and marked; when it cannot be read, that is that.
MarkRetired ==
    /\ At("mark")
    /\ \/ Put(Node, Retired(Node)) /\ UNCHANGED failures
       \/ failures < MaxFailures /\ failures' = failures + 1 /\ UNCHANGED rows
    /\ Done
    /\ UNCHANGED <<vm, manifest, nextIP, world>>

----------------------------------------------------------------------------
(* What goes wrong.                                                        *)

\* A step fails or the process dies: nothing of the cycle is left, and what the step
\* does may have happened in part: terraform leaves one machine of two, or none; the
\* activation leaves both nodes provisioning, or the exit active.
StepFails ==
    /\ ~At("idle")
    /\ failures < MaxFailures
    /\ failures' = failures + 1
    /\ \/ UNCHANGED <<rows, vm, nextIP>>
       \/ /\ At("rotate") /\ Node[2] = "entry" /\ Reachable(Node[1])
          /\ vm' = [vm EXCEPT ![Node[1]].entry = 0]
          /\ UNCHANGED <<rows, nextIP>>
       \/ /\ At("apply")
          /\ vm' \in {[vm EXCEPT ![loop.run].exit = TRUE], [vm EXCEPT ![loop.run].entry = nextIP]}
          /\ nextIP' = nextIP + 1
          /\ UNCHANGED rows
       \/ /\ At("destroy")
          /\ vm' \in {[vm EXCEPT ![Node[1]].entry = 0], [vm EXCEPT ![Node[1]].exit = FALSE]}
          /\ UNCHANGED <<rows, nextIP>>
       \/ /\ At("live") /\ Demotable(Entry(loop.run)) /\ Demotable(Exit(loop.run))
          /\ \E x \in {"provisioning", "active"} :
               rows' = [rows EXCEPT ![Entry(loop.run)].status = "provisioning", ![Exit(loop.run)].status = x]
          /\ UNCHANGED <<vm, nextIP>>
    /\ undone' = IF At("destroy") THEN undone \cup {Node, Peer(Node)} ELSE undone
    /\ EndCycle
    /\ UNCHANGED <<manifest, blocked, input, changes>>

\* The manifest is written in place: the file is emptied, and then the write fails or
\* the script is killed.
WriteCutShort ==
    /\ failures < MaxFailures /\ failures' = failures + 1
    /\ \/ At("manifest") /\ manifest' = [manifest EXCEPT ![loop.run] = EmptyManifest]
       \/ At("stub") /\ \E r \in FreshRuns : manifest' = [manifest EXCEPT ![r] = EmptyManifest]
    /\ EndCycle
    /\ UNCHANGED <<rows, vm, nextIP, world>>

----------------------------------------------------------------------------
(* The rest of the world.                                                  *)

Change == changes < MaxChanges /\ changes' = changes + 1

\* Reports about a node come, or end.
ReportsChange ==
    /\ Change
    /\ \E n \in Nodes : /\ rows[n].status # "none"
                        /\ blocked' = IF n \in blocked THEN blocked \ {n} ELSE blocked \cup {n}
    /\ UNCHANGED <<fleet, input, undone, loop, failures>>

RotationDue ==
    /\ Change
    /\ input = "prober"
    /\ \E r \in Runs : rows[Entry(r)].status = "active" /\ Put(Entry(r), [rows[Entry(r)] EXCEPT !.due = TRUE])
    /\ UNCHANGED <<vm, manifest, nextIP, blocked, input, undone, loop, failures>>

GraceElapses ==
    /\ \E n \in Nodes : rows[n].grace = "running" /\ Put(n, [rows[n] EXCEPT !.grace = "over"])
    /\ UNCHANGED <<vm, manifest, nextIP, world, loop, failures>>

\* The operator retires a node, or drains one without the loop's label.
OperatorDecides ==
    /\ Change
    /\ \E n \in Nodes, s \in {"retired", "draining"} :
         /\ rows[n].status \notin {"none", "retired", s}
         /\ Put(n, [rows[n] EXCEPT !.status = s])
         /\ undone' = IF s = "retired" THEN undone \cup {n} ELSE undone
    /\ UNCHANGED <<vm, manifest, nextIP, blocked, input, loop, failures>>

----------------------------------------------------------------------------

InService(eph) ==
    [n \in Nodes |-> CASE n = Entry(1) -> [NoRow EXCEPT !.status = "active", !.ip = 1, !.ephemeral = eph]
                       [] n = Exit(1)  -> [NoRow EXCEPT !.status = "active"]
                       [] OTHER        -> NoRow]

Init ==
    /\ \E eph \in BOOLEAN : rows = InService(eph)
    /\ vm = [r \in Runs |-> IF r = 1 THEN [entry |-> 1, exit |-> TRUE] ELSE NoMachine]
    /\ manifest = [r \in Runs |-> IF r = 1 THEN [kind |-> "full", ip |-> 1] ELSE NoManifest]
    /\ blocked = {}
    /\ input \in {"prober", "field"}
    /\ nextIP = 2
    /\ loop = Idle
    /\ undone = {}
    /\ failures = 0 /\ changes = 0

LoopStep ==
    \/ ListNodes \/ SyncFleetAccess \/ MakePlan \/ FinishCycle \/ Act \/ MarkDegraded
    \/ ReplaceMachine \/ DemoteRotated \/ UpdateManifestEntry \/ ActivatePair \/ VerifyRotated \/ Reschedule
    \/ WriteStubManifest \/ TerraformApply \/ RegisterEntry \/ RegisterExit \/ WriteManifest
    \/ CheckReplacement \/ DrainNode \/ DrainPeer
    \/ RetireRecords \/ TerraformDestroy \/ MarkRetired

Next ==
    LoopStep \/ StepFails \/ WriteCutShort \/ ReportsChange \/ RotationDue \/ GraceElapses \/ OperatorDecides

\* Run ticks for as long as the process is up, and time passes.
Spec == Init /\ [][Next]_vars /\ WF_vars(LoopStep) /\ WF_vars(GraceElapses)

----------------------------------------------------------------------------
(* Properties.                                                             *)

\* Whatever step of node_up.sh fails, a machine that costs money can be found: the
\* workspace it is in is in the run's manifest, or, when the rewrite of the stub is
\* what failed, in the labels of the run's records.
MachinesCanBeFound ==
    \A r \in Runs : vm[r] # NoMachine => \/ manifest[r].kind \in {"stub", "full"}
                                         \/ manifest[r].kind = "empty" /\ rows[Entry(r)].status # "none"

\* A pair that clients can use.
Serving == {r \in Runs : /\ rows[Entry(r)].status = "active" /\ rows[Exit(r)].status = "active"
                         /\ vm[r].entry = rows[Entry(r)].ip /\ vm[r].exit}

\* The operator took a node of the replacement out after the loop had checked it.
Withdrawn ==
    /\ loop.pc \in {"drain", "drainPeer"}
    /\ \E n \in Nodes : n[1] = loop.run /\ rows[n].status \in {"draining", "retired"}

\* Draining, retiring and destroying never takes the last pair in service away: not
\* after failed replacements, nor when the pair was drained in part.  Only an operator
\* who takes the replacement out between its check and the drain can bring that about.
LastPairStays ==
    [][Serving # {} /\ loop.pc \in {"drain", "drainPeer", "down", "destroy", "mark"} /\ UNCHANGED <<blocked, changes>>
         => Serving' # {} \/ Withdrawn]_vars

\* The loop can do nothing: it sees an active entry whose machine it cannot reach.
Stalled == \E r \in Runs : rows[Entry(r)].status = "active" /\ ~Reachable(r)

\* A drain that is over ends with the machines of the pair destroyed, unless somebody else
\* retired the record or the destroy failed after the script had; reports must not name
\* the node for ever, nor the access refresh of another entry stop every cycle.
DrainedIsTornDown ==
    \A n \in Nodes :
        []<>(n \notin blocked) /\ []<>~Stalled =>
            ((rows[n].status = "draining" /\ rows[n].grace = "over") ~> (vm[n[1]] = NoMachine \/ n \in undone))
=============================================================================
