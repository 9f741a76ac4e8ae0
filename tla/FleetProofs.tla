---------------------------- MODULE FleetProofs ----------------------------
(***************************************************************************)
(* Proofs about the orchestrator, for any number of runs, actions per       *)
(* cycle, addresses, failures and changes.                                  *)
(*                                                                         *)
(* A run has its manifest before its first machine, and its records before  *)
(* the manifest is written anew.  A replacement is a run that the listing   *)
(* of the cycle does not know, and it serves when the old pair is drained,  *)
(* or an operator took it out; a node that was listed as draining is not    *)
(* brought back, so what is torn down does not serve.                       *)
(***************************************************************************)
EXTENDS FleetReconcile, FiniteSetTheorems, SequenceTheorems, TLAPS

RowShape(r) == r = [status |-> r.status, ip |-> r.ip, ephemeral |-> r.ephemeral, grace |-> r.grace, due |-> r.due]
LoopShape(l) == l = [pc |-> l.pc, snap |-> l.snap, todo |-> l.todo, run |-> l.run, held |-> l.held]

RowsShape(rs) == rs = [n \in Nodes |-> rs[n]] /\ \A n \in Nodes : RowShape(rs[n])

MachinesShape(v) == v = [r \in Runs |-> v[r]] /\ \A r \in Runs : v[r] = [entry |-> v[r].entry, exit |-> v[r].exit]
ManifestsShape(m) == m = [r \in Runs |-> m[r]] /\ \A r \in Runs : m[r] = [kind |-> m[r].kind, ip |-> m[r].ip]

Shapes == RowsShape(rows) /\ MachinesShape(vm) /\ ManifestsShape(manifest) /\ LoopShape(loop)

Known(r) == manifest[r].kind # "none"

\* Every machine and every record has a manifest.
Accounted ==
    /\ \A r \in Runs : vm[r] # NoMachine => Known(r)
    /\ \A n \in Nodes : rows[n].status # "none" => Known(n[1])
    /\ Known(1)

Leaving == {"draining", "retired"}

\* A node of the run is on its way out.
TakenOut(r) == \E n \in Nodes : n[1] = r /\ rows[n].status \in Leaving

\* The listing of the cycle: what it names has a manifest, and what was draining stays so.
ListingOK ==
    /\ RowsShape(loop.snap)
    /\ \A n \in Nodes : loop.snap[n].status # "none" => Known(n[1])
    /\ \A n \in Nodes : loop.snap[n].status = "draining" => rows[n].status \in Leaving

\* The actions that the policy may want, given the listing.
Sound(snap) ==
    {a \in [type : {"mark_degraded", "rotate", "replace", "retire"}, node : Nodes] :
        IF a.type = "retire" THEN snap[a.node].status = "draining"
        ELSE snap[a.node].status \notin {"none", "draining", "retired"}}

Rotating == {"rotate", "demote", "remember", "verify", "reschedule"}
Replacing == {"stub", "apply", "regEntry", "regExit", "manifest", "check", "drain", "drainPeer"}
Retiring == {"down", "destroy", "mark"}

Type == Head(loop.todo).type

\* The script belongs to the first action of the plan.
PlanOK ==
    /\ loop.todo \in Seq(Sound(loop.snap))
    /\ loop.pc \in {"sync", "plan", "act", "live"} \cup Rotating \cup Replacing \cup Retiring
    /\ loop.pc \notin {"sync", "plan", "act"} => loop.todo # <<>>
    /\ loop.pc \in Rotating => Type = "rotate"
    /\ loop.pc \in Replacing => Type = "replace"
    /\ loop.pc \in Retiring => Type = "retire"
    /\ loop.pc = "live" => Type \in {"rotate", "replace"}

\* Where a script has made a new pair, and where the pair has its records.
Creating == loop.pc \in Replacing \ {"stub"} \/ (loop.pc = "live" /\ Type = "replace")
Created == Creating /\ loop.pc \notin {"apply", "regEntry"}

RunOK ==
    /\ loop.pc \in {"demote", "remember"} \/ (loop.pc = "live" /\ Type = "rotate") => loop.run = Node[1]
    /\ Creating => /\ loop.run \in Runs /\ loop.run # 1 /\ Known(loop.run)
                   /\ loop.snap[Entry(loop.run)].status = "none" /\ loop.snap[Exit(loop.run)].status = "none"
    /\ Created => rows[Entry(loop.run)].ip = vm[loop.run].entry
    /\ loop.pc = "check" => vm[loop.run].exit
    /\ loop.pc \in {"drain", "drainPeer"} => loop.run \in Serving \/ TakenOut(loop.run)
    /\ loop.pc = "reschedule" => RowShape(loop.held)

\* The inductive invariant.
FleetInv ==
    /\ Shapes
    /\ Accounted
    /\ loop.pc # "idle" => ListingOK /\ PlanOK /\ RunOK

----------------------------------------------------------------------------
(* Nodes, rows and the loop's record.                                      *)

LEMMA NodeFacts ==
    /\ \A r \in Runs : /\ Entry(r) \in Nodes /\ Exit(r) \in Nodes /\ Entry(r) # Exit(r)
                       /\ Entry(r)[1] = r /\ Exit(r)[1] = r
    /\ \A n \in Nodes : /\ n[1] \in Runs /\ Peer(n) \in Nodes /\ Peer(n)[1] = n[1]
                        /\ n = Entry(n[1]) \/ n = Exit(n[1])
  BY DEF Nodes, Entry, Exit, Peer

LEMMA PutRow ==
    ASSUME NEW n \in Nodes, NEW row, RowsShape(rows), RowShape(row), Put(n, row)
    PROVE  RowsShape(rows') /\ rows'[n] = row /\ \A m \in Nodes : m # n => rows'[m] = rows[m]
  BY DEF RowsShape, Put

\* The script goes on at pc.
Moved(pc) ==
    /\ LoopShape(loop') /\ loop'.pc = pc /\ loop'.snap = loop.snap /\ loop'.todo = loop.todo
    /\ loop'.run = loop.run /\ loop'.held = loop.held

LEMMA GotoMoves ==
    ASSUME LoopShape(loop), NEW pc, Goto(pc)
    PROVE  Moved(pc)
  BY DEF Goto, Moved, LoopShape

LEMMA EndIsIdle ==
    ASSUME EndCycle
    PROVE  LoopShape(loop') /\ loop'.pc = "idle"
  BY DEF EndCycle, Idle, LoopShape

\* The action that is executed.
LEMMA CurrentAction ==
    ASSUME NEW snap, NEW todo \in Seq(Sound(snap)), todo # <<>>
    PROVE  Head(todo) \in Sound(snap) /\ Tail(todo) \in Seq(Sound(snap))
  BY HeadTailProperties

LEMMA CurrentNode ==
    ASSUME PlanOK, loop.todo # <<>>
    PROVE  /\ Node \in Nodes
           /\ Type = "retire" => loop.snap[Node].status = "draining"
           /\ Type # "retire" => loop.snap[Node].status \notin {"none", "draining", "retired"}
<1>1. Head(loop.todo) \in Sound(loop.snap)
  BY CurrentAction DEF PlanOK
<1>. QED
  BY <1>1 DEF Sound, Node, Type

LEMMA ServingIs ==
    \A r \in Runs : r \in Serving <=> /\ rows[Entry(r)].status = "active" /\ rows[Exit(r)].status = "active"
                                      /\ vm[r].entry = rows[Entry(r)].ip /\ vm[r].exit
  BY DEF Serving

----------------------------------------------------------------------------
(* Steps of the world.                                                     *)

\* Records change, but not their addresses; nodes are drained or retired.
LEMMA RecordsMove ==
    ASSUME FleetInv, UNCHANGED <<vm, manifest, loop>>, RowsShape(rows'),
           \A n \in Nodes : /\ rows'[n].ip = rows[n].ip
                            /\ \/ rows'[n].status = rows[n].status
                               \/ rows[n].status # "none" /\ rows'[n].status \in Leaving
    PROVE  FleetInv'
<1>1. Shapes'
  BY DEF FleetInv, Shapes
<1>2. Accounted'
  BY NodeFacts DEF FleetInv, Accounted, Known
<1>3. loop.pc # "idle" => ListingOK'
  BY DEF FleetInv, ListingOK, Known
<1>4. loop.pc # "idle" => PlanOK'
  BY DEF FleetInv, PlanOK, Type
<1>5. ASSUME loop.pc # "idle" PROVE RunOK'
  <2>1. RunOK /\ (Creating' <=> Creating) /\ (Created' <=> Created) /\ Node' = Node /\ Type' = Type
    BY <1>5 DEF FleetInv, Creating, Created, Node, Type
  <2>2. Creating => loop.run \in Runs /\ loop.run # 1
    BY <2>1 DEF RunOK
  <2>3. Creating => rows'[Entry(loop.run)].ip = rows[Entry(loop.run)].ip
    BY <2>2, NodeFacts
  <2>4. loop.pc \in {"drain", "drainPeer"} => loop.run \in Serving' \/ TakenOut(loop.run)'
    <3> SUFFICES ASSUME loop.pc \in {"drain", "drainPeer"} PROVE loop.run \in Serving' \/ TakenOut(loop.run)'
      OBVIOUS
    <3>1. Creating /\ (loop.run \in Serving \/ TakenOut(loop.run))
      BY <2>1 DEF RunOK, Creating, Replacing
    <3>2. CASE \E n \in Nodes : n[1] = loop.run /\ rows'[n].status \in Leaving
      BY <3>2 DEF TakenOut
    <3>3. CASE \A n \in Nodes : n[1] = loop.run => rows'[n].status = rows[n].status
      <4>1. CASE TakenOut(loop.run)
        BY <3>3, <4>1 DEF TakenOut
      <4>2. CASE loop.run \in Serving
        <5>1. /\ rows'[Entry(loop.run)].status = rows[Entry(loop.run)].status
              /\ rows'[Exit(loop.run)].status = rows[Exit(loop.run)].status
          BY <3>1, <3>3, <2>2, NodeFacts
        <5>. QED
          BY <2>2, <2>3, <3>1, <4>2, <5>1 DEF Serving
      <4>. QED
        BY <3>1, <4>1, <4>2
    <3>. QED
      BY <3>2, <3>3
  <2>. QED
    BY <2>1, <2>2, <2>3, <2>4 DEF RunOK, Known, Created
<1>. QED
  BY <1>1, <1>2, <1>3, <1>4, <1>5 DEF FleetInv

LEMMA ReportsKeep ==
    ASSUME FleetInv, ReportsChange
    PROVE  FleetInv'
<1>1. UNCHANGED <<rows, vm, manifest, loop>>
  BY DEF ReportsChange, fleet
<1>. QED
  BY <1>1, RecordsMove DEF FleetInv, Shapes

LEMMA RotationDueKeeps ==
    ASSUME FleetInv, RotationDue
    PROVE  FleetInv'
<1>1. UNCHANGED <<vm, manifest, loop>>
  BY DEF RotationDue
<1>2. PICK r \in Runs : Put(Entry(r), [rows[Entry(r)] EXCEPT !.due = TRUE])
  BY DEF RotationDue
<1>3. PICK n \in Nodes : n = Entry(r)
  BY NodeFacts
<1>4. PICK b : b = TRUE
  OBVIOUS
<1>5. PICK row : row = [rows[n] EXCEPT !.due = b]
  OBVIOUS
<1>6. RowShape(rows[n]) /\ RowsShape(rows)
  BY DEF FleetInv, Shapes, RowsShape
<1>7. RowShape(row)
  BY <1>5, <1>6 DEF RowShape
<1>8. row.status = rows[n].status /\ row.ip = rows[n].ip
  BY <1>5, <1>6 DEF RowShape
<1>9. Put(n, row)
  BY <1>2, <1>3, <1>4, <1>5
<1>10. RowsShape(rows') /\ rows'[n] = row /\ \A m \in Nodes : m # n => rows'[m] = rows[m]
  BY <1>6, <1>7, <1>9, PutRow
<1>. QED
  BY <1>1, <1>8, <1>10, RecordsMove

LEMMA GraceKeeps ==
    ASSUME FleetInv, GraceElapses
    PROVE  FleetInv'
<1>1. UNCHANGED <<vm, manifest, loop>>
  BY DEF GraceElapses
<1>2. PICK n \in Nodes : Put(n, [rows[n] EXCEPT !.grace = "over"])
  BY DEF GraceElapses
<1>3. PICK row : row = [rows[n] EXCEPT !.grace = "over"]
  OBVIOUS
<1>4. RowShape(rows[n]) /\ RowsShape(rows)
  BY DEF FleetInv, Shapes, RowsShape
<1>5. RowShape(row)
  BY <1>3, <1>4 DEF RowShape
<1>6. row.status = rows[n].status /\ row.ip = rows[n].ip
  BY <1>3, <1>4 DEF RowShape
<1>7. Put(n, row)
  BY <1>2, <1>3
<1>8. RowsShape(rows') /\ rows'[n] = row /\ \A m \in Nodes : m # n => rows'[m] = rows[m]
  BY <1>4, <1>5, <1>7, PutRow
<1>. QED
  BY <1>1, <1>6, <1>8, RecordsMove

LEMMA OperatorKeeps ==
    ASSUME FleetInv, OperatorDecides
    PROVE  FleetInv'
<1>1. UNCHANGED <<vm, manifest, loop>>
  BY DEF OperatorDecides
<1>2. PICK n \in Nodes, s \in Leaving : rows[n].status # "none" /\ Put(n, [rows[n] EXCEPT !.status = s])
  BY DEF OperatorDecides, Leaving
<1>3. n \in Nodes /\ rows[n].status # "none"
  BY <1>2
<1>4. PICK row : row = [rows[n] EXCEPT !.status = s]
  OBVIOUS
<1>5. RowShape(rows[n]) /\ RowsShape(rows)
  BY <1>3 DEF FleetInv, Shapes, RowsShape
<1>6. RowShape(row)
  BY <1>4, <1>5 DEF RowShape
<1>7. row.status = s /\ row.ip = rows[n].ip
  BY <1>4, <1>5 DEF RowShape
<1>8. Put(n, row)
  BY <1>2, <1>4
<1>9. RowsShape(rows') /\ rows'[n] = row /\ \A m \in Nodes : m # n => rows'[m] = rows[m]
  BY <1>3, <1>5, <1>6, <1>8, PutRow
<1>. QED
  BY <1>1, <1>3, <1>7, <1>9, RecordsMove DEF Leaving

----------------------------------------------------------------------------
(* Steps of the loop.                                                      *)

\* What a step does to the fleet agrees with the listing of the cycle.
Agrees ==
    /\ RowsShape(rows') /\ MachinesShape(vm') /\ ManifestsShape(manifest')
    /\ Accounted'
    /\ \A r \in Runs : Known(r) => Known(r)'
    /\ \A n \in Nodes : loop.snap[n].status = "draining" => rows'[n].status \in Leaving

LEMMA UnchangedAgrees ==
    ASSUME FleetInv, loop.pc # "idle", UNCHANGED <<rows, vm, manifest>>
    PROVE  Agrees
  BY DEF FleetInv, Shapes, ListingOK, Agrees, Accounted, Known

\* A record is written.
LEMMA PutAgrees ==
    ASSUME FleetInv, loop.pc # "idle", UNCHANGED <<vm, manifest>>, NEW n \in Nodes, NEW row,
           RowShape(row), Put(n, row), Known(n[1]),
           loop.snap[n].status = "draining" => row.status \in Leaving
    PROVE  Agrees
<1>1. RowsShape(rows') /\ rows'[n] = row /\ \A m \in Nodes : m # n => rows'[m] = rows[m]
  BY PutRow DEF FleetInv, Shapes
<1>2. Accounted'
  BY <1>1 DEF FleetInv, Accounted, Known
<1>3. \A m \in Nodes : loop.snap[m].status = "draining" => rows'[m].status \in Leaving
  BY <1>1 DEF FleetInv, ListingOK
<1>. QED
  BY <1>1, <1>2, <1>3 DEF FleetInv, Shapes, Agrees, Known

\* The cycle ends.
LEMMA EndKeeps ==
    ASSUME Agrees, EndCycle
    PROVE  FleetInv'
  BY EndIsIdle DEF Agrees, FleetInv, Shapes

LEMMA ListingKept ==
    ASSUME FleetInv, loop.pc # "idle", Agrees, loop'.snap = loop.snap
    PROVE  ListingOK'
<1>1. RowsShape(loop'.snap)
  BY DEF FleetInv, ListingOK
<1>2. \A n \in Nodes : loop.snap[n].status # "none" => Known(n[1])'
  BY NodeFacts DEF FleetInv, ListingOK, Agrees
<1>3. \A n \in Nodes : loop.snap[n].status = "draining" => rows'[n].status \in Leaving
  BY DEF Agrees
<1>. QED
  BY <1>1, <1>2, <1>3 DEF ListingOK

\* On to the next action of the plan.
LEMMA DoneKeeps ==
    ASSUME FleetInv, loop.pc # "idle", loop.todo # <<>>, Agrees, Done
    PROVE  FleetInv'
<1>1. LoopShape(loop)
  BY DEF FleetInv, Shapes
<1>2. PICK z, t : z = 0 /\ t = Tail(loop.todo)
  OBVIOUS
<1>3. loop' = [loop EXCEPT !.pc = "act", !.todo = t, !.run = z, !.held = None]
  BY <1>2 DEF Done
<1>4. LoopShape(loop')
  BY <1>1, <1>3 DEF LoopShape
<1>5. loop'.pc = "act" /\ loop'.snap = loop.snap /\ loop'.todo = t
  BY <1>1, <1>3 DEF LoopShape
<1>6. PlanOK'
  <2>1. t \in Seq(Sound(loop.snap))
    BY <1>2, CurrentAction DEF FleetInv, PlanOK
  <2>. QED
    BY <1>5, <2>1 DEF PlanOK, Rotating, Replacing, Retiring
<1>7. RunOK'
  BY <1>5 DEF RunOK, Creating, Created, Replacing
<1>8. ListingOK'
  BY <1>5, ListingKept
<1>. QED
  BY <1>4, <1>6, <1>7, <1>8 DEF FleetInv, Shapes, Agrees

\* A script that may be at pc.
Suits(pc) ==
    /\ loop.todo # <<>>
    /\ \/ pc \in Rotating /\ Type = "rotate"
       \/ pc \in Replacing /\ Type = "replace"
       \/ pc \in Retiring /\ Type = "retire"
       \/ pc = "live" /\ Type \in {"rotate", "replace"}

\* The script goes on.
LEMMA ScriptKeeps ==
    ASSUME FleetInv, loop.pc # "idle", Agrees, LoopShape(loop'), loop'.snap = loop.snap, loop'.todo = loop.todo,
           Suits(loop'.pc), RunOK'
    PROVE  FleetInv'
<1>1. Type' = Type
  BY DEF Type
<1>2. PlanOK'
  BY <1>1 DEF FleetInv, PlanOK, Suits, Rotating, Replacing, Retiring
<1>3. ListingOK'
  BY ListingKept
<1>4. Shapes' /\ Accounted'
  BY DEF Shapes, Agrees
<1>. QED
  BY <1>2, <1>3, <1>4 DEF FleetInv

LEMMA ListNodesKeeps ==
    ASSUME FleetInv, ListNodes
    PROVE  FleetInv'
<1>1. UNCHANGED <<rows, vm, manifest>>
  BY DEF ListNodes, fleet
<1>2. LoopShape(Idle) /\ Idle.todo = <<>>
  BY DEF LoopShape, Idle
<1>3. loop' = [Idle EXCEPT !.pc = "sync", !.snap = rows]
  BY DEF ListNodes
<1>4. LoopShape(loop')
  BY <1>2, <1>3 DEF LoopShape
<1>5. loop'.pc = "sync" /\ loop'.snap = rows /\ loop'.todo = <<>>
  BY <1>2, <1>3 DEF LoopShape
<1>6. ListingOK'
  BY <1>1, <1>5 DEF FleetInv, Shapes, Accounted, ListingOK, Known, Leaving
<1>7. PlanOK'
  BY <1>5 DEF PlanOK, Rotating, Replacing, Retiring
<1>8. RunOK'
  BY <1>5 DEF RunOK, Creating, Created, Replacing
<1>. QED
  BY <1>1, <1>4, <1>6, <1>7, <1>8 DEF FleetInv, Shapes, Accounted, Known

LEMMA SyncKeeps ==
    ASSUME FleetInv, SyncFleetAccess
    PROVE  FleetInv'
<1>1. UNCHANGED <<rows, vm, manifest>> /\ loop.pc = "sync" /\ (Goto("plan") \/ EndCycle)
  BY DEF SyncFleetAccess, fleet, At
<1>2. Agrees
  BY <1>1, UnchangedAgrees
<1>3. CASE EndCycle
  BY <1>2, <1>3, EndKeeps
<1>4. CASE Goto("plan")
  <2>1. Moved("plan")
    BY <1>4, GotoMoves DEF FleetInv, Shapes
  <2>2. PlanOK'
    BY <1>1, <2>1 DEF FleetInv, PlanOK, Moved, Rotating, Replacing, Retiring
  <2>3. RunOK'
    BY <2>1 DEF RunOK, Creating, Created, Replacing, Moved
  <2>4. ListingOK'
    BY <1>1, <1>2, <2>1, ListingKept DEF Moved
  <2>. QED
    BY <1>2, <2>1, <2>2, <2>3, <2>4 DEF FleetInv, Shapes, Agrees, Moved
<1>. QED
  BY <1>1, <1>3, <1>4

----------------------------------------------------------------------------
(* The plan.                                                               *)

ActionTypes == {"mark_degraded", "rotate", "replace", "retire"}

LEMMA NodesFinite == IsFiniteSet(Nodes)
<1>1. IsFiniteSet({"entry", "exit"})
  <2>1. IsFiniteSet({"entry"})
    BY FS_Singleton
  <2>2. {"entry", "exit"} = {"entry"} \cup {"exit"}
    OBVIOUS
  <2>. QED
    BY <2>1, <2>2, FS_AddElement
<1>. QED
  BY <1>1, FS_Product, FleetConstants DEF Nodes

LEMMA ActionsFinite == IsFiniteSet([type : ActionTypes, node : Nodes])
<1> DEFINE f == [x \in ActionTypes \X Nodes |-> [type |-> x[1], node |-> x[2]]]
           A == [type : ActionTypes, node : Nodes]
<1>1. IsFiniteSet(ActionTypes)
  <2>1. IsFiniteSet({"mark_degraded"})
    BY FS_Singleton
  <2>2. ActionTypes = (({"mark_degraded"} \cup {"rotate"}) \cup {"replace"}) \cup {"retire"}
    BY DEF ActionTypes
  <2>. QED
    BY <2>1, <2>2, FS_AddElement
<1>2. IsFiniteSet(ActionTypes \X Nodes)
  BY <1>1, NodesFinite, FS_Product
<1>3. f \in [ActionTypes \X Nodes -> A]
  OBVIOUS
<1>4. \A a \in A : \E x \in ActionTypes \X Nodes : f[x] = a
  <2> TAKE a \in A
  <2>1. <<a.type, a.node>> \in ActionTypes \X Nodes /\ a = [type |-> a.type, node |-> a.node]
    OBVIOUS
  <2>. QED
    BY <2>1
<1> HIDE DEF f
<1>5. f \in Surjection(ActionTypes \X Nodes, A)
  BY <1>3, <1>4 DEF Surjection
<1>. QED
  BY <1>2, <1>5, FS_Surjection

\* The policy wants a teardown of nodes that are draining, and other actions of nodes
\* in service.
LEMMA WantedIsSound ==
    ASSUME NEW snap, NEW named, NEW fresh, NEW probe
    PROVE  Wanted(snap, named, fresh, probe) \subseteq Sound(snap)
<1> SUFFICES ASSUME NEW n \in Nodes,
                    NEW a \in (IF n \in named THEN OnBlock(n, snap[n], fresh, probe[n]) ELSE Scheduled(n, snap[n]))
             PROVE  a \in Sound(snap)
  BY DEF Wanted
<1>1. CASE a \in OnBlock(n, snap[n], fresh, probe[n])
  <2>1. snap[n].status \notin {"none", "draining", "retired"}
    BY <1>1 DEF OnBlock
  <2>2. PICK t \in {"mark_degraded", "rotate", "replace"} : a = [type |-> t, node |-> n]
    BY <1>1 DEF OnBlock, replaceOrRotate
  <2>. QED
    BY <2>1, <2>2 DEF Sound
<1>2. CASE a \in Scheduled(n, snap[n])
  <2>1. CASE snap[n].due /\ snap[n].status \in {"active", "degraded"}
    BY <1>2, <2>1 DEF Scheduled, Sound
  <2>2. CASE ~(snap[n].due /\ snap[n].status \in {"active", "degraded"})
    BY <1>2, <2>2 DEF Scheduled, Sound
  <2>. QED
    BY <2>1, <2>2
<1>. QED
  BY <1>1, <1>2

LEMMA CapKeepsSeq ==
    ASSUME NEW S, NEW m \in Nat, NEW s \in [1 .. m -> S]
    PROVE  capSideEffects(s) \in Seq(S)
<1>1. s \in Seq(S) /\ DOMAIN s = 1 .. m /\ Len(s) = m
  OBVIOUS
<1> DEFINE H == {i \in DOMAIN s : ~sideEffecting(s[i])}
           k == IF Len(s) < Cardinality(H) + MaxActions THEN Len(s) ELSE Cardinality(H) + MaxActions
<1>2. IsFiniteSet(1 .. m)
  BY FS_Interval
<1>3. Cardinality(H) \in Nat
  <2>1. H \in SUBSET (1 .. m)
    BY <1>1
  <2> HIDE DEF H
  <2>. QED
    BY <1>2, <2>1, FS_Subset, FS_CardinalityType
<1>4. capSideEffects(s) = SubSeq(s, 1, k)
  BY DEF capSideEffects
<1> HIDE DEF H
<1>5. k \in Int /\ k <= m
  BY <1>1, <1>3, FleetConstants
<1> HIDE DEF k
<1>6. \A i \in 1 .. k : s[i] \in S
  BY <1>5
<1>. QED
  BY <1>4, <1>5, <1>6, SubSeqProperties

LEMMA PlansAreSound ==
    ASSUME NEW snap, NEW named, NEW fresh, NEW probe, NEW p \in Plans(snap, named, fresh, probe)
    PROVE  p \in Seq(Sound(snap))
<1> DEFINE W == Wanted(snap, named, fresh, probe)
<1>1. W \subseteq Sound(snap)
  BY WantedIsSound
<1>2. IsFiniteSet(W)
  <2>1. W \in SUBSET [type : ActionTypes, node : Nodes]
    BY <1>1 DEF Sound, ActionTypes
  <2>. QED
    BY <2>1, ActionsFinite, FS_Subset
<1>3. Cardinality(W) \in Nat
  BY <1>2, FS_CardinalityType
<1>4. PICK s \in SetToSeqs(W) : p = capSideEffects(s)
  BY DEF Plans
<1>5. s \in [1 .. Cardinality(W) -> Sound(snap)]
  <2> HIDE DEF W
  <2>1. s \in [1 .. Cardinality(W) -> W]
    BY <1>4 DEF SetToSeqs
  <2>. QED
    BY <1>1, <2>1
<1>. QED
  BY <1>3, <1>4, <1>5, CapKeepsSeq

LEMMA MakePlanKeeps ==
    ASSUME FleetInv, MakePlan
    PROVE  FleetInv'
<1>1. UNCHANGED <<rows, vm, manifest>> /\ loop.pc = "plan"
  BY DEF MakePlan, fleet, At
<1>2. Agrees
  BY <1>1, UnchangedAgrees
<1>3. PICK p \in Seq(Sound(loop.snap)) : loop' = [loop EXCEPT !.pc = "act", !.todo = p]
  BY PlansAreSound DEF MakePlan
<1>4. LoopShape(loop')
  BY <1>3 DEF FleetInv, Shapes, LoopShape
<1>5. loop'.pc = "act" /\ loop'.snap = loop.snap /\ loop'.todo = p
  BY <1>3 DEF FleetInv, Shapes, LoopShape
<1>6. PlanOK'
  BY <1>5 DEF PlanOK, Rotating, Replacing, Retiring
<1>7. RunOK'
  BY <1>5 DEF RunOK, Creating, Created, Replacing
<1>8. ListingOK'
  BY <1>1, <1>2, <1>5, ListingKept
<1>. QED
  BY <1>2, <1>4, <1>6, <1>7, <1>8 DEF FleetInv, Shapes, Agrees

----------------------------------------------------------------------------
(* The actions and their scripts.                                          *)

\* Machines of a run that has a manifest come and go.
LEMMA MachineAgrees ==
    ASSUME FleetInv, loop.pc # "idle", UNCHANGED <<rows, manifest>>, MachinesShape(vm'),
           NEW r \in Runs, Known(r), \A q \in Runs : q # r => vm'[q] = vm[q]
    PROVE  Agrees
<1>1. Accounted'
  BY DEF FleetInv, Accounted, Known
<1>. QED
  BY <1>1 DEF FleetInv, Shapes, ListingOK, Agrees, Known

\* A manifest is written.
LEMMA ManifestAgrees ==
    ASSUME FleetInv, loop.pc # "idle", UNCHANGED <<rows, vm>>, ManifestsShape(manifest'),
           \A r \in Runs : Known(r) => Known(r)'
    PROVE  Agrees
<1>1. Accounted'
  BY NodeFacts, FleetConstants DEF FleetInv, Accounted
<1>. QED
  BY <1>1 DEF FleetInv, Shapes, ListingOK, Agrees

\* The node of the action: it is listed, and its run has a manifest.
LEMMA CurrentRun ==
    ASSUME FleetInv, loop.pc # "idle", loop.todo # <<>>
    PROVE  /\ Node \in Nodes /\ Node[1] \in Runs /\ Known(Node[1])
           /\ Type = "retire" => loop.snap[Node].status = "draining"
           /\ Type # "retire" => loop.snap[Node].status \notin {"none", "draining", "retired"}
  BY CurrentNode, NodeFacts DEF FleetInv, ListingOK

LEMMA EndOnly ==
    ASSUME FleetInv, loop.pc # "idle", UNCHANGED <<rows, vm, manifest>>, EndCycle
    PROVE  FleetInv'
  BY UnchangedAgrees, EndKeeps

LEMMA ActKeeps ==
    ASSUME FleetInv, FinishCycle \/ Act
    PROVE  FleetInv'
<1>1. UNCHANGED <<rows, vm, manifest>> /\ loop.pc = "act"
  BY DEF FinishCycle, Act, fleet, At
<1>2. CASE FinishCycle
  BY <1>1, <1>2, EndOnly DEF FinishCycle
<1>3. CASE Act
  <2>1. loop.todo # <<>> /\ Type \in {"rotate", "replace", "retire"}
    <3>1. loop.todo # <<>> /\ Type # "mark_degraded"
      BY <1>3 DEF Act, sideEffecting, Type
    <3>2. Head(loop.todo) \in Sound(loop.snap)
      BY <1>1, <3>1, CurrentAction DEF FleetInv, PlanOK
    <3>. QED
      BY <3>1, <3>2 DEF Sound, Type
  <2>2. \/ Type = "rotate" /\ Goto("rotate")
        \/ Type = "replace" /\ Goto("stub")
        \/ Type = "retire" /\ Goto("down")
    BY <1>3, <2>1 DEF Act, Execute, Type
  <2>3. ASSUME NEW pc, Goto(pc), \/ Type = "rotate" /\ pc = "rotate"
                                 \/ Type = "replace" /\ pc = "stub"
                                 \/ Type = "retire" /\ pc = "down"
        PROVE  FleetInv'
    <3>1. Moved(pc)
      BY <2>3, GotoMoves DEF FleetInv, Shapes
    <3>2. Suits(loop'.pc)
      BY <2>1, <2>3, <3>1 DEF Suits, Moved, Rotating, Replacing, Retiring
    <3>3. loop'.pc \in {"rotate", "stub", "down"}
      BY <2>3, <3>1 DEF Moved
    <3>4. RunOK'
      BY <3>3 DEF RunOK, Creating, Created, Replacing
    <3>. QED
      BY <1>1, <3>1, <3>2, <3>4, UnchangedAgrees, ScriptKeeps DEF Moved
  <2>. QED
    BY <2>2, <2>3
<1>. QED
  BY <1>2, <1>3

LEMMA UpdateNodeKeeps ==
    ASSUME FleetInv, loop.pc # "idle", UNCHANGED <<vm, manifest>>, loop.todo # <<>>, Type # "retire",
           NEW row, RowShape(row), UpdateNode(Node, row)
    PROVE  FleetInv'
<1>1. CASE EndCycle /\ UNCHANGED rows
  BY <1>1, EndOnly
<1>2. CASE Put(Node, row) /\ Done
  <2>1. Agrees
    BY <1>2, CurrentRun, PutAgrees
  <2>. QED
    BY <1>2, <2>1, DoneKeeps
<1>. QED
  BY <1>1, <1>2 DEF UpdateNode

LEMMA MarkDegradedKeeps ==
    ASSUME FleetInv, MarkDegraded
    PROVE  FleetInv'
<1>1. /\ loop.pc = "act" /\ loop.todo # <<>> /\ Type = "mark_degraded" /\ UNCHANGED <<vm, manifest>>
      /\ UpdateNode(Node, [Listed EXCEPT !.status = "degraded"])
  BY DEF MarkDegraded, At, Type
<1>2. RowShape(loop.snap[Node])
  BY <1>1, CurrentRun DEF FleetInv, ListingOK, RowsShape
<1>3. PICK row : row = [Listed EXCEPT !.status = "degraded"]
  OBVIOUS
<1>4. RowShape(row)
  BY <1>2, <1>3 DEF RowShape, Listed
<1>. QED
  BY <1>1, <1>3, <1>4, UpdateNodeKeeps

LEMMA ReplaceMachineKeeps ==
    ASSUME FleetInv, ReplaceMachine
    PROVE  FleetInv'
<1>1. loop.pc = "rotate" /\ UNCHANGED <<rows, manifest>>
  BY DEF ReplaceMachine, At
<1>2. loop.todo # <<>> /\ Type = "rotate"
  BY <1>1 DEF FleetInv, PlanOK, Rotating
<1>3. CASE EndCycle /\ UNCHANGED vm
  BY <1>1, <1>3, EndOnly
<1>4. CASE /\ vm' = [vm EXCEPT ![Node[1]].entry = nextIP]
           /\ loop' = [loop EXCEPT !.pc = "demote", !.run = Node[1]]
  <2>1. PICK r \in Runs : r = Node[1] /\ Known(r)
    BY <1>1, <1>2, CurrentRun
  <2>2. vm' = [vm EXCEPT ![r].entry = nextIP] /\ loop' = [loop EXCEPT !.pc = "demote", !.run = r]
    BY <1>4, <2>1
  <2>3. MachinesShape(vm') /\ \A q \in Runs : q # r => vm'[q] = vm[q]
    BY <2>2 DEF FleetInv, Shapes, MachinesShape
  <2>4. Agrees
    BY <1>1, <2>1, <2>3, MachineAgrees
  <2>5. LoopShape(loop')
    BY <2>2 DEF FleetInv, Shapes, LoopShape
  <2>6. loop'.pc = "demote" /\ loop'.snap = loop.snap /\ loop'.todo = loop.todo /\ loop'.run = r
    BY <2>2 DEF FleetInv, Shapes, LoopShape
  <2>7. Suits(loop'.pc)
    BY <1>2, <2>6 DEF Suits, Rotating
  <2>8. RunOK'
    BY <2>1, <2>6 DEF RunOK, Creating, Created, Replacing, Node
  <2>. QED
    BY <1>1, <2>4, <2>5, <2>6, <2>7, <2>8, ScriptKeeps
<1>. QED
  BY <1>3, <1>4 DEF ReplaceMachine

LEMMA DemoteRotatedKeeps ==
    ASSUME FleetInv, DemoteRotated
    PROVE  FleetInv'
<1>1. loop.pc = "demote" /\ UNCHANGED <<vm, manifest>> /\ Goto("remember")
  BY DEF DemoteRotated, At
<1>2. loop.todo # <<>> /\ Type = "rotate" /\ loop.run = Node[1]
  BY <1>1 DEF FleetInv, PlanOK, Rotating, RunOK
<1>3. PICK b, i : b = TRUE /\ i = vm[loop.run].entry
  OBVIOUS
<1>4. PICK row : row = [rows[Node] EXCEPT !.status = "provisioning", !.ip = i, !.ephemeral = b]
  OBVIOUS
<1>5. RowShape(rows[Node])
  BY <1>1, <1>2, CurrentRun DEF FleetInv, Shapes, RowsShape
<1>6. RowShape(row)
  BY <1>4, <1>5 DEF RowShape
<1>7. Put(Node, row)
  BY <1>3, <1>4 DEF DemoteRotated
<1>8. Agrees
  BY <1>1, <1>2, <1>6, <1>7, CurrentRun, PutAgrees
<1>9. Moved("remember")
  BY <1>1, GotoMoves DEF FleetInv, Shapes
<1>10. Suits(loop'.pc)
  BY <1>2, <1>9 DEF Suits, Rotating, Moved
<1>11. RunOK'
  BY <1>2, <1>9 DEF RunOK, Creating, Created, Replacing, Node, Moved
<1>. QED
  BY <1>1, <1>8, <1>9, <1>10, <1>11, ScriptKeeps DEF Moved

LEMMA UpdateManifestEntryKeeps ==
    ASSUME FleetInv, UpdateManifestEntry
    PROVE  FleetInv'
<1>1. loop.pc = "remember" /\ UNCHANGED <<rows, vm>> /\ Goto("live")
  BY DEF UpdateManifestEntry, At
<1>2. loop.todo # <<>> /\ Type = "rotate" /\ loop.run = Node[1]
  BY <1>1 DEF FleetInv, PlanOK, Rotating, RunOK
<1>3. PICK r \in Runs : r = loop.run
  BY <1>1, <1>2, CurrentRun
<1>4. PICK i : manifest' = [manifest EXCEPT ![r].ip = i]
  BY <1>3 DEF UpdateManifestEntry
<1>5. ManifestsShape(manifest')
  BY <1>4 DEF FleetInv, Shapes, ManifestsShape
<1>6. \A q \in Runs : manifest'[q].kind = manifest[q].kind
  BY <1>4 DEF FleetInv, Shapes, ManifestsShape
<1>7. Agrees
  BY <1>1, <1>5, <1>6, ManifestAgrees DEF Known
<1>8. Moved("live")
  BY <1>1, GotoMoves DEF FleetInv, Shapes
<1>9. Suits(loop'.pc)
  BY <1>2, <1>8 DEF Suits, Moved
<1>10. RunOK'
  <2>1. Node' = Node /\ Type' = Type
    BY <1>8 DEF Node, Type, Moved
  <2>. QED
    BY <1>2, <1>8, <2>1 DEF RunOK, Creating, Created, Replacing, Moved
<1>. QED
  BY <1>1, <1>7, <1>8, <1>9, <1>10, ScriptKeeps DEF Moved

\* The records of a pair get the status e and x.
SetPair(r, e, x) == rows' = [rows EXCEPT ![Entry(r)].status = e, ![Exit(r)].status = x]

LEMMA PairSet ==
    ASSUME RowsShape(rows), NEW r \in Runs, NEW e, NEW x, SetPair(r, e, x)
    PROVE  /\ RowsShape(rows')
           /\ rows'[Entry(r)].status = e /\ rows'[Exit(r)].status = x
           /\ rows'[Entry(r)].ip = rows[Entry(r)].ip
           /\ \A m \in Nodes : m # Entry(r) /\ m # Exit(r) => rows'[m] = rows[m]
<1>1. PICK n \in Nodes, m \in Nodes : n = Entry(r) /\ m = Exit(r) /\ n # m
  BY NodeFacts
<1>2. PICK a, b : a = [rows[n] EXCEPT !.status = e] /\ b = [rows[m] EXCEPT !.status = x]
  OBVIOUS
<1>3. RowShape(rows[n]) /\ RowShape(rows[m])
  BY DEF RowsShape
<1>4. RowShape(a) /\ a.status = e /\ a.ip = rows[n].ip
  BY <1>2, <1>3 DEF RowShape
<1>5. RowShape(b) /\ b.status = x
  BY <1>2, <1>3 DEF RowShape
<1>6. rows' = [rows EXCEPT ![n].status = e, ![m].status = x]
  BY <1>1 DEF SetPair
<1>7. rows' = [rows EXCEPT ![n] = a, ![m] = b]
  BY <1>1, <1>2, <1>6 DEF RowsShape
<1>8. rows'[n] = a /\ rows'[m] = b /\ \A k \in Nodes : k # n /\ k # m => rows'[k] = rows[k]
  BY <1>1, <1>7 DEF RowsShape
<1>9. rows' = [k \in Nodes |-> rows'[k]]
  BY <1>7 DEF RowsShape
<1>10. RowsShape(rows')
  BY <1>4, <1>5, <1>8, <1>9 DEF RowsShape
<1>. QED
  BY <1>1, <1>4, <1>5, <1>8, <1>10

LEMMA PairAgrees ==
    ASSUME FleetInv, loop.pc # "idle", UNCHANGED <<vm, manifest>>, NEW r \in Runs, NEW e, NEW x,
           SetPair(r, e, x), Demotable(Entry(r)), Demotable(Exit(r)) \/ x = rows[Exit(r)].status
    PROVE  Agrees
<1>1. /\ RowsShape(rows')
      /\ rows'[Entry(r)].status = e /\ rows'[Exit(r)].status = x
      /\ \A m \in Nodes : m # Entry(r) /\ m # Exit(r) => rows'[m] = rows[m]
  BY PairSet DEF FleetInv, Shapes
<1>2. Known(r)
  BY NodeFacts DEF FleetInv, Accounted, Demotable
<1>3. Accounted'
  BY <1>1, <1>2, NodeFacts DEF FleetInv, Accounted, Known
<1>4. \A n \in Nodes : loop.snap[n].status = "draining" => rows'[n].status \in Leaving
  BY <1>1 DEF FleetInv, ListingOK, Demotable, Leaving
<1>. QED
  BY <1>1, <1>3, <1>4 DEF FleetInv, Shapes, Agrees, Known

LEMMA ActivatePairKeeps ==
    ASSUME FleetInv, ActivatePair
    PROVE  FleetInv'
<1>1. loop.pc = "live" /\ UNCHANGED <<vm, manifest>>
  BY DEF ActivatePair, At
<1>2. loop.todo # <<>> /\ Type \in {"rotate", "replace"}
  BY <1>1 DEF FleetInv, PlanOK
<1>3. PICK r \in Runs : r = loop.run
  BY <1>1, <1>2, CurrentRun DEF FleetInv, RunOK, Creating
<1>4. CASE UNCHANGED rows /\ EndCycle
  BY <1>1, <1>4, EndOnly
<1>5. ASSUME NEW x, SetPair(r, "provisioning", x), Demotable(Entry(r)), Demotable(Exit(r)) \/ x = rows[Exit(r)].status, EndCycle
      PROVE  FleetInv'
  <2>1. Agrees
    BY <1>1, <1>5, PairAgrees
  <2>. QED
    BY <1>5, <2>1, EndKeeps
<1>6. CASE /\ Demotable(Entry(r)) /\ Demotable(Exit(r)) /\ vm[r].exit
           /\ SetPair(r, "active", "active")
           /\ Goto(IF Type = "rotate" THEN "verify" ELSE "check")
  <2>3. Agrees
    BY <1>1, <1>6, PairAgrees
  <2>4. rows'[Entry(r)].ip = rows[Entry(r)].ip
    BY <1>6, PairSet DEF FleetInv, Shapes
  <2>5. PICK pc : pc = IF Type = "rotate" THEN "verify" ELSE "check"
    OBVIOUS
  <2>6. Moved(pc)
    BY <1>6, <2>5, GotoMoves DEF FleetInv, Shapes
  <2>7. Suits(loop'.pc)
    BY <1>2, <2>5, <2>6 DEF Suits, Moved, Rotating, Replacing
  <2>8. RunOK'
    <3>1. CASE Type = "rotate"
      BY <2>5, <2>6, <3>1 DEF RunOK, Moved, Creating, Created, Replacing
    <3>2. CASE Type = "replace"
      <4>1. loop'.pc = "check" /\ Creating /\ Created /\ loop'.run = loop.run /\ loop'.snap = loop.snap
        BY <1>1, <2>5, <2>6, <3>2 DEF Moved, Creating, Created
      <4>2. /\ loop.run # 1 /\ Known(loop.run)
            /\ loop.snap[Entry(loop.run)].status = "none" /\ loop.snap[Exit(loop.run)].status = "none"
            /\ rows[Entry(loop.run)].ip = vm[loop.run].entry
        BY <1>1, <4>1 DEF FleetInv, RunOK
      <4>. QED
        BY <1>1, <1>3, <1>6, <2>4, <4>1, <4>2 DEF RunOK, Known
    <3>. QED
      BY <1>2, <3>1, <3>2
  <2>. QED
    BY <1>1, <2>3, <2>6, <2>7, <2>8, ScriptKeeps DEF Moved
<1>. QED
  BY <1>3, <1>4, <1>5, <1>6 DEF ActivatePair, SetPair, Type

LEMMA VerifyRotatedKeeps ==
    ASSUME FleetInv, VerifyRotated
    PROVE  FleetInv'
<1>1. loop.pc = "verify" /\ UNCHANGED <<rows, vm, manifest>>
  BY DEF VerifyRotated, At, fleet
<1>2. loop.todo # <<>> /\ Type = "rotate"
  BY <1>1 DEF FleetInv, PlanOK, Rotating
<1>3. CASE EndCycle
  BY <1>1, <1>3, EndOnly
<1>4. CASE loop' = [loop EXCEPT !.pc = "reschedule", !.held = rows[Node]]
  <2>1. LoopShape(loop')
    BY <1>4 DEF FleetInv, Shapes, LoopShape
  <2>2. /\ loop'.pc = "reschedule" /\ loop'.snap = loop.snap /\ loop'.todo = loop.todo
        /\ loop'.held = rows[Node]
    BY <1>4 DEF FleetInv, Shapes, LoopShape
  <2>3. RowShape(rows[Node])
    BY <1>1, <1>2, CurrentRun DEF FleetInv, Shapes, RowsShape
  <2>4. Suits(loop'.pc)
    BY <1>2, <2>2 DEF Suits, Rotating
  <2>5. RunOK'
    BY <2>2, <2>3 DEF RunOK, Creating, Created, Replacing
  <2>. QED
    BY <1>1, <2>1, <2>2, <2>4, <2>5, UnchangedAgrees, ScriptKeeps
<1>. QED
  BY <1>3, <1>4 DEF VerifyRotated

LEMMA RescheduleKeeps ==
    ASSUME FleetInv, Reschedule
    PROVE  FleetInv'
<1>1. /\ loop.pc = "reschedule" /\ UNCHANGED <<vm, manifest>>
      /\ UpdateNode(Node, [loop.held EXCEPT !.due = FALSE])
  BY DEF Reschedule, At
<1>2. loop.todo # <<>> /\ Type = "rotate" /\ RowShape(loop.held)
  BY <1>1 DEF FleetInv, PlanOK, Rotating, RunOK
<1>3. PICK b : b = FALSE
  OBVIOUS
<1>4. PICK row : row = [loop.held EXCEPT !.due = b]
  OBVIOUS
<1>5. RowShape(row)
  BY <1>2, <1>4 DEF RowShape
<1>6. UpdateNode(Node, row)
  BY <1>1, <1>3, <1>4
<1>. QED
  BY <1>1, <1>2, <1>5, <1>6, UpdateNodeKeeps

----------------------------------------------------------------------------
(* A replacement.                                                          *)

\* The run r is a new one: the listing does not know it.
Unlisted(r) ==
    /\ r \in Runs /\ r # 1 /\ Known(r)
    /\ loop.snap[Entry(r)].status = "none" /\ loop.snap[Exit(r)].status = "none"

\* The script of a replacement goes on at pc.
LEMMA ReplacingKeeps ==
    ASSUME FleetInv, loop.pc # "idle", Agrees, LoopShape(loop'), loop'.snap = loop.snap, loop'.todo = loop.todo,
           loop.todo # <<>>, Type = "replace", NEW r, loop'.run = r, Unlisted(r),
           loop'.pc \in (Replacing \ {"stub"}) \cup {"live"},
           loop'.pc \notin {"apply", "regEntry"} => rows'[Entry(r)].ip = vm'[r].entry,
           loop'.pc = "check" => vm'[r].exit,
           loop'.pc \in {"drain", "drainPeer"} => r \in Serving' \/ TakenOut(r)'
    PROVE  FleetInv'
<1>1. Type' = Type
  BY DEF Type
<1>2. Suits(loop'.pc)
  BY DEF Suits
<1>3. loop'.pc \notin {"demote", "remember", "reschedule"}
  BY DEF Replacing
<1>4. Known(r)'
  BY DEF Agrees, Unlisted
<1>5. RunOK'
  BY <1>1, <1>3, <1>4 DEF RunOK, Unlisted, Created
<1>. QED
  BY <1>2, <1>5, ScriptKeeps

\* A replacement under way.
LEMMA UnderWay ==
    ASSUME FleetInv, loop.pc # "idle", Creating
    PROVE  /\ loop.todo # <<>> /\ Type = "replace" /\ Unlisted(loop.run)
           /\ Node \in Nodes /\ Node[1] # loop.run /\ Peer(Node)[1] # loop.run
           /\ Created => rows[Entry(loop.run)].ip = vm[loop.run].entry
<1>1. loop.todo # <<>> /\ Type = "replace"
  BY DEF FleetInv, PlanOK, Creating, Replacing
<1>2. Unlisted(loop.run) /\ (Created => rows[Entry(loop.run)].ip = vm[loop.run].entry)
  BY DEF FleetInv, RunOK, Unlisted
<1>3. Node \in Nodes /\ loop.snap[Node].status # "none"
  BY <1>1, CurrentRun
<1>4. Node[1] # loop.run /\ Peer(Node)[1] # loop.run
  BY <1>2, <1>3, NodeFacts DEF Unlisted
<1>. QED
  BY <1>1, <1>2, <1>3, <1>4

LEMMA WriteStubKeeps ==
    ASSUME FleetInv, WriteStubManifest
    PROVE  FleetInv'
<1>1. loop.pc = "stub" /\ UNCHANGED <<rows, vm>>
  BY DEF WriteStubManifest, At
<1>2. loop.todo # <<>> /\ Type = "replace"
  BY <1>1 DEF FleetInv, PlanOK, Replacing
<1>3. CASE EndCycle /\ UNCHANGED manifest
  BY <1>1, <1>3, EndOnly
<1>4. ASSUME NEW r \in FreshRuns, manifest' = [manifest EXCEPT ![r].kind = "stub"],
             loop' = [loop EXCEPT !.pc = "apply", !.run = r]
      PROVE  FleetInv'
  <2>1. r \in Runs /\ manifest[r].kind = "none"
    BY DEF FreshRuns, NoManifest
  <2>2. ManifestsShape(manifest')
    BY <1>4, <2>1 DEF FleetInv, Shapes, ManifestsShape
  <2>3. manifest'[r].kind = "stub" /\ \A q \in Runs : q # r => manifest'[q] = manifest[q]
    BY <1>4, <2>1 DEF FleetInv, Shapes, ManifestsShape
  <2>4. \A q \in Runs : Known(q) => Known(q)'
    BY <2>3 DEF Known
  <2>5. Agrees
    BY <1>1, <2>2, <2>4, ManifestAgrees
  <2>6. LoopShape(loop')
    BY <1>4 DEF FleetInv, Shapes, LoopShape
  <2>7. loop'.pc = "apply" /\ loop'.snap = loop.snap /\ loop'.todo = loop.todo /\ loop'.run = r
    BY <1>4 DEF FleetInv, Shapes, LoopShape
  <2>8. ~Known(r) /\ Known(r)'
    BY <2>1, <2>3 DEF Known
  <2>9. r # 1 /\ loop.snap[Entry(r)].status = "none" /\ loop.snap[Exit(r)].status = "none"
    BY <1>1, <2>1, <2>8, NodeFacts DEF FleetInv, Accounted, ListingOK
  <2>10. Suits(loop'.pc)
    BY <1>2, <2>7 DEF Suits, Replacing
  <2>11. RunOK'
    <3>1. Type' = Type
      BY <2>7 DEF Type
    <3>. QED
      BY <2>1, <2>7, <2>8, <2>9, <3>1 DEF RunOK, Created
  <2>. QED
    BY <1>1, <2>5, <2>6, <2>7, <2>10, <2>11, ScriptKeeps
<1>. QED
  BY <1>3, <1>4 DEF WriteStubManifest

LEMMA TerraformApplyKeeps ==
    ASSUME FleetInv, TerraformApply
    PROVE  FleetInv'
<1>1. loop.pc = "apply" /\ UNCHANGED <<rows, manifest>> /\ Goto("regEntry")
  BY DEF TerraformApply, At
<1>2. Creating
  BY <1>1 DEF Creating, Replacing
<1>3. PICK r \in Runs : r = loop.run /\ Known(r)
  BY <1>1, <1>2, UnderWay DEF Unlisted
<1>4. PICK b : b = TRUE
  OBVIOUS
<1>5. vm' = [vm EXCEPT ![r] = [entry |-> nextIP, exit |-> b]]
  BY <1>3, <1>4 DEF TerraformApply
<1>6. MachinesShape(vm') /\ \A q \in Runs : q # r => vm'[q] = vm[q]
  BY <1>5 DEF FleetInv, Shapes, MachinesShape
<1>7. Agrees
  BY <1>1, <1>3, <1>6, MachineAgrees
<1>8. Moved("regEntry")
  BY <1>1, GotoMoves DEF FleetInv, Shapes
<1>9. LoopShape(loop') /\ loop'.pc = "regEntry" /\ loop'.snap = loop.snap /\ loop'.todo = loop.todo /\ loop'.run = loop.run
  BY <1>8 DEF Moved
<1>10. loop'.pc \in (Replacing \ {"stub"}) \cup {"live"}
  BY <1>9 DEF Replacing
<1>. QED
  BY <1>1, <1>2, <1>7, <1>9, <1>10, UnderWay, ReplacingKeeps

LEMMA RegisterEntryKeeps ==
    ASSUME FleetInv, RegisterEntry
    PROVE  FleetInv'
<1>1. loop.pc = "regEntry" /\ UNCHANGED <<vm, manifest>> /\ Goto("regExit")
  BY DEF RegisterEntry, At
<1>2. Creating
  BY <1>1 DEF Creating, Replacing
<1>3. PICK n \in Nodes : n = Entry(loop.run)
  BY <1>1, <1>2, UnderWay, NodeFacts DEF Unlisted
<1>4. PICK b, i : b = TRUE /\ i = vm[loop.run].entry
  OBVIOUS
<1>5. PICK row : row = [NoRow EXCEPT !.status = "provisioning", !.ip = i, !.ephemeral = b]
  OBVIOUS
<1>6. RowShape(NoRow)
  BY DEF RowShape, NoRow
<1>7. RowShape(row)
  BY <1>5, <1>6 DEF RowShape
<1>8. row.ip = i
  BY <1>5, <1>6 DEF RowShape
<1>9. Put(n, row)
  BY <1>3, <1>4, <1>5 DEF RegisterEntry
<1>10. Known(n[1]) /\ loop.snap[n].status = "none"
  BY <1>1, <1>2, <1>3, UnderWay, NodeFacts DEF Unlisted
<1>11. Agrees
  BY <1>1, <1>7, <1>9, <1>10, PutAgrees
<1>12. rows'[n] = row
  BY <1>7, <1>9, PutRow DEF FleetInv, Shapes
<1>13. Moved("regExit")
  BY <1>1, GotoMoves DEF FleetInv, Shapes
<1>14. LoopShape(loop') /\ loop'.pc = "regExit" /\ loop'.snap = loop.snap /\ loop'.todo = loop.todo /\ loop'.run = loop.run
  BY <1>13 DEF Moved
<1>15. loop'.pc \in (Replacing \ {"stub"}) \cup {"live"}
  BY <1>14 DEF Replacing
<1>16. rows'[Entry(loop'.run)].ip = vm'[loop'.run].entry
  BY <1>1, <1>3, <1>4, <1>8, <1>12, <1>14
<1>. QED
  BY <1>1, <1>2, <1>11, <1>14, <1>15, <1>16, UnderWay, ReplacingKeeps

LEMMA RegisterExitKeeps ==
    ASSUME FleetInv, RegisterExit
    PROVE  FleetInv'
<1>1. loop.pc = "regExit" /\ UNCHANGED <<vm, manifest>> /\ Goto("manifest")
  BY DEF RegisterExit, At
<1>2. Creating /\ Created
  BY <1>1 DEF Creating, Created, Replacing
<1>3. PICK n \in Nodes : n = Exit(loop.run) /\ Entry(loop.run) \in Nodes /\ Entry(loop.run) # n
  BY <1>1, <1>2, UnderWay, NodeFacts DEF Unlisted
<1>4. PICK row : row = [NoRow EXCEPT !.status = "provisioning"]
  OBVIOUS
<1>5. RowShape(NoRow)
  BY DEF RowShape, NoRow
<1>6. RowShape(row)
  BY <1>4, <1>5 DEF RowShape
<1>7. Put(n, row)
  BY <1>3, <1>4 DEF RegisterExit
<1>8. Known(n[1]) /\ loop.snap[n].status = "none"
  BY <1>1, <1>2, <1>3, UnderWay, NodeFacts DEF Unlisted
<1>9. Agrees
  BY <1>1, <1>6, <1>7, <1>8, PutAgrees
<1>10. rows'[Entry(loop.run)] = rows[Entry(loop.run)]
  BY <1>3, <1>6, <1>7, PutRow DEF FleetInv, Shapes
<1>11. Moved("manifest")
  BY <1>1, GotoMoves DEF FleetInv, Shapes
<1>12. LoopShape(loop') /\ loop'.pc = "manifest" /\ loop'.snap = loop.snap /\ loop'.todo = loop.todo /\ loop'.run = loop.run
  BY <1>11 DEF Moved
<1>13. loop'.pc \in (Replacing \ {"stub"}) \cup {"live"}
  BY <1>12 DEF Replacing
<1>14. rows'[Entry(loop'.run)].ip = vm'[loop'.run].entry
  BY <1>1, <1>2, <1>10, <1>12, UnderWay
<1>. QED
  BY <1>1, <1>2, <1>9, <1>12, <1>13, <1>14, UnderWay, ReplacingKeeps

LEMMA WriteManifestKeeps ==
    ASSUME FleetInv, WriteManifest
    PROVE  FleetInv'
<1>1. loop.pc = "manifest" /\ UNCHANGED <<rows, vm>> /\ Goto("live")
  BY DEF WriteManifest, At
<1>2. Creating /\ Created
  BY <1>1 DEF Creating, Created, Replacing
<1>3. PICK r \in Runs : r = loop.run
  BY <1>1, <1>2, UnderWay DEF Unlisted
<1>4. PICK i : manifest' = [manifest EXCEPT ![r] = [kind |-> "full", ip |-> i]]
  BY <1>3 DEF WriteManifest
<1>5. ManifestsShape(manifest')
  BY <1>4 DEF FleetInv, Shapes, ManifestsShape
<1>6. \A q \in Runs : Known(q) => Known(q)'
  BY <1>4 DEF FleetInv, Shapes, ManifestsShape, Known
<1>7. Agrees
  BY <1>1, <1>5, <1>6, ManifestAgrees
<1>8. Moved("live")
  BY <1>1, GotoMoves DEF FleetInv, Shapes
<1>9. LoopShape(loop') /\ loop'.pc = "live" /\ loop'.snap = loop.snap /\ loop'.todo = loop.todo /\ loop'.run = loop.run
  BY <1>8 DEF Moved
<1>10. rows'[Entry(loop'.run)].ip = vm'[loop'.run].entry
  BY <1>1, <1>2, <1>9, UnderWay
<1>. QED
  BY <1>1, <1>2, <1>7, <1>9, <1>10, UnderWay, ReplacingKeeps

LEMMA CheckReplacementKeeps ==
    ASSUME FleetInv, CheckReplacement
    PROVE  FleetInv'
<1>1. loop.pc = "check" /\ UNCHANGED <<rows, vm, manifest>>
  BY DEF CheckReplacement, At, fleet
<1>2. Creating /\ Created
  BY <1>1 DEF Creating, Created, Replacing
<1>3. CASE EndCycle
  BY <1>1, <1>3, EndOnly
<1>4. CASE /\ rows[Entry(loop.run)].status = "active" /\ rows[Exit(loop.run)].status = "active"
           /\ Goto("drain")
  <2>1. PICK r \in Runs : r = loop.run /\ Unlisted(r) /\ rows[Entry(r)].ip = vm[r].entry
    BY <1>1, <1>2, UnderWay DEF Unlisted
  <2>2. vm[r].exit
    BY <1>1, <2>1 DEF FleetInv, RunOK
  <2>3. r \in Serving
    BY <1>4, <2>1, <2>2, ServingIs
  <2>4. r \in Serving'
    BY <1>1, <2>3 DEF Serving
  <2>5. Moved("drain")
    BY <1>4, GotoMoves DEF FleetInv, Shapes
  <2>6. LoopShape(loop') /\ loop'.pc = "drain" /\ loop'.snap = loop.snap /\ loop'.todo = loop.todo /\ loop'.run = r
    BY <2>1, <2>5 DEF Moved
  <2>7. loop'.pc \in (Replacing \ {"stub"}) \cup {"live"}
    BY <2>6 DEF Replacing
  <2>8. rows'[Entry(r)].ip = vm'[r].entry
    BY <1>1, <2>1
  <2>. QED
    BY <1>1, <1>2, <2>1, <2>4, <2>6, <2>7, <2>8, UnchangedAgrees, UnderWay, ReplacingKeeps
<1>. QED
  BY <1>3, <1>4 DEF CheckReplacement

\* A record of another run is written: what served still serves.
LEMMA OthersServe ==
    ASSUME RowsShape(rows), UNCHANGED vm, NEW n \in Nodes, NEW row, RowShape(row), Put(n, row),
           NEW q \in Serving, q # n[1]
    PROVE  q \in Serving' /\ rows'[Entry(q)] = rows[Entry(q)]
<1>1. q \in Runs
  BY DEF Serving
<1>2. rows'[Entry(q)] = rows[Entry(q)] /\ rows'[Exit(q)] = rows[Exit(q)]
  BY <1>1, NodeFacts, PutRow
<1>. QED
  BY <1>1, <1>2 DEF Serving

\* The record with which a listed node is drained.
LEMMA DrainedShape ==
    ASSUME FleetInv, loop.pc # "idle", NEW n \in Nodes
    PROVE  RowShape(Drained(n)) /\ Drained(n).status = "draining"
<1>1. RowShape(loop.snap[n])
  BY DEF FleetInv, ListingOK, RowsShape
<1>2. PICK row : row = [loop.snap[n] EXCEPT !.status = "draining", !.grace = "running"]
  OBVIOUS
<1>3. RowShape(row)
  BY <1>1, <1>2 DEF RowShape
<1>4. row.status = "draining"
  BY <1>1, <1>2 DEF RowShape
<1>. QED
  BY <1>2, <1>3, <1>4 DEF Drained

\* The old pair is drained while the new one serves.
LEMMA DrainFacts ==
    ASSUME FleetInv, loop.pc \in {"drain", "drainPeer"}
    PROVE  /\ loop.todo # <<>> /\ Creating /\ Created /\ (loop.run \in Serving \/ TakenOut(loop.run))
           /\ loop.run \in Runs /\ rows[Entry(loop.run)].ip = vm[loop.run].entry
           /\ Node \in Nodes /\ Node[1] # loop.run /\ Known(Node[1])
           /\ Peer(Node) \in Nodes /\ Peer(Node)[1] = Node[1]
<1>1. Creating /\ Created
  BY DEF Creating, Created, Replacing
<1>2. loop.pc # "idle"
  OBVIOUS
<1>3. loop.run \in Serving \/ TakenOut(loop.run)
  BY <1>2 DEF FleetInv, RunOK
<1>4. loop.run \in Runs
  BY <1>1, <1>2, UnderWay DEF Unlisted
<1>. QED
  BY <1>1, <1>2, <1>3, <1>4, UnderWay, CurrentRun, NodeFacts

LEMMA DrainNodeKeeps ==
    ASSUME FleetInv, DrainNode
    PROVE  FleetInv'
<1>1. loop.pc = "drain" /\ UNCHANGED <<vm, manifest>> /\ Put(Node, Drained(Node)) /\ (Done \/ Goto("drainPeer"))
  BY DEF DrainNode, At
<1>2. RowShape(Drained(Node)) /\ Drained(Node).status = "draining"
  BY <1>1, DrainFacts, DrainedShape
<1>3. Agrees
  BY <1>1, <1>2, DrainFacts, PutAgrees DEF Leaving
<1>4. CASE Done
  BY <1>1, <1>3, <1>4, DrainFacts, DoneKeeps
<1>5. CASE Goto("drainPeer")
  <2>1. PICK r \in Runs : r = loop.run /\ (r \in Serving \/ TakenOut(r)) /\ rows[Entry(r)].ip = vm[r].entry
    BY <1>1, DrainFacts
  <2>2. \A n \in Nodes : n[1] = r => rows'[n] = rows[n]
    BY <1>1, <1>2, <2>1, DrainFacts, PutRow DEF FleetInv, Shapes
  <2>3. rows'[Entry(r)].ip = vm'[r].entry
    BY <1>1, <2>1, <2>2, NodeFacts
  <2>7. r \in Serving' \/ TakenOut(r)'
    <3>1. CASE r \in Serving
      BY <1>1, <1>2, <2>1, <3>1, DrainFacts, OthersServe DEF FleetInv, Shapes
    <3>2. CASE TakenOut(r)
      BY <2>2, <3>2 DEF TakenOut
    <3>. QED
      BY <2>1, <3>1, <3>2
  <2>4. Moved("drainPeer")
    BY <1>5, GotoMoves DEF FleetInv, Shapes
  <2>5. LoopShape(loop') /\ loop'.pc = "drainPeer" /\ loop'.snap = loop.snap /\ loop'.todo = loop.todo /\ loop'.run = r
    BY <2>1, <2>4 DEF Moved
  <2>6. loop'.pc \in (Replacing \ {"stub"}) \cup {"live"}
    BY <2>5 DEF Replacing
  <2>. QED
    BY <1>1, <1>3, <2>1, <2>3, <2>5, <2>6, <2>7, DrainFacts, UnderWay, ReplacingKeeps
<1>. QED
  BY <1>1, <1>4, <1>5

LEMMA DrainPeerKeeps ==
    ASSUME FleetInv, DrainPeer
    PROVE  FleetInv'
<1>1. loop.pc = "drainPeer" /\ UNCHANGED <<vm, manifest>> /\ Put(Peer(Node), Drained(Peer(Node))) /\ Done
  BY DEF DrainPeer, At
<1>2. RowShape(Drained(Peer(Node))) /\ Drained(Peer(Node)).status = "draining"
  BY <1>1, DrainFacts, DrainedShape
<1>3. Agrees
  BY <1>1, <1>2, DrainFacts, PutAgrees DEF Leaving
<1>. QED
  BY <1>1, <1>3, DrainFacts, DoneKeeps

----------------------------------------------------------------------------
(* A teardown, and failures.                                               *)

\* The node that is torn down does not serve.
LEMMA RetireFacts ==
    ASSUME FleetInv, loop.pc \in Retiring
    PROVE  /\ loop.todo # <<>> /\ Type = "retire"
           /\ Node \in Nodes /\ Node[1] \in Runs /\ Known(Node[1])
           /\ rows[Node].status \in Leaving
           /\ Node[1] \notin Serving
<1>1. loop.pc # "idle" /\ loop.todo # <<>> /\ Type = "retire"
  BY DEF FleetInv, PlanOK, Retiring
<1>2. Node \in Nodes /\ Node[1] \in Runs /\ Known(Node[1]) /\ loop.snap[Node].status = "draining"
  BY <1>1, CurrentRun
<1>3. rows[Node].status \in Leaving
  BY <1>1, <1>2 DEF FleetInv, ListingOK
<1>4. Node[1] \notin Serving
  BY <1>2, <1>3, NodeFacts DEF Serving, Leaving
<1>. QED
  BY <1>1, <1>2, <1>3, <1>4

LEMMA RetiredShape ==
    ASSUME FleetInv, NEW n \in Nodes
    PROVE  RowShape(Retired(n)) /\ Retired(n).status = "retired"
<1>1. RowShape(rows[n])
  BY DEF FleetInv, Shapes, RowsShape
<1>2. PICK row : row = [rows[n] EXCEPT !.status = "retired"]
  OBVIOUS
<1>3. RowShape(row)
  BY <1>1, <1>2 DEF RowShape
<1>4. row.status = "retired"
  BY <1>1, <1>2 DEF RowShape
<1>. QED
  BY <1>2, <1>3, <1>4 DEF Retired

\* Some of the records of the run are retired.
Retires(S) == rows' = [n \in Nodes |-> IF n \in S THEN Retired(n) ELSE rows[n]]

LEMMA RetiresAgrees ==
    ASSUME FleetInv, loop.pc # "idle", UNCHANGED <<vm, manifest>>, NEW S, Retires(S),
           \A n \in S : rows[n].status # "none"
    PROVE  Agrees
<1>1. \A n \in Nodes : IF n \in S THEN rows'[n] = Retired(n) ELSE rows'[n] = rows[n]
  BY DEF Retires
<1>2. RowsShape(rows')
  <2>1. rows' = [n \in Nodes |-> rows'[n]]
    BY DEF Retires
  <2>2. \A n \in Nodes : RowShape(rows'[n])
    BY <1>1, RetiredShape DEF FleetInv, Shapes, RowsShape
  <2>. QED
    BY <2>1, <2>2 DEF RowsShape
<1>3. Accounted'
  BY <1>1 DEF FleetInv, Accounted, Known
<1>4. \A n \in Nodes : loop.snap[n].status = "draining" => rows'[n].status \in Leaving
  BY <1>1, RetiredShape DEF FleetInv, ListingOK, Leaving
<1>. QED
  BY <1>2, <1>3, <1>4 DEF FleetInv, Shapes, Agrees, Known

LEMMA RetireRecordsKeeps ==
    ASSUME FleetInv, RetireRecords
    PROVE  FleetInv'
<1>1. loop.pc = "down" /\ UNCHANGED <<vm, manifest>>
  BY DEF RetireRecords, At
<1>2. loop.todo # <<>> /\ Type = "retire"
  BY <1>1, RetireFacts DEF Retiring
<1>3. CASE EndCycle /\ UNCHANGED rows
  BY <1>1, <1>3, EndOnly
<1>4. ASSUME NEW S, Retires(S), \A n \in S : rows[n].status # "none", Goto("destroy")
      PROVE  FleetInv'
  <2>1. Agrees
    BY <1>1, <1>4, RetiresAgrees
  <2>2. Moved("destroy")
    BY <1>4, GotoMoves DEF FleetInv, Shapes
  <2>3. Suits(loop'.pc)
    BY <1>2, <2>2 DEF Suits, Retiring, Moved
  <2>4. RunOK'
    BY <2>2 DEF RunOK, Creating, Created, Replacing, Moved
  <2>. QED
    BY <1>1, <2>1, <2>2, <2>3, <2>4, ScriptKeeps DEF Moved
<1>5. (EndCycle /\ UNCHANGED rows) \/ \E S : Retires(S) /\ (\A n \in S : rows[n].status # "none") /\ Goto("destroy")
  BY DEF RetireRecords, Retires
<1>. QED
  BY <1>3, <1>4, <1>5

LEMMA TerraformDestroyKeeps ==
    ASSUME FleetInv, TerraformDestroy
    PROVE  FleetInv'
<1>1. loop.pc = "destroy" /\ UNCHANGED <<rows, manifest>> /\ Goto("mark")
  BY DEF TerraformDestroy, At
<1>2. PICK r \in Runs : r = Node[1] /\ Known(r) /\ loop.todo # <<>> /\ Type = "retire"
  BY <1>1, RetireFacts DEF Retiring
<1>3. PICK m : m = NoMachine
  OBVIOUS
<1>4. m = [entry |-> m.entry, exit |-> m.exit]
  BY <1>3 DEF NoMachine
<1>5. vm' = [vm EXCEPT ![r] = m]
  BY <1>2, <1>3 DEF TerraformDestroy
<1>6. MachinesShape(vm') /\ \A q \in Runs : q # r => vm'[q] = vm[q]
  BY <1>4, <1>5 DEF FleetInv, Shapes, MachinesShape
<1>7. Agrees
  BY <1>1, <1>2, <1>6, MachineAgrees
<1>8. Moved("mark")
  BY <1>1, GotoMoves DEF FleetInv, Shapes
<1>9. Suits(loop'.pc)
  BY <1>2, <1>8 DEF Suits, Retiring, Moved
<1>10. RunOK'
  BY <1>8 DEF RunOK, Creating, Created, Replacing, Moved
<1>. QED
  BY <1>1, <1>7, <1>8, <1>9, <1>10, ScriptKeeps DEF Moved

LEMMA MarkRetiredKeeps ==
    ASSUME FleetInv, MarkRetired
    PROVE  FleetInv'
<1>1. loop.pc = "mark" /\ UNCHANGED <<vm, manifest>> /\ (Put(Node, Retired(Node)) \/ UNCHANGED rows) /\ Done
  BY DEF MarkRetired, At
<1>2. loop.todo # <<>> /\ Node \in Nodes /\ Known(Node[1])
  BY <1>1, RetireFacts DEF Retiring
<1>3. RowShape(Retired(Node)) /\ Retired(Node).status = "retired"
  BY <1>2, RetiredShape
<1>4. Agrees
  <2>1. CASE Put(Node, Retired(Node))
    BY <1>1, <1>2, <1>3, <2>1, PutAgrees DEF Leaving
  <2>2. CASE UNCHANGED rows
    BY <1>1, <2>2, UnchangedAgrees
  <2>. QED
    BY <1>1, <2>1, <2>2
<1>. QED
  BY <1>1, <1>2, <1>4, DoneKeeps

\* One machine of a run is made, replaced or destroyed.
TouchMachine(r, v) == vm' = [vm EXCEPT ![r].entry = v] \/ vm' = [vm EXCEPT ![r].exit = v]

LEMMA TouchedShape ==
    ASSUME MachinesShape(vm), NEW r \in Runs, NEW v, TouchMachine(r, v)
    PROVE  MachinesShape(vm') /\ \A q \in Runs : q # r => vm'[q] = vm[q]
  BY DEF MachinesShape, TouchMachine

LEMMA StepFailsKeeps ==
    ASSUME FleetInv, StepFails
    PROVE  FleetInv'
<1>1. loop.pc # "idle" /\ EndCycle /\ UNCHANGED manifest
  BY DEF StepFails, At
<1>2. CASE UNCHANGED <<rows, vm>>
  BY <1>1, <1>2, EndOnly
<1>3. ASSUME UNCHANGED rows, NEW r \in Runs, Known(r), NEW v, TouchMachine(r, v)
      PROVE  FleetInv'
  <2>1. MachinesShape(vm') /\ \A q \in Runs : q # r => vm'[q] = vm[q]
    BY <1>3, TouchedShape DEF FleetInv, Shapes
  <2>2. Agrees
    BY <1>1, <1>3, <2>1, MachineAgrees
  <2>. QED
    BY <1>1, <2>2, EndKeeps
<1>4. CASE At("rotate") /\ UNCHANGED rows /\ vm' = [vm EXCEPT ![Node[1]].entry = 0]
  <2>1. PICK r \in Runs : r = Node[1] /\ Known(r)
    BY <1>1, <1>4, CurrentRun DEF FleetInv, PlanOK, Rotating, At
  <2>2. TouchMachine(r, 0)
    BY <1>4, <2>1 DEF TouchMachine
  <2>. QED
    BY <1>3, <1>4, <2>1, <2>2
<1>5. CASE /\ At("apply") /\ UNCHANGED rows
           /\ vm' \in {[vm EXCEPT ![loop.run].exit = TRUE], [vm EXCEPT ![loop.run].entry = nextIP]}
  <2>1. Creating
    BY <1>5 DEF Creating, Replacing, At
  <2>2. PICK r \in Runs : r = loop.run /\ Known(r)
    BY <1>1, <2>1, UnderWay DEF Unlisted
  <2>3. TouchMachine(r, TRUE) \/ TouchMachine(r, nextIP)
    BY <1>5, <2>2 DEF TouchMachine
  <2>. QED
    BY <1>3, <1>5, <2>2, <2>3
<1>6. CASE /\ At("destroy") /\ UNCHANGED rows
           /\ vm' \in {[vm EXCEPT ![Node[1]].entry = 0], [vm EXCEPT ![Node[1]].exit = FALSE]}
  <2>1. PICK r \in Runs : r = Node[1] /\ Known(r)
    BY <1>6, RetireFacts DEF Retiring, At
  <2>2. TouchMachine(r, 0) \/ TouchMachine(r, FALSE)
    BY <1>6, <2>1 DEF TouchMachine
  <2>. QED
    BY <1>3, <1>6, <2>1, <2>2
<1>7. ASSUME At("live"), UNCHANGED vm, Demotable(Entry(loop.run)), Demotable(Exit(loop.run)),
             NEW x, SetPair(loop.run, "provisioning", x)
      PROVE  FleetInv'
  <2>1. PICK r \in Runs : r = loop.run
    BY <1>1, <1>7, CurrentRun DEF FleetInv, PlanOK, RunOK, Creating, At
  <2>2. Agrees
    BY <1>1, <1>7, <2>1, PairAgrees
  <2>. QED
    BY <1>1, <2>2, EndKeeps
<1>. QED
  BY <1>2, <1>4, <1>5, <1>6, <1>7 DEF StepFails, SetPair

\* A manifest is left empty.
LEMMA WriteCutShortKeeps ==
    ASSUME FleetInv, WriteCutShort
    PROVE  FleetInv'
<1>1. loop.pc # "idle" /\ EndCycle /\ UNCHANGED <<rows, vm>>
  BY DEF WriteCutShort, At
<1>2. PICK r \in Runs : manifest' = [manifest EXCEPT ![r] = EmptyManifest]
  <2>1. loop.pc = "manifest" => loop.run \in Runs
    <3>1. loop.pc = "manifest" => Creating
      BY DEF Creating, Replacing
    <3>. QED
      BY <1>1, <3>1, UnderWay DEF Unlisted
  <2>. QED
    BY <2>1 DEF WriteCutShort, At, FreshRuns
<1>8. EmptyManifest = [kind |-> EmptyManifest.kind, ip |-> EmptyManifest.ip] /\ EmptyManifest.kind = "empty"
  BY DEF EmptyManifest
<1>3. PICK m : m = EmptyManifest /\ m = [kind |-> m.kind, ip |-> m.ip] /\ m.kind = "empty"
  BY <1>8
<1>4. manifest' = [manifest EXCEPT ![r] = m]
  BY <1>2, <1>3
<1>5. ManifestsShape(manifest')
  BY <1>3, <1>4 DEF FleetInv, Shapes, ManifestsShape
<1>6. \A q \in Runs : Known(q) => Known(q)'
  BY <1>3, <1>4 DEF FleetInv, Shapes, ManifestsShape, Known
<1>7. Agrees
  BY <1>1, <1>5, <1>6, ManifestAgrees
<1>. QED
  BY <1>1, <1>7, EndKeeps

----------------------------------------------------------------------------
(* The invariant, and the theorems.                                        *)

LEMMA FleetInvInit == Init => FleetInv
<1> SUFFICES ASSUME Init PROVE FleetInv
  OBVIOUS
<1>1. PICK eph : rows = InService(eph)
  BY DEF Init
<1>2. RowShape(NoRow) /\ NoRow.status = "none"
  BY DEF RowShape, NoRow
<1>3. PICK one, a, b : /\ one = 1 /\ a = [NoRow EXCEPT !.status = "active", !.ip = one, !.ephemeral = eph]
                       /\ b = [NoRow EXCEPT !.status = "active"]
  OBVIOUS
<1>4. RowShape(a) /\ RowShape(b)
  BY <1>2, <1>3 DEF RowShape
<1>5. rows = [n \in Nodes |-> CASE n = Entry(1) -> a [] n = Exit(1) -> b [] OTHER -> NoRow]
  BY <1>1, <1>3 DEF InService
<1>6. \A n \in Nodes : rows[n] \in {a, b, NoRow} /\ (n[1] # 1 => rows[n] = NoRow)
  BY <1>5, NodeFacts, FleetConstants
<1>7. RowsShape(rows)
  BY <1>2, <1>4, <1>5, <1>6 DEF RowsShape
<1>8. PICK m, n, f : /\ m = [entry |-> one, exit |-> TRUE] /\ n = NoMachine
                     /\ f = [kind |-> "full", ip |-> one]
  OBVIOUS
<1>9. /\ m = [entry |-> m.entry, exit |-> m.exit] /\ n = [entry |-> n.entry, exit |-> n.exit]
      /\ f = [kind |-> f.kind, ip |-> f.ip] /\ f.kind = "full"
      /\ NoManifest = [kind |-> NoManifest.kind, ip |-> NoManifest.ip]
  BY <1>8 DEF NoMachine, NoManifest
<1>10. vm = [r \in Runs |-> IF r = 1 THEN m ELSE n] /\ manifest = [r \in Runs |-> IF r = 1 THEN f ELSE NoManifest]
  BY <1>3, <1>8 DEF Init
<1>11. MachinesShape(vm) /\ ManifestsShape(manifest)
  BY <1>9, <1>10 DEF MachinesShape, ManifestsShape
<1>12. Known(1) /\ \A r \in Runs : r # 1 => vm[r] = NoMachine
  BY <1>8, <1>9, <1>10, FleetConstants DEF Known
<1>13. Accounted
  BY <1>2, <1>6, <1>12 DEF Accounted
<1>14. LoopShape(loop) /\ loop.pc = "idle"
  BY DEF Init, Idle, LoopShape
<1>. QED
  BY <1>7, <1>11, <1>13, <1>14 DEF FleetInv, Shapes

LEMMA FleetInvNext == FleetInv /\ [Next]_vars => FleetInv'
<1> SUFFICES ASSUME FleetInv, [Next]_vars PROVE FleetInv'
  OBVIOUS
<1>1. CASE UNCHANGED vars
  <2>1. UNCHANGED <<rows, vm, manifest, loop>>
    BY <1>1 DEF vars
  <2>. QED
    BY <2>1, RecordsMove DEF FleetInv, Shapes
<1>2. CASE LoopStep
  BY <1>2, ListNodesKeeps, SyncKeeps, MakePlanKeeps, ActKeeps, MarkDegradedKeeps, ReplaceMachineKeeps,
     DemoteRotatedKeeps, UpdateManifestEntryKeeps, ActivatePairKeeps, VerifyRotatedKeeps, RescheduleKeeps,
     WriteStubKeeps, TerraformApplyKeeps, RegisterEntryKeeps, RegisterExitKeeps, WriteManifestKeeps,
     CheckReplacementKeeps, DrainNodeKeeps, DrainPeerKeeps, RetireRecordsKeeps, TerraformDestroyKeeps,
     MarkRetiredKeeps DEF LoopStep
<1>. QED
  BY <1>1, <1>2, StepFailsKeeps, WriteCutShortKeeps, ReportsKeep, RotationDueKeeps, GraceKeeps, OperatorKeeps DEF Next

\* What the loop knows about records and manifests on the way to a new pair.
Staged ==
    /\ loop.pc = "apply" => manifest[loop.run].kind = "stub"
    /\ loop.pc \in {"regExit", "manifest"} => rows[Entry(loop.run)].status # "none"
    /\ loop.pc = "reschedule" => loop.held.status # "none"

FoundInv == MachinesCanBeFound /\ Staged

\* Registered records stay registered.
Registered == \A n \in Nodes : rows[n].status # "none" => rows'[n].status # "none"

\* Machines are made only in a run with a stub or a full manifest, and a manifest is
\* emptied only when the entry has its record.
LEMMA FoundStep ==
    ASSUME MachinesCanBeFound, Registered,
           \A r \in Runs : /\ vm'[r] # NoMachine => vm[r] # NoMachine \/ manifest[r].kind \in {"stub", "full"}
                           /\ \/ manifest'[r].kind = manifest[r].kind
                              \/ manifest'[r].kind \in {"stub", "full"}
                              \/ manifest'[r].kind = "empty" /\ rows[Entry(r)].status # "none"
                              \/ vm'[r] = NoMachine
    PROVE  MachinesCanBeFound'
  BY NodeFacts DEF MachinesCanBeFound, Registered

LEMMA PutRegisters ==
    ASSUME FleetInv, NEW n \in Nodes, NEW row, RowShape(row), Put(n, row), row.status # "none"
    PROVE  Registered
  BY PutRow DEF FleetInv, Shapes, Registered

\* A step after which nothing is staged.
LEMMA NothingStaged ==
    ASSUME loop'.pc \notin {"apply", "regExit", "manifest", "reschedule"}
    PROVE  Staged'
  BY DEF Staged

LEMMA DoneIsActing ==
    ASSUME FleetInv, Done \/ EndCycle
    PROVE  loop'.pc \in {"act", "idle"}
<1>1. CASE EndCycle
  BY <1>1, EndIsIdle
<1>2. CASE Done
  <2>1. PICK z, t : z = 0 /\ t = Tail(loop.todo)
    OBVIOUS
  <2>2. loop' = [loop EXCEPT !.pc = "act", !.todo = t, !.run = z, !.held = None]
    BY <1>2, <2>1 DEF Done
  <2>. QED
    BY <2>2 DEF FleetInv, Shapes, LoopShape
<1>. QED
  BY <1>1, <1>2

\* Records are written, machines and manifests stay.
LEMMA FoundRecords ==
    ASSUME FoundInv, Registered, UNCHANGED <<vm, manifest>>
    PROVE  MachinesCanBeFound'
  BY FoundStep DEF FoundInv

\* A step that writes records only, or nothing, and after which nothing is staged.
LEMMA FoundAfterRecords ==
    ASSUME FoundInv, Registered, UNCHANGED <<vm, manifest>>,
           loop'.pc \notin {"apply", "regExit", "manifest", "reschedule"}
    PROVE  FoundInv'
  BY FoundRecords, NothingStaged DEF FoundInv

\* One record is written.
LEMMA FoundAfterPut ==
    ASSUME FleetInv, FoundInv, UNCHANGED <<vm, manifest>>,
           NEW n \in Nodes, NEW row, RowShape(row), Put(n, row), row.status # "none",
           loop'.pc \notin {"apply", "regExit", "manifest", "reschedule"}
    PROVE  FoundInv'
  BY PutRegisters, FoundAfterRecords

LEMMA FoundIdleSteps ==
    ASSUME FleetInv, FoundInv,
           ListNodes \/ SyncFleetAccess \/ MakePlan \/ FinishCycle \/ Act \/ VerifyRotated \/ CheckReplacement
    PROVE  FoundInv'
<1>1. UNCHANGED <<rows, vm, manifest>> /\ LoopShape(loop)
  BY DEF ListNodes, SyncFleetAccess, MakePlan, FinishCycle, Act, VerifyRotated, CheckReplacement, fleet, FleetInv, Shapes
<1>2. Registered
  BY <1>1 DEF Registered
<1>3. CASE VerifyRotated /\ loop' = [loop EXCEPT !.pc = "reschedule", !.held = rows[Node]]
  <2>1. loop'.pc = "reschedule" /\ loop'.held = rows[Node]
    BY <1>1, <1>3 DEF LoopShape
  <2>2. rows[Node].status # "none"
    <3>1. loop.pc = "verify"
      BY <1>3 DEF VerifyRotated, At
    <3>2. loop'.pc # "idle"
      BY <2>1
    <3>3. ~EndCycle
      BY <3>2, EndIsIdle
    <3>. QED
      BY <1>3, <3>3 DEF VerifyRotated
  <2>3. Staged'
    BY <2>1, <2>2 DEF Staged
  <2>. QED
    BY <1>1, <1>2, <2>3, FoundRecords DEF FoundInv
<1>4. CASE ~(VerifyRotated /\ loop' = [loop EXCEPT !.pc = "reschedule", !.held = rows[Node]])
  <2>1. loop'.pc \in {"sync", "plan", "act", "rotate", "stub", "down", "drain", "idle"}
    <3>1. CASE ListNodes
      <4>1. LoopShape(Idle)
        BY DEF LoopShape, Idle
      <4>. QED
        BY <3>1, <4>1 DEF ListNodes, LoopShape
    <3>2. CASE EndCycle
      BY <3>2, EndIsIdle
    <3>3. ASSUME NEW pc, Goto(pc) PROVE loop'.pc = pc
      BY <1>1, <3>3, GotoMoves DEF Moved
    <3>4. CASE SyncFleetAccess \/ CheckReplacement
      BY <3>2, <3>3, <3>4 DEF SyncFleetAccess, CheckReplacement
    <3>5. CASE MakePlan
      <4>1. PICK p : loop' = [loop EXCEPT !.pc = "act", !.todo = p]
        BY <3>5 DEF MakePlan
      <4>. QED
        BY <1>1, <4>1 DEF LoopShape
    <3>6. CASE Act
      <4>1. Goto("rotate") \/ Goto("stub") \/ Goto("down")
        <5>1. loop.pc = "act" /\ loop.todo # <<>> /\ Type # "mark_degraded"
          BY <3>6 DEF Act, At, sideEffecting, Type
        <5>2. Head(loop.todo) \in Sound(loop.snap)
          BY <5>1, CurrentAction DEF FleetInv, PlanOK
        <5>3. Type \in {"rotate", "replace", "retire"}
          BY <5>1, <5>2 DEF Sound, Type
        <5>. QED
          BY <3>6, <5>3 DEF Act, Execute, Type
      <4>. QED
        BY <3>3, <4>1
    <3>7. CASE FinishCycle
      BY <3>2, <3>7 DEF FinishCycle
    <3>8. CASE VerifyRotated
      BY <1>4, <3>2, <3>8 DEF VerifyRotated
    <3>. QED
      BY <3>1, <3>4, <3>5, <3>6, <3>7, <3>8
  <2>. QED
    BY <1>1, <1>2, <2>1, FoundAfterRecords
<1>. QED
  BY <1>3, <1>4

LEMMA FoundUpdateNode ==
    ASSUME FleetInv, FoundInv, loop.pc # "idle", loop.todo # <<>>, UNCHANGED <<vm, manifest>>,
           NEW row, RowShape(row), row.status # "none", UpdateNode(Node, row)
    PROVE  FoundInv'
<1>1. Node \in Nodes
  BY CurrentRun
<1>2. loop'.pc \in {"act", "idle"}
  BY DoneIsActing DEF UpdateNode
<1>3. CASE UNCHANGED rows
  BY <1>2, <1>3, FoundAfterRecords DEF Registered
<1>4. CASE Put(Node, row)
  BY <1>1, <1>2, <1>4, FoundAfterPut
<1>. QED
  BY <1>3, <1>4 DEF UpdateNode

LEMMA FoundUpdates ==
    ASSUME FleetInv, FoundInv, MarkDegraded \/ Reschedule
    PROVE  FoundInv'
<1>1. CASE MarkDegraded
  <2>1. /\ loop.pc = "act" /\ loop.todo # <<>> /\ UNCHANGED <<vm, manifest>>
        /\ UpdateNode(Node, [Listed EXCEPT !.status = "degraded"])
    BY <1>1 DEF MarkDegraded, At
  <2>2. RowShape(loop.snap[Node])
    BY <2>1, CurrentRun DEF FleetInv, ListingOK, RowsShape
  <2>3. PICK row : row = [Listed EXCEPT !.status = "degraded"]
    OBVIOUS
  <2>4. RowShape(row)
    BY <2>2, <2>3 DEF RowShape, Listed
  <2>5. row.status = "degraded"
    BY <2>2, <2>3 DEF RowShape, Listed
  <2>. QED
    BY <2>1, <2>3, <2>4, <2>5, FoundUpdateNode
<1>2. CASE Reschedule
  <2>1. /\ loop.pc = "reschedule" /\ UNCHANGED <<vm, manifest>>
        /\ UpdateNode(Node, [loop.held EXCEPT !.due = FALSE])
    BY <1>2 DEF Reschedule, At
  <2>2. loop.todo # <<>> /\ RowShape(loop.held) /\ loop.held.status # "none"
    BY <2>1 DEF FleetInv, PlanOK, RunOK, FoundInv, Staged
  <2>3. PICK b : b = FALSE
    OBVIOUS
  <2>4. PICK row : row = [loop.held EXCEPT !.due = b]
    OBVIOUS
  <2>5. RowShape(row)
    BY <2>2, <2>4 DEF RowShape
  <2>6. row.status = loop.held.status
    BY <2>2, <2>4 DEF RowShape
  <2>7. UpdateNode(Node, row)
    BY <2>1, <2>3, <2>4
  <2>. QED
    BY <2>1, <2>2, <2>5, <2>6, <2>7, FoundUpdateNode
<1>. QED
  BY <1>1, <1>2

\* The machines of one run change.
LEMMA FoundAfterMachines ==
    ASSUME FoundInv, UNCHANGED <<rows, manifest>>, NEW r \in Runs,
           \A q \in Runs : q # r => vm'[q] = vm[q],
           manifest[r].kind \in {"stub", "full"} \/ vm'[r] = vm[r] \/ vm[r] # NoMachine \/ vm'[r] = NoMachine,
           loop'.pc \notin {"apply", "regExit", "manifest", "reschedule"}
    PROVE  FoundInv'
<1>1. Registered
  BY DEF Registered
<1>2. MachinesCanBeFound'
  BY <1>1, FoundStep DEF FoundInv
<1>. QED
  BY <1>2, NothingStaged DEF FoundInv

LEMMA FoundRotate ==
    ASSUME FleetInv, FoundInv, ReplaceMachine \/ DemoteRotated \/ UpdateManifestEntry
    PROVE  FoundInv'
<1>1. loop.pc # "idle" /\ loop.todo # <<>>
  BY DEF ReplaceMachine, DemoteRotated, UpdateManifestEntry, At, FleetInv, PlanOK
<1>2. CASE ReplaceMachine
  <2>1. UNCHANGED <<rows, manifest>>
    BY <1>2 DEF ReplaceMachine
  <2>2. CASE EndCycle /\ UNCHANGED vm
    BY <2>1, <2>2, EndIsIdle, FoundAfterRecords DEF Registered
  <2>3. CASE /\ Reachable(Node[1]) /\ vm' = [vm EXCEPT ![Node[1]].entry = nextIP]
             /\ loop' = [loop EXCEPT !.pc = "demote", !.run = Node[1]]
    <3>1. PICK r \in Runs : r = Node[1]
      BY <1>1, CurrentRun
    <3>2. manifest[r].kind = "full"
      BY <2>3, <3>1 DEF Reachable
    <3>3. \A q \in Runs : q # r => vm'[q] = vm[q]
      BY <2>3, <3>1 DEF FleetInv, Shapes, MachinesShape
    <3>4. loop'.pc = "demote"
      BY <2>3 DEF FleetInv, Shapes, LoopShape
    <3>. QED
      BY <2>1, <3>2, <3>3, <3>4, FoundAfterMachines
  <2>. QED
    BY <1>2, <2>2, <2>3 DEF ReplaceMachine
<1>3. CASE DemoteRotated
  <2>1. UNCHANGED <<vm, manifest>> /\ Goto("remember")
    BY <1>3 DEF DemoteRotated
  <2>2. loop'.pc = "remember"
    BY <2>1, GotoMoves DEF FleetInv, Shapes, Moved
  <2>3. PICK b, i : b = TRUE /\ i = vm[loop.run].entry
    OBVIOUS
  <2>4. PICK row : row = [rows[Node] EXCEPT !.status = "provisioning", !.ip = i, !.ephemeral = b]
    OBVIOUS
  <2>5. Node \in Nodes /\ RowShape(rows[Node])
    BY <1>1, CurrentRun DEF FleetInv, Shapes, RowsShape
  <2>6. RowShape(row)
    BY <2>4, <2>5 DEF RowShape
  <2>7. row.status = "provisioning"
    BY <2>4, <2>5 DEF RowShape
  <2>8. Put(Node, row)
    BY <1>3, <2>3, <2>4 DEF DemoteRotated
  <2>. QED
    BY <2>1, <2>2, <2>5, <2>6, <2>7, <2>8, FoundAfterPut
<1>4. CASE UpdateManifestEntry
  <2>1. loop.pc = "remember" /\ UNCHANGED <<rows, vm>> /\ Goto("live")
    BY <1>4 DEF UpdateManifestEntry, At
  <2>2. PICK r \in Runs : r = loop.run
    BY <1>1, <2>1, CurrentRun DEF FleetInv, RunOK
  <2>3. PICK i : manifest' = [manifest EXCEPT ![r].ip = i]
    BY <1>4, <2>2 DEF UpdateManifestEntry
  <2>4. \A q \in Runs : manifest'[q].kind = manifest[q].kind
    BY <2>3 DEF FleetInv, Shapes, ManifestsShape
  <2>5. Registered
    BY <2>1 DEF Registered
  <2>6. MachinesCanBeFound'
    BY <2>1, <2>4, <2>5, FoundStep DEF FoundInv
  <2>7. loop'.pc = "live"
    BY <2>1, GotoMoves DEF FleetInv, Shapes, Moved
  <2>. QED
    BY <2>6, <2>7, NothingStaged DEF FoundInv
<1>. QED
  BY <1>2, <1>3, <1>4

LEMMA PairRegisters ==
    ASSUME FleetInv, NEW r \in Runs, NEW e, NEW x, SetPair(r, e, x), e # "none",
           x # "none" \/ x = rows[Exit(r)].status
    PROVE  Registered
<1>1. /\ rows'[Entry(r)].status = e /\ rows'[Exit(r)].status = x
      /\ \A m \in Nodes : m # Entry(r) /\ m # Exit(r) => rows'[m] = rows[m]
  BY PairSet DEF FleetInv, Shapes
<1>. QED
  BY <1>1 DEF Registered

LEMMA FoundActivate ==
    ASSUME FleetInv, FoundInv, ActivatePair
    PROVE  FoundInv'
<1>1. loop.pc = "live" /\ UNCHANGED <<vm, manifest>>
  BY DEF ActivatePair, At
<1>2. PICK r \in Runs : r = loop.run
  BY <1>1, CurrentRun DEF FleetInv, PlanOK, RunOK, Creating
<1>3. Registered
  <2>1. CASE UNCHANGED rows
    BY <2>1 DEF Registered
  <2>2. CASE SetPair(r, "active", "active")
    BY <2>2, PairRegisters
  <2>3. CASE SetPair(r, "provisioning", "provisioning") \/ SetPair(r, "provisioning", rows[Exit(r)].status)
    BY <2>3, PairRegisters
  <2>. QED
    BY <1>2, <2>1, <2>2, <2>3 DEF ActivatePair, SetPair
<1>4. loop'.pc \in {"idle", "verify", "check"}
  <2>1. CASE EndCycle
    BY <2>1, EndIsIdle
  <2>2. CASE Goto(IF Type = "rotate" THEN "verify" ELSE "check")
    <3>1. PICK pc : pc = (IF Type = "rotate" THEN "verify" ELSE "check") /\ Goto(pc)
      BY <2>2
    <3>2. loop'.pc = pc
      BY <3>1, GotoMoves DEF FleetInv, Shapes, Moved
    <3>. QED
      BY <3>1, <3>2
  <2>. QED
    BY <2>1, <2>2 DEF ActivatePair, Type
<1>. QED
  BY <1>1, <1>3, <1>4, FoundAfterRecords

LEMMA FoundCreate ==
    ASSUME FleetInv, FoundInv, WriteStubManifest \/ TerraformApply
    PROVE  FoundInv'
<1>1. UNCHANGED rows /\ Registered
  BY DEF WriteStubManifest, TerraformApply, Registered
<1>2. CASE WriteStubManifest
  <2>1. UNCHANGED vm
    BY <1>2 DEF WriteStubManifest
  <2>2. CASE EndCycle /\ UNCHANGED manifest
    BY <1>1, <2>1, <2>2, EndIsIdle, FoundAfterRecords
  <2>3. ASSUME NEW r \in FreshRuns, manifest' = [manifest EXCEPT ![r].kind = "stub"],
               loop' = [loop EXCEPT !.pc = "apply", !.run = r]
        PROVE  FoundInv'
    <3>1. r \in Runs
      BY DEF FreshRuns
    <3>2. manifest'[r].kind = "stub" /\ \A q \in Runs : q # r => manifest'[q] = manifest[q]
      BY <2>3, <3>1 DEF FleetInv, Shapes, ManifestsShape
    <3>3. loop'.pc = "apply" /\ loop'.run = r
      BY <2>3 DEF FleetInv, Shapes, LoopShape
    <3>4. MachinesCanBeFound'
      BY <1>1, <2>1, <3>2, FoundStep DEF FoundInv
    <3>. QED
      BY <3>2, <3>3, <3>4 DEF FoundInv, Staged
  <2>. QED
    BY <1>2, <2>2, <2>3 DEF WriteStubManifest
<1>3. CASE TerraformApply
  <2>1. loop.pc = "apply" /\ UNCHANGED manifest /\ Goto("regEntry")
    BY <1>3 DEF TerraformApply, At
  <2>2. Creating
    BY <2>1 DEF Creating, Replacing
  <2>3. PICK r \in Runs : r = loop.run /\ manifest[r].kind = "stub"
    BY <2>1, <2>2, UnderWay DEF Unlisted, FoundInv, Staged
  <2>4. \A q \in Runs : q # r => vm'[q] = vm[q]
    BY <1>3, <2>3 DEF TerraformApply, FleetInv, Shapes, MachinesShape
  <2>5. loop'.pc = "regEntry"
    BY <2>1, GotoMoves DEF FleetInv, Shapes, Moved
  <2>. QED
    BY <1>1, <2>1, <2>3, <2>4, <2>5, FoundAfterMachines
<1>. QED
  BY <1>2, <1>3

LEMMA FoundRegister ==
    ASSUME FleetInv, FoundInv, RegisterEntry \/ RegisterExit
    PROVE  FoundInv'
<1>1. /\ loop.pc \in {"regEntry", "regExit"} /\ UNCHANGED <<vm, manifest>> /\ LoopShape(loop)
      /\ (RegisterEntry => loop.pc = "regEntry") /\ (RegisterExit => loop.pc = "regExit")
  BY DEF RegisterEntry, RegisterExit, At, FleetInv, Shapes
<1>2. Creating
  BY <1>1 DEF Creating, Replacing
<1>3. /\ loop.run \in Runs /\ Entry(loop.run) \in Nodes /\ Exit(loop.run) \in Nodes
      /\ Entry(loop.run) # Exit(loop.run)
  BY <1>1, <1>2, UnderWay, NodeFacts DEF Unlisted
<1>4. RowShape(NoRow)
  BY DEF RowShape, NoRow
<1>5. CASE RegisterEntry
  <2>1. PICK b, i : b = TRUE /\ i = vm[loop.run].entry
    OBVIOUS
  <2>2. PICK row : row = [NoRow EXCEPT !.status = "provisioning", !.ip = i, !.ephemeral = b]
    OBVIOUS
  <2>3. RowShape(row)
    BY <1>4, <2>2 DEF RowShape
  <2>4. row.status = "provisioning"
    BY <1>4, <2>2 DEF RowShape
  <2>5. Put(Entry(loop.run), row) /\ Goto("regExit")
    BY <1>5, <2>1, <2>2 DEF RegisterEntry
  <2>6. Registered
    BY <1>3, <2>3, <2>4, <2>5, PutRegisters
  <2>7. rows'[Entry(loop.run)] = row
    BY <1>3, <2>3, <2>5, PutRow DEF FleetInv, Shapes
  <2>8. loop'.pc = "regExit" /\ loop'.run = loop.run
    BY <1>1, <2>5, GotoMoves DEF Moved
  <2>9. Staged'
    BY <2>4, <2>7, <2>8 DEF Staged
  <2>. QED
    BY <1>1, <2>6, <2>9, FoundRecords DEF FoundInv
<1>6. CASE RegisterExit
  <2>1. PICK row : row = [NoRow EXCEPT !.status = "provisioning"]
    OBVIOUS
  <2>2. RowShape(row)
    BY <1>4, <2>1 DEF RowShape
  <2>3. row.status = "provisioning"
    BY <1>4, <2>1 DEF RowShape
  <2>4. Put(Exit(loop.run), row) /\ Goto("manifest")
    BY <1>6, <2>1 DEF RegisterExit
  <2>5. Registered
    BY <1>3, <2>2, <2>3, <2>4, PutRegisters
  <2>6. rows'[Entry(loop.run)] = rows[Entry(loop.run)]
    BY <1>3, <2>2, <2>4, PutRow DEF FleetInv, Shapes
  <2>7. loop'.pc = "manifest" /\ loop'.run = loop.run
    BY <1>1, <2>4, GotoMoves DEF Moved
  <2>8. rows[Entry(loop.run)].status # "none"
    BY <1>1, <1>6 DEF FoundInv, Staged
  <2>9. Staged'
    BY <2>6, <2>7, <2>8 DEF Staged
  <2>. QED
    BY <1>1, <2>5, <2>9, FoundRecords DEF FoundInv
<1>. QED
  BY <1>5, <1>6

LEMMA FoundWriteManifest ==
    ASSUME FleetInv, FoundInv, WriteManifest
    PROVE  FoundInv'
<1>1. loop.pc = "manifest" /\ UNCHANGED <<rows, vm>> /\ Goto("live")
  BY DEF WriteManifest, At
<1>2. Creating
  BY <1>1 DEF Creating, Replacing
<1>3. PICK r \in Runs : r = loop.run
  BY <1>1, <1>2, UnderWay DEF Unlisted
<1>4. PICK i : manifest' = [manifest EXCEPT ![r] = [kind |-> "full", ip |-> i]]
  BY <1>3 DEF WriteManifest
<1>5. manifest'[r].kind = "full" /\ \A q \in Runs : q # r => manifest'[q] = manifest[q]
  BY <1>4 DEF FleetInv, Shapes, ManifestsShape
<1>6. MachinesCanBeFound'
  BY <1>1, <1>5, FoundStep DEF FoundInv, Registered
<1>7. loop'.pc = "live"
  BY <1>1, GotoMoves DEF FleetInv, Shapes, Moved
<1>. QED
  BY <1>6, <1>7, NothingStaged DEF FoundInv

LEMMA FoundDrain ==
    ASSUME FleetInv, FoundInv, DrainNode \/ DrainPeer
    PROVE  FoundInv'
<1>1. loop.pc \in {"drain", "drainPeer"} /\ UNCHANGED <<vm, manifest>>
  BY DEF DrainNode, DrainPeer, At
<1>2. PICK n \in Nodes : Put(n, Drained(n))
  BY <1>1, DrainFacts DEF DrainNode, DrainPeer
<1>3. RowShape(Drained(n)) /\ Drained(n).status = "draining"
  BY <1>1, DrainedShape
<1>4. loop'.pc \in {"act", "idle", "drainPeer"}
  <2>1. CASE Done
    BY <2>1, DoneIsActing
  <2>2. CASE Goto("drainPeer")
    BY <2>2, GotoMoves DEF FleetInv, Shapes, Moved
  <2>. QED
    BY <2>1, <2>2 DEF DrainNode, DrainPeer
<1>. QED
  BY <1>1, <1>2, <1>3, <1>4, FoundAfterPut

LEMMA FoundTeardown ==
    ASSUME FleetInv, FoundInv, RetireRecords \/ TerraformDestroy \/ MarkRetired
    PROVE  FoundInv'
<1>1. loop.pc \in Retiring /\ UNCHANGED manifest
  BY DEF RetireRecords, TerraformDestroy, MarkRetired, At, Retiring
<1>2. Node \in Nodes /\ Node[1] \in Runs
  BY <1>1, RetireFacts
<1>3. CASE RetireRecords
  <2>1. UNCHANGED vm
    BY <1>3 DEF RetireRecords
  <2>2. loop'.pc \in {"idle", "destroy"}
    BY <1>3, EndIsIdle, GotoMoves DEF RetireRecords, FleetInv, Shapes, Moved
  <2>3. \A n \in Nodes : rows'[n] = rows[n] \/ rows'[n] = Retired(n)
    BY <1>3 DEF RetireRecords
  <2>4. Registered
    BY <2>3, RetiredShape DEF Registered
  <2>. QED
    BY <1>1, <2>1, <2>2, <2>4, FoundAfterRecords
<1>4. CASE TerraformDestroy
  <2>1. PICK r \in Runs : r = Node[1]
    BY <1>2
  <2>2. UNCHANGED rows /\ vm'[r] = NoMachine /\ \A q \in Runs : q # r => vm'[q] = vm[q]
    BY <1>4, <2>1 DEF TerraformDestroy, FleetInv, Shapes, MachinesShape
  <2>3. loop'.pc = "mark"
    BY <1>4, GotoMoves DEF TerraformDestroy, FleetInv, Shapes, Moved
  <2>. QED
    BY <1>1, <2>2, <2>3, FoundAfterMachines
<1>5. CASE MarkRetired
  <2>1. UNCHANGED vm /\ (Put(Node, Retired(Node)) \/ UNCHANGED rows)
    BY <1>5 DEF MarkRetired
  <2>2. loop'.pc \in {"act", "idle"}
    BY <1>5, DoneIsActing DEF MarkRetired
  <2>3. CASE UNCHANGED rows
    BY <1>1, <2>1, <2>2, <2>3, FoundAfterRecords DEF Registered
  <2>4. CASE Put(Node, Retired(Node))
    BY <1>1, <1>2, <2>1, <2>2, <2>4, RetiredShape, FoundAfterPut
  <2>. QED
    BY <2>1, <2>3, <2>4
<1>. QED
  BY <1>3, <1>4, <1>5

\* What a failed destroy leaves of a run without machines is nothing.
LEMMA NothingFromNothing ==
    ASSUME FleetInv, NEW r \in Runs, vm[r] = NoMachine,
           vm' \in {[vm EXCEPT ![r].entry = 0], [vm EXCEPT ![r].exit = FALSE]}
    PROVE  vm'[r] = NoMachine
<1>1. vm'[r] = [vm[r] EXCEPT !.entry = 0] \/ vm'[r] = [vm[r] EXCEPT !.exit = FALSE]
  BY DEF FleetInv, Shapes, MachinesShape
<1>2. [NoMachine EXCEPT !.entry = 0] = NoMachine
  BY DEF NoMachine
<1>3. [NoMachine EXCEPT !.exit = FALSE] = NoMachine
  <2>1. PICK b : b = FALSE
    OBVIOUS
  <2>2. NoMachine = [entry |-> 0, exit |-> b]
    BY <2>1 DEF NoMachine
  <2>3. [[entry |-> 0, exit |-> b] EXCEPT !.exit = b] = [entry |-> 0, exit |-> b]
    OBVIOUS
  <2>. QED
    BY <2>1, <2>2, <2>3
<1>. QED
  BY <1>1, <1>2, <1>3

LEMMA FoundFailure ==
    ASSUME FleetInv, FoundInv, StepFails
    PROVE  FoundInv'
<1>1. loop.pc # "idle" /\ loop'.pc = "idle" /\ UNCHANGED manifest
  BY EndIsIdle DEF StepFails, At
<1>2. CASE UNCHANGED <<rows, vm>>
  BY <1>1, <1>2, FoundAfterRecords DEF Registered
<1>3. ASSUME UNCHANGED rows, NEW r \in Runs, NEW v, TouchMachine(r, v),
             manifest[r].kind \in {"stub", "full"} \/ vm[r] # NoMachine \/ vm'[r] = NoMachine
      PROVE  FoundInv'
  <2>1. \A q \in Runs : q # r => vm'[q] = vm[q]
    BY <1>3, TouchedShape DEF FleetInv, Shapes
  <2>. QED
    BY <1>1, <1>3, <2>1, FoundAfterMachines
<1>4. CASE At("rotate") /\ UNCHANGED rows /\ Reachable(Node[1]) /\ vm' = [vm EXCEPT ![Node[1]].entry = 0]
  <2>1. PICK r \in Runs : r = Node[1] /\ manifest[r].kind = "full"
    BY <1>1, <1>4, CurrentRun DEF FleetInv, PlanOK, Rotating, At, Reachable
  <2>2. TouchMachine(r, 0)
    BY <1>4, <2>1 DEF TouchMachine
  <2>. QED
    BY <1>3, <1>4, <2>1, <2>2
<1>5. CASE /\ At("apply") /\ UNCHANGED rows
           /\ vm' \in {[vm EXCEPT ![loop.run].exit = TRUE], [vm EXCEPT ![loop.run].entry = nextIP]}
  <2>1. Creating
    BY <1>5 DEF Creating, Replacing, At
  <2>2. PICK r \in Runs : r = loop.run /\ manifest[r].kind = "stub"
    BY <1>1, <1>5, <2>1, UnderWay DEF Unlisted, FoundInv, Staged, At
  <2>3. TouchMachine(r, TRUE) \/ TouchMachine(r, nextIP)
    BY <1>5, <2>2 DEF TouchMachine
  <2>. QED
    BY <1>3, <1>5, <2>2, <2>3
<1>6. CASE /\ At("destroy") /\ UNCHANGED rows
           /\ vm' \in {[vm EXCEPT ![Node[1]].entry = 0], [vm EXCEPT ![Node[1]].exit = FALSE]}
  <2>1. PICK r \in Runs : r = Node[1]
    BY <1>6, RetireFacts DEF Retiring, At
  <2>2. vm' \in {[vm EXCEPT ![r].entry = 0], [vm EXCEPT ![r].exit = FALSE]}
    BY <1>6, <2>1
  <2>3. TouchMachine(r, 0) \/ TouchMachine(r, FALSE)
    BY <2>2 DEF TouchMachine
  <2>4. vm[r] # NoMachine \/ vm'[r] = NoMachine
    BY <2>2, NothingFromNothing
  <2>. QED
    BY <1>3, <1>6, <2>3, <2>4
<1>7. ASSUME At("live"), UNCHANGED vm, NEW x \in {"provisioning", "active"}, SetPair(loop.run, "provisioning", x)
      PROVE  FoundInv'
  <2>1. PICK r \in Runs : r = loop.run
    BY <1>1, <1>7, CurrentRun DEF FleetInv, PlanOK, RunOK, Creating, At
  <2>2. Registered
    BY <1>7, <2>1, PairRegisters
  <2>. QED
    BY <1>1, <1>7, <2>2, FoundAfterRecords
<1>. QED
  BY <1>2, <1>4, <1>5, <1>6, <1>7 DEF StepFails, SetPair

LEMMA FoundCut ==
    ASSUME FleetInv, FoundInv, WriteCutShort
    PROVE  FoundInv'
<1>1. loop'.pc = "idle" /\ UNCHANGED <<rows, vm>>
  BY EndIsIdle DEF WriteCutShort
<1>2. PICK r \in Runs : /\ manifest' = [manifest EXCEPT ![r] = EmptyManifest]
                        /\ rows[Entry(r)].status # "none" \/ vm[r] = NoMachine
  <2>1. CASE loop.pc = "manifest" /\ manifest' = [manifest EXCEPT ![loop.run] = EmptyManifest]
    <3>1. Creating
      BY <2>1 DEF Creating, Replacing
    <3>2. loop.run \in Runs
      BY <2>1, <3>1, UnderWay DEF Unlisted
    <3>. QED
      BY <2>1, <3>2 DEF FoundInv, Staged
  <2>2. CASE \E q \in FreshRuns : manifest' = [manifest EXCEPT ![q] = EmptyManifest]
    BY <2>2 DEF FreshRuns
  <2>. QED
    BY <2>1, <2>2 DEF WriteCutShort, At
<1>3. EmptyManifest.kind = "empty"
  BY DEF EmptyManifest
<1>4. manifest'[r].kind = "empty" /\ \A q \in Runs : q # r => manifest'[q] = manifest[q]
  BY <1>2, <1>3 DEF FleetInv, Shapes, ManifestsShape
<1>5. MachinesCanBeFound'
  BY <1>1, <1>2, <1>4, FoundStep DEF FoundInv, Registered
<1>. QED
  BY <1>1, <1>5, NothingStaged DEF FoundInv

\* Steps of the world change records only, and unregister none.
LEMMA FoundWorld ==
    ASSUME FleetInv, FoundInv, Registered, UNCHANGED <<vm, manifest, loop>>
    PROVE  FoundInv'
<1>1. loop.pc \in {"regExit", "manifest"} => Entry(loop.run) \in Nodes
  <2>1. loop.pc \in {"regExit", "manifest"} => Creating
    BY DEF Creating, Replacing
  <2>. QED
    BY <2>1, UnderWay, NodeFacts DEF Unlisted
<1>2. Staged'
  BY <1>1 DEF FoundInv, Staged, Registered
<1>. QED
  BY <1>2, FoundRecords DEF FoundInv

LEMMA WorldRegisters ==
    ASSUME FleetInv, ReportsChange \/ RotationDue \/ GraceElapses \/ OperatorDecides
    PROVE  Registered /\ UNCHANGED <<vm, manifest, loop>>
<1>1. UNCHANGED <<vm, manifest, loop>>
  BY DEF ReportsChange, RotationDue, GraceElapses, OperatorDecides, fleet
<1>2. CASE ReportsChange
  BY <1>2 DEF ReportsChange, fleet, Registered
<1>3. CASE RotationDue
  <2>1. PICK r \in Runs : Put(Entry(r), [rows[Entry(r)] EXCEPT !.due = TRUE])
    BY <1>3 DEF RotationDue
  <2>2. PICK n \in Nodes : n = Entry(r)
    BY NodeFacts
  <2>3. \A m \in Nodes : m # n => rows'[m] = rows[m]
    BY <2>1, <2>2 DEF Put, FleetInv, Shapes, RowsShape
  <2>4. PICK b : b = TRUE
    OBVIOUS
  <2>5. rows'[n] = [rows[n] EXCEPT !.due = b]
    BY <2>1, <2>2, <2>4 DEF Put, FleetInv, Shapes, RowsShape
  <2>6. RowShape(rows[n])
    BY DEF FleetInv, Shapes, RowsShape
  <2>7. rows'[n].status = rows[n].status
    BY <2>5, <2>6 DEF RowShape
  <2>. QED
    BY <1>1, <2>3, <2>7 DEF Registered
<1>4. CASE GraceElapses
  <2>1. PICK n \in Nodes : Put(n, [rows[n] EXCEPT !.grace = "over"])
    BY <1>4 DEF GraceElapses
  <2>2. rows'[n] = [rows[n] EXCEPT !.grace = "over"] /\ \A m \in Nodes : m # n => rows'[m] = rows[m]
    BY <2>1 DEF Put, FleetInv, Shapes, RowsShape
  <2>3. RowShape(rows[n])
    BY DEF FleetInv, Shapes, RowsShape
  <2>4. rows'[n].status = rows[n].status
    BY <2>2, <2>3 DEF RowShape
  <2>. QED
    BY <1>1, <2>2, <2>4 DEF Registered
<1>5. CASE OperatorDecides
  <2>1. PICK n \in Nodes, st \in Leaving : Put(n, [rows[n] EXCEPT !.status = st])
    BY <1>5 DEF OperatorDecides, Leaving
  <2>2. rows'[n] = [rows[n] EXCEPT !.status = st] /\ \A m \in Nodes : m # n => rows'[m] = rows[m]
    BY <2>1 DEF Put, FleetInv, Shapes, RowsShape
  <2>3. RowShape(rows[n])
    BY DEF FleetInv, Shapes, RowsShape
  <2>4. rows'[n].status = st
    BY <2>2, <2>3 DEF RowShape
  <2>. QED
    BY <1>1, <2>2, <2>4 DEF Registered, Leaving
<1>. QED
  BY <1>1, <1>2, <1>3, <1>4, <1>5

LEMMA FoundNext == FleetInv /\ FoundInv /\ [Next]_vars => FoundInv'
<1> SUFFICES ASSUME FleetInv, FoundInv, [Next]_vars PROVE FoundInv'
  OBVIOUS
<1>1. CASE UNCHANGED vars
  <2>1. UNCHANGED <<rows, vm, manifest, loop>>
    BY <1>1 DEF vars
  <2>. QED
    BY <2>1, FoundWorld DEF Registered
<1>2. CASE LoopStep
  BY <1>2, FoundIdleSteps, FoundUpdates, FoundRotate, FoundActivate, FoundCreate, FoundRegister,
     FoundWriteManifest, FoundDrain, FoundTeardown DEF LoopStep
<1>. QED
  BY <1>1, <1>2, FoundFailure, FoundCut, FoundWorld, WorldRegisters DEF Next

\* Whatever step of node_up.sh fails, whatever write of a manifest is cut short, and
\* whenever the orchestrator dies, the workspace of every machine is in its run's
\* manifest or in the labels of the run's records.
THEOREM MachinesAreAccounted == Spec => []MachinesCanBeFound
<1>1. Init => FoundInv
  <2> SUFFICES ASSUME Init PROVE FoundInv
    OBVIOUS
  <2>1. \A r \in Runs : vm[r] # NoMachine => manifest[r].kind = "full"
    BY DEF Init
  <2>2. loop.pc = "idle"
    BY DEF Init, Idle
  <2>. QED
    BY <2>1, <2>2 DEF FoundInv, MachinesCanBeFound, Staged
<1>2. FoundInv => MachinesCanBeFound
  BY DEF FoundInv
<1>. QED
  BY <1>1, <1>2, FleetInvInit, FleetInvNext, FoundNext, PTL DEF Spec

Counted == changes \in Nat

LEMMA CountedNext == Counted /\ [Next]_vars => Counted'
<1> SUFFICES ASSUME Counted, [Next]_vars PROVE Counted'
  OBVIOUS
<1>1. CASE UNCHANGED changes
  BY <1>1 DEF Counted
<1>2. CASE Change
  BY <1>2 DEF Counted, Change
<1>3. CASE LoopStep \/ StepFails \/ WriteCutShort \/ GraceElapses
  <2>1. UNCHANGED changes
    BY <1>3 DEF LoopStep, ListNodes, SyncFleetAccess, MakePlan, FinishCycle, Act, MarkDegraded, ReplaceMachine,
         DemoteRotated, UpdateManifestEntry, ActivatePair, VerifyRotated, Reschedule, WriteStubManifest,
         TerraformApply, RegisterEntry, RegisterExit, WriteManifest, CheckReplacement, DrainNode, DrainPeer,
         RetireRecords, TerraformDestroy, MarkRetired, StepFails, WriteCutShort, GraceElapses, world
  <2>. QED
    BY <1>1, <2>1
<1>. QED
  BY <1>1, <1>2, <1>3 DEF Next, ReportsChange, RotationDue, OperatorDecides, vars

\* A pair serves on when neither its records nor its machines change but in labels.
LEMMA ServesOn ==
    ASSUME NEW q \in Serving, vm'[q] = vm[q],
           \A n \in Nodes : n[1] = q => rows'[n].status = rows[n].status /\ rows'[n].ip = rows[n].ip
    PROVE  q \in Serving'
<1>1. q \in Runs
  BY DEF Serving
<1>2. /\ rows'[Entry(q)].status = rows[Entry(q)].status /\ rows'[Exit(q)].status = rows[Exit(q)].status
      /\ rows'[Entry(q)].ip = rows[Entry(q)].ip
  BY <1>1, NodeFacts
<1>. QED
  BY <1>1, <1>2 DEF Serving

\* The steps of the scripts that drain and tear down.
LEMMA DrainLeavesOne ==
    ASSUME FleetInv, DrainNode \/ DrainPeer, ~Withdrawn
    PROVE  Serving' # {}
<1>1. loop.pc \in {"drain", "drainPeer"} /\ UNCHANGED vm
  BY DEF DrainNode, DrainPeer, At
<1>2. PICK n \in Nodes : Put(n, Drained(n)) /\ n[1] = Node[1]
  BY <1>1, DrainFacts DEF DrainNode, DrainPeer
<1>3. RowShape(Drained(n))
  BY <1>1, DrainedShape
<1>4. loop.run \in Serving /\ loop.run # n[1]
  BY <1>1, <1>2, DrainFacts DEF Withdrawn, TakenOut, Leaving
<1>. QED
  BY <1>1, <1>2, <1>3, <1>4, OthersServe DEF FleetInv, Shapes

LEMMA TeardownLeavesOne ==
    ASSUME FleetInv, NEW q \in Serving, RetireRecords \/ TerraformDestroy \/ MarkRetired
    PROVE  q \in Serving'
<1>1. loop.pc \in Retiring
  BY DEF RetireRecords, TerraformDestroy, MarkRetired, At, Retiring
<1>2. q # Node[1] /\ q \in Runs /\ Node \in Nodes /\ Node[1] \in Runs
  BY <1>1, RetireFacts DEF Serving
<1>3. CASE RetireRecords
  <2>1. \A n \in Nodes : n[1] # Node[1] => rows'[n] = rows[n]
    BY <1>2, <1>3, NodeFacts DEF RetireRecords
  <2>2. UNCHANGED vm
    BY <1>3 DEF RetireRecords
  <2>. QED
    BY <1>2, <2>1, <2>2, ServesOn
<1>4. CASE TerraformDestroy
  <2>1. UNCHANGED rows /\ vm'[q] = vm[q]
    BY <1>2, <1>4 DEF TerraformDestroy, FleetInv, Shapes, MachinesShape
  <2>. QED
    BY <2>1, ServesOn
<1>5. CASE MarkRetired
  <2>1. (Put(Node, Retired(Node)) \/ UNCHANGED rows) /\ UNCHANGED vm
    BY <1>5 DEF MarkRetired
  <2>2. RowShape(Retired(Node))
    BY <1>2, RetiredShape
  <2>3. CASE Put(Node, Retired(Node))
    BY <1>2, <2>1, <2>2, <2>3, OthersServe DEF FleetInv, Shapes
  <2>4. CASE UNCHANGED rows
    BY <2>1, <2>4, ServesOn
  <2>. QED
    BY <2>1, <2>3, <2>4
<1>. QED
  BY <1>3, <1>4, <1>5

LEMMA FailureLeavesOne ==
    ASSUME FleetInv, StepFails, loop.pc \in {"drain", "drainPeer"} \cup Retiring, NEW q \in Serving
    PROVE  q \in Serving'
<1>1. q \in Runs
  BY DEF Serving
<1>2. UNCHANGED rows /\ (UNCHANGED vm \/ loop.pc = "destroy")
  BY DEF StepFails, At, Retiring
<1>3. vm'[q] = vm[q]
  <2>1. CASE UNCHANGED vm
    BY <2>1
  <2>2. CASE loop.pc = "destroy" /\ ~UNCHANGED vm
    <3>1. q # Node[1] /\ Node[1] \in Runs
      BY <2>2, RetireFacts DEF Retiring
    <3>2. \E v : TouchMachine(Node[1], v)
      BY <2>2 DEF StepFails, At, TouchMachine
    <3>. QED
      BY <1>1, <3>1, <3>2, TouchedShape DEF FleetInv, Shapes
  <2>. QED
    BY <1>2, <2>1, <2>2
<1>. QED
  BY <1>2, <1>3, ServesOn

LEMMA GraceLeavesAll ==
    ASSUME FleetInv, GraceElapses, NEW q \in Serving
    PROVE  q \in Serving'
<1>1. UNCHANGED vm
  BY DEF GraceElapses
<1>2. PICK n \in Nodes : Put(n, [rows[n] EXCEPT !.grace = "over"])
  BY DEF GraceElapses
<1>3. PICK row : row = [rows[n] EXCEPT !.grace = "over"]
  OBVIOUS
<1>4. RowShape(rows[n])
  BY DEF FleetInv, Shapes, RowsShape
<1>5. RowShape(row)
  BY <1>3, <1>4 DEF RowShape
<1>6. row.status = rows[n].status /\ row.ip = rows[n].ip
  BY <1>3, <1>4 DEF RowShape
<1>7. Put(n, row)
  BY <1>2, <1>3
<1>8. rows'[n] = row /\ \A m \in Nodes : m # n => rows'[m] = rows[m]
  BY <1>5, <1>7, PutRow DEF FleetInv, Shapes
<1>. QED
  BY <1>1, <1>6, <1>8, ServesOn

\* Draining, retiring and destroying never takes the last pair in service away,
\* whichever step of the scripts fails and whichever nodes an operator takes out, but for
\* a replacement that the operator takes out between its check and the drain.
THEOREM LastPairIsKept == Spec => LastPairStays
<1>1. FleetInv /\ Counted /\ [Next]_vars =>
        [Serving # {} /\ loop.pc \in {"drain", "drainPeer", "down", "destroy", "mark"} /\ UNCHANGED <<blocked, changes>>
           => Serving' # {} \/ Withdrawn]_vars
  <2> SUFFICES ASSUME FleetInv, Counted, Next, Serving # {}, UNCHANGED <<blocked, changes>>,
                      loop.pc \in {"drain", "drainPeer", "down", "destroy", "mark"}, ~Withdrawn
               PROVE  Serving' # {}
    OBVIOUS
  <2>1. PICK q \in Serving : TRUE
    OBVIOUS
  <2>2. ~Change
    BY DEF Change, Counted
  <2>3. CASE DrainNode \/ DrainPeer
    BY <2>3, DrainLeavesOne
  <2>4. CASE RetireRecords \/ TerraformDestroy \/ MarkRetired
    BY <2>1, <2>4, TeardownLeavesOne
  <2>5. CASE StepFails
    BY <2>1, <2>5, FailureLeavesOne DEF Retiring
  <2>9. CASE WriteCutShort
    BY <2>9 DEF WriteCutShort, At
  <2>6. CASE GraceElapses
    BY <2>1, <2>6, GraceLeavesAll
  <2>7. ~(ReportsChange \/ RotationDue \/ OperatorDecides)
    BY <2>2 DEF ReportsChange, RotationDue, OperatorDecides
  <2>8. LoopStep => DrainNode \/ DrainPeer \/ RetireRecords \/ TerraformDestroy \/ MarkRetired
    BY DEF LoopStep, At, ListNodes, SyncFleetAccess, MakePlan, FinishCycle, Act, MarkDegraded, ReplaceMachine,
       DemoteRotated, UpdateManifestEntry, ActivatePair, VerifyRotated, Reschedule, WriteStubManifest,
       TerraformApply, RegisterEntry, RegisterExit, WriteManifest, CheckReplacement
  <2>. QED
    BY <2>3, <2>4, <2>5, <2>6, <2>7, <2>8, <2>9 DEF Next
<1>2. Init => Counted
  BY DEF Init, Counted
<1>. QED
  BY <1>1, <1>2, FleetInvInit, FleetInvNext, CountedNext, PTL DEF Spec, LastPairStays
=============================================================================
