------------------------- MODULE NodeRegistryProofs -------------------------
(***************************************************************************)
(* Proofs about NodeRegistry: type correctness, that only the guarded       *)
(* activation makes a node serve, that a decommissioned node is not brought *)
(* back and that every change is queued, for any nodes, any number of       *)
(* concurrent requests and any faults; and about PairActivation: the exit   *)
(* of a serving entry and the users that an activated entry admits.         *)
(*                                                                         *)
(* The guards of a PATCH and of a verdict were evaluated when the handler   *)
(* read the row, so the invariant has to say what a handler carries: a      *)
(* PATCH into active read an active node, and no verdict in flight moves a  *)
(* node to active.  Likewise a run of the script knows what it did before,  *)
(* which holds on because of the lock of its pair.                          *)
(***************************************************************************)
EXTENDS PairActivation, TLAPS

\* What the local state r of a handler says about the registry when its table is t.
Carried(r, t) ==
    /\ r.pc \in {"write", "setip", "set", "record", "enqueue"} => r.n \in Nodes /\ t[r.n].status # "none"
    /\ r.pc = "write" => r.body \in Body /\ (r.body.status = "active" => r.to = "active")
    /\ r.pc = "setip" => r.to \in Addresses
    /\ r.pc = "set" => r.to \in Statuses \ {"active"}
    /\ \A a \in r.todo : t[a[1]].status # "none" /\ a[2] # "healthy"

\* The inductive invariant.
RegistryInv == TypeOK /\ \A h \in Handlers : Carried(hd[h], node)

\* No operation removes a node.
Stays(n) == node'[n].status # "none"
KeepsNodes == \A n \in Nodes : Registered(n) => Stays(n)

----------------------------------------------------------------------------

\* A step that gives one handler a new local state keeps what the others carry.
LEMMA OneHandlerMoves ==
    ASSUME RegistryInv, KeepsNodes, NEW h \in Handlers, NEW r \in Handler,
           hd' = [hd EXCEPT ![h] = r], Carried(r, node')
    PROVE  /\ hd' \in [Handlers -> Handler]
           /\ \A k \in Handlers : Carried(hd'[k], node')
<1>1. hd' \in [Handlers -> Handler]
  BY DEF RegistryInv, TypeOK
<1>2. ASSUME NEW k \in Handlers, k # h PROVE Carried(hd'[k], node')
  <2>1. hd'[k] = hd[k] /\ hd[k] \in Handler
    BY <1>2 DEF RegistryInv, TypeOK
  <2>2. Carried(hd[k], node)
    BY DEF RegistryInv
  <2>3. \A a \in hd[k].todo : a[1] \in Nodes
    BY <2>1 DEF Handler
  <2>. QED
    BY <2>1, <2>2, <2>3 DEF Carried, KeepsNodes, Registered, Stays
<1>3. hd'[h] = r
  BY DEF RegistryInv, TypeOK
<1>. QED
  BY <1>1, <1>2, <1>3 DEF Carried, Registered, Stays

\* A row of the registry with another status or address is a row.
LEMMA RowChanges ==
    ASSUME RegistryInv, NEW n \in Nodes, Registered(n), NEW row \in Body,
           node' = [node EXCEPT ![n] = row]
    PROVE  /\ node' \in [Nodes -> Body \cup {NoNode}]
           /\ KeepsNodes
           /\ Stays(n)
  BY DEF RegistryInv, TypeOK, KeepsNodes, Registered, Stays, Body, NoNode, Statuses

\* A registered node is a row of the table.
LEMMA RegisteredIsRow ==
    ASSUME RegistryInv, NEW n \in Nodes, Registered(n)
    PROVE  node[n] \in Body
  BY DEF RegistryInv, TypeOK, Registered, Stays, NoNode

\* SetStatus stores a row.
LEMMA SetStatusChangesRow ==
    ASSUME RegistryInv, NEW n \in Nodes, Registered(n), NEW s \in Statuses, SetStatus(n, s)
    PROVE  /\ node' \in [Nodes -> Body \cup {NoNode}]
           /\ KeepsNodes
           /\ Stays(n)
<1>1. [node[n] EXCEPT !.status = s] \in Body
  BY RegisteredIsRow DEF Body
<1>. QED
  BY <1>1, RowChanges DEF SetStatus

----------------------------------------------------------------------------

\* The local states that handlers go to are local states.
LEMMA LocalStates ==
    ASSUME RegistryInv, NEW h \in Handlers
    PROVE  /\ Idle \in Handler
           /\ \A pc \in {"record", "enqueue"} : [hd[h] EXCEPT !.pc = pc] \in Handler
           /\ Continue(h) \in Handler
<1>1. hd[h] \in Handler
  BY DEF RegistryInv, TypeOK
<1>. QED
  BY <1>1 DEF Handler, Idle, Continue

\* The next node of a batch, or the end of the request.
LEMMA NextNodeMoves ==
    ASSUME RegistryInv, KeepsNodes, NEW h \in Handlers, NextNode(h)
    PROVE  /\ hd' \in [Handlers -> Handler]
           /\ \A k \in Handlers : Carried(hd'[k], node')
<1>1. hd[h] \in Handler /\ Carried(hd[h], node)
  BY DEF RegistryInv, TypeOK
<1>2. \A a \in hd[h].todo : a[1] \in Nodes
  BY <1>1 DEF Handler
<1>3. Carried(Idle, node') /\ Carried(Continue(h), node')
  BY <1>1, <1>2 DEF Carried, Idle, Continue, KeepsNodes, Registered, Stays, Handler
<1>. QED
  BY <1>3, LocalStates, OneHandlerMoves DEF NextNode

\* Going to the history or the queue after a change of node hd[h].n.
LEMMA GotoMoves ==
    ASSUME RegistryInv, KeepsNodes, NEW h \in Handlers, NEW pc \in {"record", "enqueue"},
           hd[h].pc \in {"write", "setip", "set", "record"}, Goto(h, pc)
    PROVE  /\ hd' \in [Handlers -> Handler]
           /\ \A k \in Handlers : Carried(hd'[k], node')
<1>1. hd[h] \in Handler /\ Carried(hd[h], node)
  BY DEF RegistryInv, TypeOK
<1>2. \A a \in hd[h].todo : a[1] \in Nodes
  BY <1>1 DEF Handler
<1>3. Carried([hd[h] EXCEPT !.pc = pc], node')
  BY <1>1, <1>2 DEF Carried, KeepsNodes, Registered, Stays, Handler
<1>. QED
  BY <1>3, LocalStates, OneHandlerMoves DEF Goto

\* A request starts with a change of node n, which is registered.
LEMMA StartMoves ==
    ASSUME RegistryInv, KeepsNodes, NEW h \in Handlers, NEW op, NEW n \in Nodes, Registered(n),
           Start(h, op, n, "record")
    PROVE  /\ hd' \in [Handlers -> Handler]
           /\ \A k \in Handlers : Carried(hd'[k], node')
<1> DEFINE r == [Idle EXCEPT !.op = op, !.n = n, !.pc = "record"]
<1>1. r \in Handler
  BY DEF Handler, Idle, Start
<1>2. Carried(r, node')
  BY DEF Carried, Idle, KeepsNodes, Registered, Stays
<1>. QED
  BY <1>1, <1>2, OneHandlerMoves DEF Start

\* A change is owed a rebuild.
LEMMA OweKeepsType ==
    ASSUME RegistryInv, KeepsNodes, NEW n \in Nodes, Stays(n), Owe(n)
    PROVE  owed' \subseteq {m \in Nodes : Stays(m)}
  BY DEF RegistryInv, TypeOK, KeepsNodes, Registered, Stays, Owe

----------------------------------------------------------------------------

\* Every operation keeps the invariant.
LEMMA InvariantKept ==
    ASSUME RegistryInv, [Next]_vars
    PROVE  RegistryInv'
<1>. USE RegistryConstants
<1> DEFINE Locals == hd' \in [Handlers -> Handler] /\ \A k \in Handlers : Carried(hd'[k], node')
<1> DEFINE Table == node' \in [Nodes -> Body \cup {NoNode}]
<1> DEFINE Owed == owed' \subseteq {m \in Nodes : Stays(m)}
<1> DEFINE Counters == eligible' \in 0..MaxRevision /\ failures' \in 0..MaxFailures
<1>0. ASSUME Locals, Table, Owed, Counters PROVE RegistryInv'
  BY <1>0 DEF RegistryInv, TypeOK, Carried, Registered, Stays
<1>. HIDE DEF Locals, Table, Owed, Counters
<1>a. ASSUME UNCHANGED <<eligible, failures>> PROVE Counters
  BY <1>a DEF RegistryInv, TypeOK, Counters
<1>b. ASSUME UNCHANGED node PROVE KeepsNodes /\ Table
  BY <1>b DEF RegistryInv, TypeOK, Table, KeepsNodes, Registered, Stays
<1>c. ASSUME KeepsNodes, owed' \subseteq owed PROVE Owed
  BY <1>c DEF RegistryInv, TypeOK, Owed, KeepsNodes, Registered, Stays
<1>d. ASSUME KeepsNodes, UNCHANGED hd PROVE Locals
  <2>1. \A h \in Handlers : hd[h] \in Handler /\ Carried(hd[h], node)
    BY DEF RegistryInv, TypeOK
  <2>2. \A h \in Handlers : \A x \in hd[h].todo : x[1] \in Nodes
    BY <2>1 DEF Handler
  <2>. QED
    BY <1>d, <2>1, <2>2 DEF RegistryInv, TypeOK, Locals, KeepsNodes, Carried, Registered, Stays
<1>e. ASSUME NEW f, Failing(f), UNCHANGED eligible PROVE Counters
  BY <1>e DEF RegistryInv, TypeOK, Counters, Failing
<1>f. ASSUME NEW h \in Handlers, KeepsNodes, hd' = [hd EXCEPT ![h] = Idle] PROVE Locals
  <2>1. Carried(Idle, node')
    BY DEF Carried, Idle
  <2>. QED
    BY <1>f, <2>1, LocalStates, OneHandlerMoves DEF Locals
<1>1. CASE UNCHANGED vars
  BY <1>1, <1>0, <1>a, <1>b, <1>c, <1>d DEF vars
<1>2. CASE ChangeEligible
  <2>1. Counters
    BY <1>2 DEF ChangeEligible, RegistryInv, TypeOK, Counters
  <2>. QED
    BY <1>2, <2>1, <1>0, <1>b, <1>c, <1>d DEF ChangeEligible
<1>3. ASSUME NEW h \in Handlers, NEW n \in Nodes,
             NEW b \in [status : Sent, ip : Addresses, wide : BOOLEAN], Register(h, n, b)
      PROVE  RegistryInv'
  <2>1. b \in Body
    BY DEF Body, Statuses
  <2>2. Table /\ KeepsNodes
    BY <1>3, <2>1 DEF Register, RegistryInv, TypeOK, Table, KeepsNodes, Registered, Stays, Body, Statuses, NoNode
  <2>. QED
    BY <1>3, <2>2, <1>0, <1>a, <1>c, <1>d DEF Register
<1>4. ASSUME NEW h \in Handlers, NEW n \in Nodes,
             NEW b \in [status : Sent, ip : Addresses, wide : BOOLEAN], UpdateGet(h, n, b)
      PROVE  RegistryInv'
  <2> DEFINE r == [Idle EXCEPT !.op = "update", !.n = n, !.pc = "write",
                               !.body = b, !.to = node[n].status]
  <2>1. b \in Body /\ node[n] \in Body /\ Registered(n)
    BY <1>4, RegisteredIsRow DEF UpdateGet, Body, Statuses
  <2>2. node[n].status \in Statuses /\ (b.status = "active" => node[n].status = "active")
    BY <1>4, <2>1 DEF UpdateGet, Body
  <2>3. r \in Handler
    BY <1>4, <2>1, <2>2 DEF UpdateGet, Handler, Idle
  <2>4. KeepsNodes /\ Table
    BY <1>4, <1>b DEF UpdateGet
  <2>5. Carried(r, node')
    BY <2>1, <2>2, <2>4 DEF Carried, Idle, KeepsNodes, Registered, Stays
  <2>6. Locals
    BY <1>4, <2>3, <2>4, <2>5, OneHandlerMoves DEF UpdateGet, Locals
  <2>. QED
    BY <1>4, <2>4, <2>6, <1>0, <1>a, <1>c DEF UpdateGet
<1>5. ASSUME NEW h \in Handlers, NEW n \in Nodes, NEW ip \in Addresses, RotateGet(h, n, ip)
      PROVE  RegistryInv'
  <2> DEFINE r == [Idle EXCEPT !.op = "rotate", !.n = n, !.pc = "setip", !.to = ip]
  <2>1. r \in Handler
    BY <1>5 DEF RotateGet, Handler, Idle
  <2>2. KeepsNodes /\ Table
    BY <1>5, <1>b DEF RotateGet
  <2>3. Carried(r, node')
    BY <1>5, <2>2 DEF RotateGet, Carried, Idle, KeepsNodes, Registered, Stays
  <2>4. Locals
    BY <1>5, <2>1, <2>2, <2>3, OneHandlerMoves DEF RotateGet, Locals
  <2>. QED
    BY <1>5, <2>2, <2>4, <1>0, <1>a, <1>c DEF RotateGet
<1>6. ASSUME NEW h \in Handlers, NEW n \in Nodes, NEW op, NEW s \in Statuses,
             Registered(n), Start(h, op, n, "record"), SetStatus(n, s), Owe(n),
             UNCHANGED <<eligible, failures>>
      PROVE  RegistryInv'
  <2>1. Table /\ KeepsNodes /\ Stays(n)
    BY <1>6, SetStatusChangesRow DEF Table
  <2>2. Locals
    BY <1>6, <2>1, StartMoves DEF Locals
  <2>3. Owed
    BY <1>6, <2>1, OweKeepsType DEF Owed
  <2>. QED
    BY <1>6, <2>1, <2>2, <2>3, <1>0, <1>a
<1>7. ASSUME NEW h \in Handlers, NEW n \in Nodes, Retire(h, n) PROVE RegistryInv'
  BY <1>7, <1>6 DEF Retire, Statuses
<1>8. ASSUME NEW h \in Handlers, NEW n \in Nodes, Demote(h, n) PROVE RegistryInv'
  BY <1>8, <1>6 DEF Demote, CanDemote, Statuses
<1>9. ASSUME NEW h \in Handlers, NEW n \in Nodes, NEW rev, NEW evidence,
             Activate(h, n, rev, evidence)
      PROVE  RegistryInv'
  <2>1. Registered(n)
    BY <1>9 DEF Activate, CanActivate, Registered, Stays
  <2>. QED
    BY <1>9, <2>1, <1>6 DEF Activate, Statuses
<1>10. ASSUME NEW h \in Handlers, NEW batch \in SUBSET (Nodes \X Verdicts), Ingest(h, batch)
       PROVE  RegistryInv'
  <2> DEFINE r == [Idle EXCEPT !.op = "signal", !.pc = "apply", !.todo = Worst(batch)]
  <2>1. KeepsNodes /\ Table
    BY <1>10, <1>b DEF Ingest
  <2>2. \A x \in Worst(batch) : x \in batch /\ x[2] # "healthy"
    BY DEF Worst, rank, Verdicts
  <2>3. r \in Handler
    BY <1>10, <2>2 DEF Ingest, Handler, Idle
  <2>4. Carried(r, node')
    <3>1. \A x \in Worst(batch) : x[1] \in Nodes /\ Registered(x[1])
      BY <1>10, <2>2 DEF Ingest
    <3>. QED
      BY <3>1, <2>1, <2>2 DEF Carried, Idle, KeepsNodes, Registered, Stays
  <2>5. Locals
    <3>1. CASE Worst(batch) = {}
      BY <1>10, <3>1, <2>1, <1>d DEF Ingest
    <3>2. CASE Worst(batch) # {}
      BY <1>10, <3>2, <2>1, <2>3, <2>4, OneHandlerMoves DEF Ingest, Locals
    <3>. QED
      BY <3>1, <3>2
  <2>. QED
    BY <1>10, <2>1, <2>5, <1>0, <1>a, <1>c DEF Ingest
<1>11. ASSUME NEW h \in Handlers, Update(h) PROVE RegistryInv'
  <2>1. hd[h].n \in Nodes /\ Registered(hd[h].n) /\ hd[h].body \in Body
    BY <1>11 DEF Update, RegistryInv, Carried, Registered
  <2>2. Table /\ KeepsNodes /\ Stays(hd[h].n)
    BY <1>11, <2>1, RowChanges DEF Update, Table, Registered, Stays
  <2>3. Locals
    BY <1>11, <2>2, GotoMoves DEF Update, Locals
  <2>4. Owed
    BY <1>11, <2>1, <2>2, OweKeepsType DEF Update, Owed
  <2>. QED
    BY <1>11, <2>2, <2>3, <2>4, <1>0, <1>a DEF Update
<1>12. ASSUME NEW h \in Handlers, SetEntryIP(h) PROVE RegistryInv'
  <2>1. hd[h].n \in Nodes /\ Registered(hd[h].n) /\ hd[h].to \in Addresses
    BY <1>12 DEF SetEntryIP, RegistryInv, Carried, Registered
  <2>2. [node[hd[h].n] EXCEPT !.ip = hd[h].to] \in Body
    BY <2>1, RegisteredIsRow DEF Body
  <2>3. Table /\ KeepsNodes /\ Stays(hd[h].n)
    BY <1>12, <2>1, <2>2, RowChanges DEF SetEntryIP, Table, Registered, Stays
  <2>4. Locals
    BY <1>12, <2>3, GotoMoves DEF SetEntryIP, Locals
  <2>5. Owed
    BY <1>12, <2>1, <2>3, OweKeepsType DEF SetEntryIP, Owed
  <2>. QED
    BY <1>12, <2>3, <2>4, <2>5, <1>0, <1>a DEF SetEntryIP
<1>13. ASSUME NEW h \in Handlers, ApplyVerdict(h) PROVE RegistryInv'
  <2>1. KeepsNodes /\ Table
    BY <1>13, <1>b DEF ApplyVerdict
  <2>2. hd[h] \in Handler /\ Carried(hd[h], node)
    BY DEF RegistryInv, TypeOK
  <2>3. PICK x \in hd[h].todo :
          LET cur  == node[x[1]].status
              rest == hd[h].todo \ {x}
              next == [hd[h] EXCEPT !.todo = rest]
          IN hd' = [hd EXCEPT ![h] =
                      CASE Target(cur, x[2]) # cur ->
                             [next EXCEPT !.pc = "set", !.n = x[1], !.to = Target(cur, x[2])]
                        [] Target(cur, x[2]) = cur /\ rest # {} -> next
                        [] OTHER -> Idle]
    BY <1>13 DEF ApplyVerdict
  <2> DEFINE cur  == node[x[1]].status
             next == [hd[h] EXCEPT !.todo = hd[h].todo \ {x}]
             moved == [next EXCEPT !.pc = "set", !.n = x[1], !.to = Target(cur, x[2])]
  <2>4. \A a \in hd[h].todo : a[1] \in Nodes /\ a[2] \in {"degraded", "blocked"} /\ Stays(a[1])
    BY <2>1, <2>2 DEF Handler, Carried, Verdicts, KeepsNodes, Registered, Stays
  <2>5. next \in Handler /\ Carried(next, node')
    BY <2>1, <2>2, <2>4 DEF Handler, Carried, KeepsNodes, Registered, Stays
  <2>6. ASSUME Target(cur, x[2]) # cur PROVE moved \in Handler /\ Carried(moved, node')
    <3>1. Target(cur, x[2]) \in {"blocked", "degraded"}
      BY <2>4, <2>6 DEF Target
    <3>. QED
      BY <2>2, <2>4, <3>1 DEF Handler, Carried, Statuses, Stays
  <2>7. Locals
    <3>1. CASE Target(cur, x[2]) # cur
      BY <3>1, <2>1, <2>3, <2>6, OneHandlerMoves DEF Locals
    <3>2. CASE Target(cur, x[2]) = cur /\ hd[h].todo \ {x} # {}
      BY <3>2, <2>1, <2>3, <2>5, OneHandlerMoves DEF Locals
    <3>3. CASE Target(cur, x[2]) = cur /\ hd[h].todo \ {x} = {}
      BY <3>3, <2>1, <2>3, <1>f
    <3>. QED
      BY <3>1, <3>2, <3>3
  <2>. QED
    BY <1>13, <2>1, <2>7, <1>0, <1>a, <1>c DEF ApplyVerdict
<1>14. ASSUME NEW h \in Handlers, SetStatusIfChanged(h) PROVE RegistryInv'
  <2>1. hd[h].n \in Nodes /\ Registered(hd[h].n) /\ hd[h].to \in Statuses
    BY <1>14 DEF SetStatusIfChanged, RegistryInv, Carried, Registered
  <2>2. Table /\ KeepsNodes /\ Stays(hd[h].n)
    BY <1>14, <2>1, SetStatusChangesRow DEF SetStatusIfChanged, Table, Registered, Stays
  <2>3. CASE NextNode(h) /\ UNCHANGED owed
    BY <1>14, <2>2, <2>3, <1>0, <1>a, <1>c, NextNodeMoves DEF SetStatusIfChanged, Locals
  <2>4. CASE Goto(h, "record") /\ Owe(hd[h].n)
    <3>1. Locals
      BY <1>14, <2>2, <2>4, GotoMoves DEF SetStatusIfChanged, Locals
    <3>2. Owed
      BY <2>1, <2>2, <2>4, OweKeepsType DEF Owed
    <3>. QED
      BY <1>14, <2>2, <3>1, <3>2, <1>0, <1>a DEF SetStatusIfChanged
  <2>. QED
    BY <1>14, <2>3, <2>4 DEF SetStatusIfChanged
<1>15. ASSUME NEW h \in Handlers, RecordRotation(h) PROVE RegistryInv'
  <2>1. KeepsNodes /\ Table
    BY <1>15, <1>b DEF RecordRotation
  <2>2. Locals
    BY <1>15, <2>1, GotoMoves DEF RecordRotation, Locals
  <2>. QED
    BY <1>15, <2>1, <2>2, <1>0, <1>a, <1>c DEF RecordRotation
<1>16. ASSUME NEW h \in Handlers, EnqueueNode(h) PROVE RegistryInv'
  <2>1. KeepsNodes /\ Table
    BY <1>16, <1>b DEF EnqueueNode
  <2>2. Locals
    BY <1>16, <2>1, NextNodeMoves DEF EnqueueNode, Locals
  <2>. QED
    BY <1>16, <2>1, <2>2, <1>0, <1>a, <1>c DEF EnqueueNode
<1>17. ASSUME NEW h \in Handlers, RecordFails(h) PROVE RegistryInv'
  <2>1. KeepsNodes /\ Table
    BY <1>17, <1>b DEF RecordFails
  <2>2. Locals
    <3>1. CASE hd[h].op \in BestEffort
      BY <1>17, <3>1, <2>1, GotoMoves DEF RecordFails, Goto, Locals
    <3>2. CASE hd[h].op \notin BestEffort
      BY <1>17, <3>2, <2>1, <1>f DEF RecordFails
    <3>. QED
      BY <3>1, <3>2
  <2>. QED
    BY <1>17, <2>1, <2>2, <1>0, <1>c, <1>e DEF RecordFails
<1>18. ASSUME NEW h \in Handlers, EnqueueFails(h) PROVE RegistryInv'
  <2>1. KeepsNodes /\ Table
    BY <1>18, <1>b DEF EnqueueFails
  <2>2. Locals
    BY <1>18, <2>1, NextNodeMoves DEF EnqueueFails, Locals
  <2>. QED
    BY <1>18, <2>1, <2>2, <1>0, <1>c, <1>e DEF EnqueueFails
<1>19. ASSUME NEW h \in Handlers, Crash(h) PROVE RegistryInv'
  <2>1. KeepsNodes /\ Table
    BY <1>19, <1>b DEF Crash
  <2>2. Locals
    BY <1>19, <2>1, <1>f DEF Crash
  <2>. QED
    BY <1>19, <2>1, <2>2, <1>0, <1>c, <1>e DEF Crash
<1>. QED
  <2>1. CASE \E h \in Handlers : Request(h)
    BY <2>1, <1>3, <1>4, <1>5, <1>7, <1>8, <1>9 DEF Request
  <2>2. CASE \E h \in Handlers : HandlerStep(h)
    BY <2>2, <1>11, <1>12, <1>13, <1>14, <1>15, <1>16 DEF HandlerStep
  <2>. QED
    BY <2>1, <2>2, <1>1, <1>2, <1>10, <1>17, <1>18, <1>19 DEF Next

\* The registry starts empty.
LEMMA InvariantInitially == Init => RegistryInv
  BY RegistryConstants DEF Init, RegistryInv, TypeOK, Carried, Handler, Idle, Registered, NoNode

\* Rows, handlers and counters keep their types, and a handler that works on a node
\* has a registered one.
THEOREM RegistryTypeCorrect == Spec => []TypeOK
<1>1. RegistryInv => TypeOK
  BY DEF RegistryInv
<1>. QED
  BY <1>1, InvariantInitially, InvariantKept, PTL DEF Spec

----------------------------------------------------------------------------
(* What a step does to the status of a node.                               *)

\* Node n starts to serve only through the gate, or by a PATCH that read it serving.
Gated(n) ==
    node[n].status # "active" /\ node'[n].status = "active" =>
       \/ \E h \in Handlers : WritesBack(h, n, "write") /\ hd[h].to = "active"
       \/ /\ node[n].status = "provisioning"
          /\ n \notin Exits =>
               /\ node[n].wide
               /\ \E x \in Exits : EntryOf[x] = n /\ node[x].status = "active"

\* Node n stays taken out, or is written back by a PATCH or a verdict.
StaysOut(n) ==
    node[n].status \in {"draining", "retired"}
       => \/ node'[n].status \in {"draining", "retired"}
          \/ \E h \in Handlers : WritesBack(h, n, "write") \/ WritesBack(h, n, "set")

\* SetStatus changes the status of one row.
LEMMA StatusAfterSet ==
    ASSUME RegistryInv, NEW m \in Nodes, NEW s, SetStatus(m, s), NEW n \in Nodes
    PROVE  node'[n].status = IF n = m THEN s ELSE node[n].status
<1>1. node[m] \in Body \cup {NoNode}
  BY DEF RegistryInv, TypeOK
<1>2. [node[m] EXCEPT !.status = s].status = s
  BY <1>1 DEF Body, NoNode
<1>. QED
  BY <1>2 DEF SetStatus, RegistryInv, TypeOK

\* Every step respects the gate and the operator's decisions.
LEMMA StatusSteps ==
    ASSUME RegistryInv, [Next]_vars, NEW n \in Nodes
    PROVE  Gated(n) /\ StaysOut(n)
<1>a. ASSUME node'[n].status = node[n].status PROVE Gated(n) /\ StaysOut(n)
  BY <1>a DEF Gated, StaysOut
<1>1. CASE UNCHANGED node
  BY <1>1, <1>a
<1>2. ASSUME NEW h \in Handlers, NEW m \in Nodes,
             NEW b \in [status : Sent, ip : Addresses, wide : BOOLEAN], Register(h, m, b)
      PROVE  Gated(n) /\ StaysOut(n)
  <2>1. node'[n].status = IF n = m THEN b.status ELSE node[n].status
    BY <1>2 DEF Register, RegistryInv, TypeOK
  <2>2. node[m].status = "none" /\ b.status # "active"
    BY <1>2 DEF Register, Registered
  <2>. QED
    BY <2>1, <2>2 DEF Gated, StaysOut
<1>3. ASSUME NEW h \in Handlers, NEW m \in Nodes, Retire(h, m)
      PROVE  Gated(n) /\ StaysOut(n)
  BY <1>3, StatusAfterSet DEF Retire, Gated, StaysOut
<1>4. ASSUME NEW h \in Handlers, NEW m \in Nodes, Demote(h, m)
      PROVE  Gated(n) /\ StaysOut(n)
  BY <1>4, StatusAfterSet DEF Demote, CanDemote, Gated, StaysOut
<1>5. ASSUME NEW h \in Handlers, NEW m \in Nodes, NEW rev, NEW evidence,
             Activate(h, m, rev, evidence)
      PROVE  Gated(n) /\ StaysOut(n)
  BY <1>5, StatusAfterSet DEF Activate, CanActivate, Gated, StaysOut
<1>6. ASSUME NEW h \in Handlers, Update(h) PROVE Gated(n) /\ StaysOut(n)
  <2>1. hd[h].n \in Nodes /\ (hd[h].body.status = "active" => hd[h].to = "active")
    BY <1>6 DEF Update, RegistryInv, Carried
  <2>2. hd[h] \in Handler /\ hd'[h].pc # "write"
    BY <1>6 DEF Update, Goto, RegistryInv, TypeOK, Handler
  <2>3. WritesBack(h, hd[h].n, "write")
    BY <1>6, <2>2 DEF Update, WritesBack
  <2>4. node'[n].status = IF n = hd[h].n THEN hd[h].body.status ELSE node[n].status
    BY <1>6, <2>1 DEF Update, RegistryInv, TypeOK
  <2>. QED
    BY <2>1, <2>3, <2>4 DEF Gated, StaysOut
<1>7. ASSUME NEW h \in Handlers, SetEntryIP(h) PROVE Gated(n) /\ StaysOut(n)
  <2>1. hd[h].n \in Nodes
    BY <1>7 DEF SetEntryIP, RegistryInv, Carried
  <2>2. [node[hd[h].n] EXCEPT !.ip = hd[h].to].status = node[hd[h].n].status
    BY <2>1 DEF RegistryInv, TypeOK, Body, NoNode
  <2>. QED
    BY <1>7, <1>a, <2>1, <2>2 DEF SetEntryIP, RegistryInv, TypeOK
<1>8. ASSUME NEW h \in Handlers, SetStatusIfChanged(h) PROVE Gated(n) /\ StaysOut(n)
  <2>1. hd[h].n \in Nodes /\ hd[h].to # "active"
    BY <1>8 DEF SetStatusIfChanged, RegistryInv, Carried
  <2>2. hd[h] \in Handler /\ hd'[h].pc # "set"
    <3>1. hd[h] \in Handler /\ hd \in [Handlers -> Handler]
      BY DEF RegistryInv, TypeOK
    <3>2. /\ Idle.pc # "set"
          /\ Continue(h).pc # "set"
          /\ [hd[h] EXCEPT !.pc = "record"].pc # "set"
      BY <3>1 DEF Idle, Continue, Handler
    <3>3. \/ hd'[h] = Idle
          \/ hd'[h] = Continue(h)
          \/ hd'[h] = [hd[h] EXCEPT !.pc = "record"]
      BY <1>8, <3>1 DEF SetStatusIfChanged, NextNode, Goto
    <3>. QED
      BY <3>1, <3>2, <3>3
  <2>3. WritesBack(h, hd[h].n, "set")
    BY <1>8, <2>2 DEF SetStatusIfChanged, WritesBack
  <2>4. node'[n].status = IF n = hd[h].n THEN hd[h].to ELSE node[n].status
    BY <1>8, <2>1, StatusAfterSet DEF SetStatusIfChanged
  <2>. QED
    BY <2>1, <2>3, <2>4 DEF Gated, StaysOut
<1>9. CASE \E h \in Handlers : Request(h)
  <2>1. ASSUME NEW h \in Handlers, NEW m \in Nodes,
               \/ \E b \in [status : Sent, ip : Addresses, wide : BOOLEAN] : UpdateGet(h, m, b)
               \/ \E ip \in Addresses : RotateGet(h, m, ip)
        PROVE  UNCHANGED node
    BY <2>1 DEF UpdateGet, RotateGet
  <2>. QED
    <3>1. PICK h \in Handlers, m \in Nodes :
            \/ \E b \in [status : Sent, ip : Addresses, wide : BOOLEAN] :
                 Register(h, m, b) \/ UpdateGet(h, m, b)
            \/ \E ip \in Addresses : RotateGet(h, m, ip)
            \/ Retire(h, m)
            \/ Demote(h, m)
            \/ \E rev \in 0..eligible, evidence \in BOOLEAN : Activate(h, m, rev, evidence)
      BY <1>9 DEF Request
    <3>. QED
      BY <3>1, <1>1, <1>2, <1>3, <1>4, <1>5, <2>1
<1>10. CASE \E h \in Handlers : HandlerStep(h)
  <2>1. ASSUME NEW h \in Handlers, ApplyVerdict(h) \/ RecordRotation(h) \/ EnqueueNode(h)
        PROVE  UNCHANGED node
    BY <2>1 DEF ApplyVerdict, RecordRotation, EnqueueNode
  <2>. QED
    BY <1>10, <1>1, <1>6, <1>7, <1>8, <2>1 DEF HandlerStep
<1>11. ASSUME \/ UNCHANGED vars
              \/ ChangeEligible
              \/ \E h \in Handlers :
                   \/ \E batch \in SUBSET (Nodes \X Verdicts) : Ingest(h, batch)
                   \/ RecordFails(h) \/ EnqueueFails(h) \/ Crash(h)
       PROVE  UNCHANGED node
  BY <1>11 DEF vars, ChangeEligible, Ingest, RecordFails, EnqueueFails, Crash
<1>. QED
  BY <1>1, <1>9, <1>10, <1>11 DEF Next

\* However requests interleave and fail, a node starts to serve only through the
\* checks of activate, or by a PATCH that had read it while it served: Register, the
\* verdicts, Demote, Retire and Rotate never make it serve.
THEOREM OnlyTheGateActivates == Spec => ActivationIsGated
<1>1. RegistryInv /\ [Next]_vars => \A n \in Nodes : Gated(n)
  BY StatusSteps
<1>2. RegistryInv /\ [Next]_vars => [\A n \in Nodes : Gated(n)]_vars
  BY <1>1
<1>. QED
  BY <1>2, InvariantInitially, InvariantKept, PTL DEF Spec, ActivationIsGated, Gated

\* A node that is draining or retired stays so, whatever races with the operator,
\* unless a PATCH or a verdict that read the node earlier writes it back.
THEOREM OperatorDecisionStays == Spec => DecommissionedStays
<1>1. RegistryInv /\ [Next]_vars => \A n \in Nodes : StaysOut(n)
  BY StatusSteps
<1>2. RegistryInv /\ [Next]_vars => [\A n \in Nodes : StaysOut(n)]_vars
  BY <1>1
<1>. QED
  BY <1>2, InvariantInitially, InvariantKept, PTL DEF Spec, DecommissionedStays, StaysOut

----------------------------------------------------------------------------
(* Rebuild requests.                                                       *)

\* With the handlers in states f, one is on its way to ask for a rebuild of n.
OnItsWay(f, n) == \E h \in Handlers : f[h].n = n /\ f[h].pc \in {"record", "enqueue"}

\* A step of h loses the request for n only if it was h's.
LEMMA OnlyOwnLost ==
    ASSUME RegistryInv, NEW h \in Handlers, NEW r, hd' = [hd EXCEPT ![h] = r],
           NEW n, OnItsWay(hd, n),
           hd[h].n = n /\ hd[h].pc \in {"record", "enqueue"}
              => r.n = n /\ r.pc \in {"record", "enqueue"}
    PROVE  OnItsWay(hd', n)
  BY DEF RegistryInv, TypeOK, OnItsWay

\* Every step keeps a request on its way for every node that is owed one.
LEMMA QueuedKept ==
    ASSUME RegistryInv, ChangeIsQueued, [Next]_vars
    PROVE  ChangeIsQueued'
<1>. USE RegistryConstants
<1>0. SUFFICES ASSUME failures' = 0, NEW n \in owed' PROVE OnItsWay(hd', n)
  BY DEF ChangeIsQueued, OnItsWay
<1>t. hd \in [Handlers -> Handler] /\ failures \in Nat
  BY DEF RegistryInv, TypeOK
<1>z. ~ \E f : Failing(f)
  BY <1>0, <1>t DEF Failing
<1>a. ASSUME failures = 0, n \in owed PROVE OnItsWay(hd, n)
  BY <1>a DEF ChangeIsQueued, OnItsWay
<1>b. ASSUME UNCHANGED <<owed, hd, failures>> PROVE OnItsWay(hd', n)
  BY <1>0, <1>a, <1>b
\* A request that starts in an idle handler without a change.
<1>c. ASSUME NEW h \in Handlers, NEW r, hd[h] = Idle, hd' = [hd EXCEPT ![h] = r],
             UNCHANGED <<owed, failures>>
      PROVE  OnItsWay(hd', n)
  <2>1. hd[h].pc \notin {"record", "enqueue"}
    BY <1>c DEF Idle
  <2>2. OnItsWay(hd, n)
    BY <1>0, <1>a, <1>c
  <2>. QED
    BY <1>c, <2>1, <2>2, OnlyOwnLost
\* A change of m: the handler that made it goes on to the history or the queue.
<1>d. ASSUME NEW h \in Handlers, NEW r, NEW m, hd' = [hd EXCEPT ![h] = r], Owe(m),
             hd[h].pc \notin {"record", "enqueue"},
             r.n = m, r.pc \in {"record", "enqueue"}, UNCHANGED failures
      PROVE  OnItsWay(hd', n)
  <2>1. CASE n = m
    BY <1>d, <1>t, <2>1 DEF OnItsWay
  <2>2. CASE n # m
    <3>1. OnItsWay(hd, n)
      BY <1>0, <1>a, <1>d, <2>2 DEF Owe
    <3>. QED
      BY <1>d, <3>1, OnlyOwnLost
  <2>. QED
    BY <2>1, <2>2
<1>e. ASSUME NEW h \in Handlers, NEW op, NEW m, Start(h, op, m, "record"), Owe(m),
             UNCHANGED failures
      PROVE  OnItsWay(hd', n)
  <2> DEFINE r == [Idle EXCEPT !.op = op, !.n = m, !.pc = "record"]
  <2>1. hd[h].pc \notin {"record", "enqueue"} /\ r.n = m /\ r.pc = "record"
    BY <1>e DEF Start, Idle
  <2>2. hd' = [hd EXCEPT ![h] = r]
    BY <1>e DEF Start
  <2>. HIDE DEF r
  <2>. QED
    BY <1>e, <2>1, <2>2, <1>d
<1>f. ASSUME NEW h \in Handlers, NEW pc \in {"record", "enqueue"}, Goto(h, pc), Owe(hd[h].n),
             hd[h].pc \notin {"record", "enqueue"}, UNCHANGED failures
      PROVE  OnItsWay(hd', n)
  <2> DEFINE r == [hd[h] EXCEPT !.pc = pc]
  <2>1. r.n = hd[h].n /\ r.pc = pc
    BY <1>t DEF Handler
  <2>2. hd' = [hd EXCEPT ![h] = r]
    BY <1>f DEF Goto
  <2>. HIDE DEF r
  <2>. QED
    BY <1>f, <2>1, <2>2, <1>d
\* A step of a handler that is not on its way, without a change.
<1>g. ASSUME NEW h \in Handlers, NEW r, hd[h].pc \notin {"record", "enqueue"},
             hd' = [hd EXCEPT ![h] = r], UNCHANGED <<owed, failures>>
      PROVE  OnItsWay(hd', n)
  <2>1. OnItsWay(hd, n)
    BY <1>0, <1>a, <1>g
  <2>. QED
    BY <1>g, <2>1, OnlyOwnLost
<1>1. CASE UNCHANGED vars \/ ChangeEligible
  BY <1>1, <1>b DEF vars, ChangeEligible
<1>2. CASE \E h \in Handlers : Request(h)
  <2>1. PICK h \in Handlers, m \in Nodes :
          \/ \E b \in [status : Sent, ip : Addresses, wide : BOOLEAN] :
               Register(h, m, b) \/ UpdateGet(h, m, b)
          \/ \E ip \in Addresses : RotateGet(h, m, ip)
          \/ Retire(h, m)
          \/ Demote(h, m)
          \/ \E rev \in 0..eligible, evidence \in BOOLEAN : Activate(h, m, rev, evidence)
    BY <1>2 DEF Request
  <2>2. CASE \E b \in [status : Sent, ip : Addresses, wide : BOOLEAN] : Register(h, m, b)
    BY <2>2, <1>b DEF Register
  <2>3. CASE \E b \in [status : Sent, ip : Addresses, wide : BOOLEAN] : UpdateGet(h, m, b)
    BY <2>3, <1>c DEF UpdateGet
  <2>4. CASE \E ip \in Addresses : RotateGet(h, m, ip)
    BY <2>4, <1>c DEF RotateGet
  <2>5. CASE Retire(h, m)
    BY <2>5, <1>e DEF Retire
  <2>6. CASE Demote(h, m)
    BY <2>6, <1>e DEF Demote
  <2>7. CASE \E rev \in 0..eligible, evidence \in BOOLEAN : Activate(h, m, rev, evidence)
    BY <2>7, <1>e DEF Activate
  <2>. QED
    BY <2>1, <2>2, <2>3, <2>4, <2>5, <2>6, <2>7
<1>3. ASSUME NEW h \in Handlers, NEW batch, Ingest(h, batch) PROVE OnItsWay(hd', n)
  <2>1. CASE Worst(batch) = {}
    BY <1>3, <2>1, <1>b DEF Ingest
  <2>2. CASE Worst(batch) # {}
    BY <1>3, <2>2, <1>c DEF Ingest
  <2>. QED
    BY <2>1, <2>2
<1>4. ASSUME NEW h \in Handlers, Update(h) PROVE OnItsWay(hd', n)
  BY <1>4, <1>f DEF Update
<1>5. ASSUME NEW h \in Handlers, SetEntryIP(h) PROVE OnItsWay(hd', n)
  BY <1>5, <1>f DEF SetEntryIP
<1>6. ASSUME NEW h \in Handlers, ApplyVerdict(h) PROVE OnItsWay(hd', n)
  <2>1. PICK r : hd' = [hd EXCEPT ![h] = r]
    BY <1>6 DEF ApplyVerdict
  <2>. QED
    BY <1>6, <2>1, <1>g DEF ApplyVerdict
<1>7. ASSUME NEW h \in Handlers, SetStatusIfChanged(h) PROVE OnItsWay(hd', n)
  <2>1. CASE NextNode(h) /\ UNCHANGED owed
    BY <1>7, <2>1, <1>g DEF SetStatusIfChanged, NextNode
  <2>2. CASE Goto(h, "record") /\ Owe(hd[h].n)
    BY <1>7, <2>2, <1>f DEF SetStatusIfChanged
  <2>. QED
    BY <1>7, <2>1, <2>2 DEF SetStatusIfChanged
<1>8. ASSUME NEW h \in Handlers, RecordRotation(h) PROVE OnItsWay(hd', n)
  <2> DEFINE r == [hd[h] EXCEPT !.pc = "enqueue"]
  <2>1. r.n = hd[h].n /\ r.pc = "enqueue"
    BY <1>t DEF Handler
  <2>2. hd' = [hd EXCEPT ![h] = r]
    BY <1>8 DEF RecordRotation, Goto
  <2>3. OnItsWay(hd, n)
    BY <1>0, <1>8, <1>a DEF RecordRotation
  <2>. HIDE DEF r
  <2>. QED
    BY <2>1, <2>2, <2>3, OnlyOwnLost
<1>9. ASSUME NEW h \in Handlers, EnqueueNode(h) PROVE OnItsWay(hd', n)
  <2>1. n # hd[h].n /\ OnItsWay(hd, n)
    BY <1>0, <1>9, <1>a DEF EnqueueNode
  <2>2. PICK r : hd' = [hd EXCEPT ![h] = r]
    BY <1>9 DEF EnqueueNode, NextNode
  <2>. QED
    BY <2>1, <2>2, OnlyOwnLost
<1>10. ASSUME NEW h \in Handlers PROVE ~(RecordFails(h) \/ EnqueueFails(h) \/ Crash(h))
  BY <1>z DEF RecordFails, EnqueueFails, Crash
<1>11. CASE \E h \in Handlers : HandlerStep(h)
  BY <1>11, <1>4, <1>5, <1>6, <1>7, <1>8, <1>9 DEF HandlerStep
<1>. QED
  BY <1>1, <1>2, <1>3, <1>10, <1>11 DEF Next

\* As long as nothing has failed, a node that was changed and for which no rebuild
\* has been asked since has a request on its way to ask for one: every path of every
\* handler from a change leads to enqueueNode.
THEOREM EveryChangeIsQueued == Spec => []ChangeIsQueued
<1>1. Init => ChangeIsQueued
  BY DEF Init, ChangeIsQueued
<1>. QED
  BY <1>1, InvariantInitially, InvariantKept, QueuedKept, PTL DEF Spec

----------------------------------------------------------------------------
(* reconcile_node.sh (PairActivation), while nobody else activates nodes.   *)

\* No request from elsewhere makes a node serve.  reconcile_node.sh is the repository's
\* only client of activate; the other way is a PATCH that read an active node and puts
\* that status back (ActivationIsGated), which the orchestrator sends after a rotation.
\* An entry that another client activates between a run's two demotions would lose its
\* exit by the second.
OnlyScriptsActivate ==
    \A n \in Nodes : node[n].status # "active" /\ node'[n].status = "active" => UNCHANGED hd

\* A request that brings a node into service or takes it out moves its handler.
LEMMA RequestsMoveHandlers ==
    ASSUME RegistryInv, [Next]_vars, NEW n \in Nodes, UNCHANGED hd
    PROVE  node'[n].status = "active" <=> node[n].status = "active"
<1> DEFINE Kept == node'[n].status = "active" <=> node[n].status = "active"
<1>a. ASSUME node'[n].status = node[n].status PROVE Kept
  BY <1>a
<1>b. ASSUME NEW h \in Handlers, NEW op, NEW m, Start(h, op, m, "record") PROVE hd' # hd
  <2>1. PICK r : r = [Idle EXCEPT !.op = op, !.n = m, !.pc = "record"]
    OBVIOUS
  <2>2. r.pc = "record" /\ Idle.pc = "idle"
    BY <2>1 DEF Idle
  <2>3. hd[h] = Idle /\ hd'[h] = r
    BY <1>b, <2>1 DEF Start, RegistryInv, TypeOK
  <2>. QED
    BY <2>2, <2>3
<1>c. ASSUME NEW h \in Handlers, NEW pc, Goto(h, pc), hd[h].pc # pc PROVE hd' # hd
  <2>1. hd[h] \in Handler
    BY DEF RegistryInv, TypeOK
  <2>2. PICK r : r = [hd[h] EXCEPT !.pc = pc]
    OBVIOUS
  <2>3. r.pc = pc
    BY <2>1, <2>2 DEF Handler
  <2>4. hd'[h] = r
    BY <1>c, <2>2 DEF Goto, RegistryInv, TypeOK
  <2>. QED
    BY <1>c, <2>3, <2>4
<1>1. ASSUME NEW h \in Handlers, NEW m \in Nodes,
             NEW b \in [status : Sent, ip : Addresses, wide : BOOLEAN], Register(h, m, b)
      PROVE  Kept
  <2>1. node'[n].status = IF n = m THEN b.status ELSE node[n].status
    BY <1>1 DEF Register, RegistryInv, TypeOK
  <2>2. node[m].status = "none" /\ b.status # "active"
    BY <1>1 DEF Register, Registered
  <2>. QED
    BY <2>1, <2>2
<1>2. ASSUME NEW h \in Handlers, NEW m \in Nodes
      PROVE  ~Retire(h, m) /\ ~Demote(h, m) /\ \A rev, evidence : ~Activate(h, m, rev, evidence)
  BY <1>b DEF Retire, Demote, Activate
<1>4. ASSUME NEW h \in Handlers PROVE ~Update(h)
  <2>1. ASSUME Update(h) PROVE \E pc \in {"record", "enqueue"} : Goto(h, pc) /\ hd[h].pc = "write"
    BY <2>1 DEF Update
  <2>. QED
    BY <1>c, <2>1
<1>5. ASSUME NEW h \in Handlers, SetEntryIP(h) PROVE Kept
  <2>1. hd[h].n \in Nodes
    BY <1>5 DEF SetEntryIP, RegistryInv, Carried
  <2>2. [node[hd[h].n] EXCEPT !.ip = hd[h].to].status = node[hd[h].n].status
    BY <2>1 DEF RegistryInv, TypeOK, Body, NoNode
  <2>. QED
    BY <1>5, <1>a, <2>1, <2>2 DEF SetEntryIP, RegistryInv, TypeOK
<1>6. ASSUME NEW h \in Handlers, SetStatusIfChanged(h) PROVE Kept
  <2>1. hd[h].n \in Nodes /\ hd[h].to # "active" /\ hd[h].pc = "set"
    BY <1>6 DEF SetStatusIfChanged, RegistryInv, Carried
  <2>2. node'[n].status = IF n = hd[h].n THEN hd[h].to ELSE node[n].status
    BY <1>6, <2>1, StatusAfterSet DEF SetStatusIfChanged
  <2>3. node[hd[h].n].status = hd[h].to \/ Goto(h, "record")
    BY <1>6 DEF SetStatusIfChanged
  <2>. QED
    BY <1>c, <2>1, <2>2, <2>3
<1>7. ASSUME \/ UNCHANGED vars \/ ChangeEligible
             \/ \E h \in Handlers :
                  \/ \E m \in Nodes :
                       \/ \E b \in [status : Sent, ip : Addresses, wide : BOOLEAN] : UpdateGet(h, m, b)
                       \/ \E ip \in Addresses : RotateGet(h, m, ip)
                  \/ \E batch \in SUBSET (Nodes \X Verdicts) : Ingest(h, batch)
                  \/ ApplyVerdict(h) \/ RecordRotation(h) \/ EnqueueNode(h)
                  \/ RecordFails(h) \/ EnqueueFails(h) \/ Crash(h)
      PROVE  Kept
  <2>1. UNCHANGED node
    BY <1>7 DEF vars, ChangeEligible, UpdateGet, RotateGet, Ingest, ApplyVerdict, RecordRotation,
                EnqueueNode, RecordFails, EnqueueFails, Crash
  <2>. QED
    BY <1>a, <2>1
<1>8. ASSUME NEW h \in Handlers, Request(h) PROVE Kept
  <2>1. PICK m \in Nodes :
            \/ \E b \in [status : Sent, ip : Addresses, wide : BOOLEAN] :
                 Register(h, m, b) \/ UpdateGet(h, m, b)
            \/ \E ip \in Addresses : RotateGet(h, m, ip)
            \/ Retire(h, m) \/ Demote(h, m)
            \/ \E rev \in 0..eligible, evidence \in BOOLEAN : Activate(h, m, rev, evidence)
    BY <1>8 DEF Request
  <2>. HIDE DEF Kept
  <2>. QED
    BY <1>1, <1>2, <1>7, <2>1
<1>. HIDE DEF Kept
<1>9. Kept
  BY <1>4, <1>5, <1>6, <1>7, <1>8 DEF Next, HandlerStep
<1>. QED
  BY <1>9 DEF Kept

LEMMA RequestsStartNone ==
    ASSUME RegistryInv, [Next]_vars, OnlyScriptsActivate, NEW n \in Nodes, node'[n].status = "active"
    PROVE  node[n].status = "active"
  BY RequestsMoveHandlers DEF OnlyScriptsActivate

----------------------------------------------------------------------------
(* The invariant of the scripts.                                           *)

Steps == {"idle", "demoteEntry", "demoteExit", "verifyExit", "activateExit", "arm", "fetchR1",
          "apply", "fetchR2", "probe", "activateEntry", "disarm", "rollback"}

Run == [pc : Steps, x : Exits \cup {None}, rev : (0..MaxRevision) \cup {None}, armed : BOOLEAN]

\* What reconciler r in state q knows when the registry's table is t, the locks are l and
\* the users on the hosts are i: the lock of its pair is its own; nobody has activated
\* the entry since its demotion; if a script was the last to write the entry's host, then
\* it was this one, with the revision it has in hand.
Knows(r, q, t, l, i) ==
    /\ q.pc # "idle" => q.x \in Exits /\ l[EntryOf[q.x]] = r
    /\ q.pc = "demoteExit" => t[EntryOf[q.x]].status # "active"
    /\ q.pc \in {"fetchR2", "probe", "activateEntry"} /\ i[EntryOf[q.x]].by = "script"
         => i[EntryOf[q.x]].rev = q.rev

ScriptInv ==
    /\ rc \in [Reconcilers -> Run]
    /\ lock \in [Entries -> Reconcilers \cup {None}]
    /\ installed = [n \in Entries |-> installed[n]]
    /\ \A r \in Reconcilers : Knows(r, rc[r], node, lock, installed)

\* The inductive invariant of PairSpec.
PairInv == RegistryInv /\ ScriptInv

\* A step outside the pair of e: it writes no host of e and does not activate e.
Leaves(e) ==
    /\ lock'[e] = lock[e]
    /\ installed'[e] = installed[e]
    /\ node'[e].status = "active" => node[e].status = "active"

LEMMA PairOf ==
    ASSUME ScriptInv, NEW r \in Reconcilers, ~At(r, "idle")
    PROVE  /\ rc[r] \in Run /\ rc[r].x \in Exits /\ rc[r].x \in Nodes /\ rc[r].x \notin Entries
           /\ Entry(r) \in Entries /\ Entry(r) \in Nodes /\ Entry(r) \notin Exits
           /\ lock[Entry(r)] = r
  BY RegistryConstants DEF ScriptInv, Knows, At, Entry, Entries

\* Reconciler r goes on to state q, and the other pairs are left alone.
LEMMA RunMoves ==
    ASSUME ScriptInv, NEW r \in Reconcilers, NEW q \in Run, rc' = [rc EXCEPT ![r] = q],
           lock' \in [Entries -> Reconcilers \cup {None}],
           installed' = [n \in Entries |-> installed'[n]],
           Knows(r, q, node', lock', installed'),
           \A k \in Reconcilers : k # r /\ ~At(k, "idle") => Leaves(Entry(k))
    PROVE  ScriptInv'
<1>1. rc' \in [Reconcilers -> Run] /\ rc'[r] = q /\ \A k \in Reconcilers : k # r => rc'[k] = rc[k]
  BY DEF ScriptInv
<1>2. ASSUME NEW k \in Reconcilers, k # r PROVE Knows(k, rc[k], node', lock', installed')
  <2>1. Knows(k, rc[k], node, lock, installed)
    BY DEF ScriptInv
  <2>2. CASE rc[k].pc = "idle"
    BY <2>2 DEF Knows
  <2>3. CASE rc[k].pc # "idle"
    <3>1. Leaves(EntryOf[rc[k].x])
      BY <1>2, <2>3 DEF At, Entry
    <3>. QED
      BY <2>1, <3>1 DEF Knows, Leaves
  <2>. QED
    BY <2>2, <2>3
<1>3. \A k \in Reconcilers : Knows(k, rc'[k], node', lock', installed')
  BY <1>1, <1>2
<1>. QED
  BY <1>1, <1>3 DEF ScriptInv

\* A step of r changes the hosts and the serving entries of its own pair only.
Elsewhere(r) ==
    /\ installed' = [n \in Entries |-> installed'[n]]
    /\ \A e \in Entries : e # Entry(r) =>
         installed'[e] = installed[e] /\ (node'[e].status = "active" => node[e].status = "active")

\* Two runs are about two pairs.
LEMMA PairsDiffer ==
    ASSUME ScriptInv, NEW r \in Reconcilers, ~At(r, "idle"), NEW k \in Reconcilers, ~At(k, "idle"), k # r
    PROVE  Entry(k) # Entry(r)
  BY PairOf

\* r goes on to q inside its run, keeping the lock.
LEMMA RunGoesOn ==
    ASSUME ScriptInv, NEW r \in Reconcilers, ~At(r, "idle"), NEW q \in Run, rc' = [rc EXCEPT ![r] = q],
           UNCHANGED lock, Elsewhere(r), q.x = rc[r].x,
           q.pc = "demoteExit" => node'[Entry(r)].status # "active",
           q.pc \in {"fetchR2", "probe", "activateEntry"} /\ installed'[Entry(r)].by = "script"
             => installed'[Entry(r)].rev = q.rev
    PROVE  ScriptInv'
<1>1. rc[r].x \in Exits /\ lock[Entry(r)] = r
  BY PairOf
<1>2. Knows(r, q, node', lock', installed')
  BY <1>1 DEF Knows, Entry
<1>3. ASSUME NEW k \in Reconcilers, k # r, ~At(k, "idle") PROVE Leaves(Entry(k))
  BY <1>3, PairsDiffer, PairOf DEF Leaves, Elsewhere
<1>4. /\ lock' \in [Entries -> Reconcilers \cup {None}]
      /\ installed' = [n \in Entries |-> installed'[n]]
  BY DEF ScriptInv, Elsewhere
<1>. QED
  BY <1>2, <1>3, <1>4, RunMoves

\* r ends, with q left behind, and gives its lock back.
LEMMA RunEnds ==
    ASSUME ScriptInv, NEW r \in Reconcilers, ~At(r, "idle"), NEW q \in Run, rc' = [rc EXCEPT ![r] = q],
           lock' = [lock EXCEPT ![Entry(r)] = None], Elsewhere(r), q.pc = "idle"
    PROVE  ScriptInv'
<1>1. Knows(r, q, node', lock', installed')
  BY DEF Knows
<1>2. ASSUME NEW k \in Reconcilers, k # r, ~At(k, "idle") PROVE Leaves(Entry(k))
  <2>1. Entry(k) \in Entries /\ Entry(k) # Entry(r)
    BY <1>2, PairsDiffer, PairOf
  <2>. QED
    BY <2>1 DEF Leaves, Elsewhere, ScriptInv
<1>3. /\ lock' \in [Entries -> Reconcilers \cup {None}]
      /\ installed' = [n \in Entries |-> installed'[n]]
  BY PairOf DEF ScriptInv, Elsewhere
<1>. QED
  BY <1>1, <1>2, <1>3, RunMoves
\* The states a run goes to are states of a run.
LEMMA RunStates ==
    ASSUME ScriptInv, NEW r \in Reconcilers
    PROVE  /\ \A pc \in Steps : \E q \in Run : /\ q = [rc[r] EXCEPT !.pc = pc]
                                               /\ q.pc = pc /\ q.x = rc[r].x /\ q.rev = rc[r].rev
           /\ \E q \in Run : q = [rc[r] EXCEPT !.pc = "idle", !.armed = FALSE] /\ q.pc = "idle"
<1>1. rc[r] \in Run
  BY DEF ScriptInv
<1>2. ASSUME NEW pc \in Steps
      PROVE  \E q \in Run : /\ q = [rc[r] EXCEPT !.pc = pc]
                            /\ q.pc = pc /\ q.x = rc[r].x /\ q.rev = rc[r].rev
  <2>1. PICK q : q = [rc[r] EXCEPT !.pc = pc]
    OBVIOUS
  <2>2. q \in Run /\ q.pc = pc /\ q.x = rc[r].x /\ q.rev = rc[r].rev
    BY <1>1, <2>1 DEF Run
  <2>. QED
    BY <2>1, <2>2
<1>3. \E q \in Run : q = [rc[r] EXCEPT !.pc = "idle", !.armed = FALSE] /\ q.pc = "idle"
  <2>1. PICK q : q = [rc[r] EXCEPT !.pc = "idle", !.armed = FALSE]
    OBVIOUS
  <2>2. q \in Run /\ q.pc = "idle"
    BY <1>1, <2>1 DEF Run, Steps
  <2>. QED
    BY <2>1, <2>2
<1>. QED
  BY <1>2, <1>3

LEMMA ExitKeeps ==
    ASSUME ScriptInv, NEW r \in Reconcilers, ~At(r, "idle"), Elsewhere(r), Exit(r)
    PROVE  ScriptInv'
<1>1. PICK q \in Run : q = [rc[r] EXCEPT !.pc = "idle", !.armed = FALSE] /\ q.pc = "idle"
  BY RunStates
<1>. QED
  BY <1>1, RunEnds DEF Exit

LEMMA ProceedKeeps ==
    ASSUME ScriptInv, NEW r \in Reconcilers, ~At(r, "idle"), Elsewhere(r), NEW pc \in Steps, Proceed(r, pc),
           pc = "demoteExit" => node'[Entry(r)].status # "active",
           pc \in {"fetchR2", "probe", "activateEntry"} /\ installed'[Entry(r)].by = "script"
             => installed'[Entry(r)].rev = rc[r].rev
    PROVE  ScriptInv'
<1>1. PICK q \in Run : /\ q = [rc[r] EXCEPT !.pc = pc]
                       /\ q.pc = pc /\ q.x = rc[r].x /\ q.rev = rc[r].rev
  BY RunStates
<1>2. rc' = [rc EXCEPT ![r] = q] /\ UNCHANGED lock
  BY <1>1 DEF Proceed
<1>. HIDE DEF Proceed
<1>. QED
  BY <1>1, <1>2, RunGoesOn

LEMMA AbortKeeps ==
    ASSUME ScriptInv, NEW r \in Reconcilers, ~At(r, "idle"), Elsewhere(r), Abort(r)
    PROVE  ScriptInv'
<1>1. CASE Exit(r)
  BY <1>1, ExitKeeps
<1>2. CASE Proceed(r, "rollback")
  BY <1>2, ProceedKeeps DEF Steps
<1>. QED
  BY <1>1, <1>2 DEF Abort, Proceed

----------------------------------------------------------------------------
(* What a script's call does to the registry.                              *)

LEMMA MishapCounts ==
    ASSUME RegistryInv, NEW f, Mishap(f) \/ UNCHANGED failures
    PROVE  failures' \in 0..MaxFailures
  BY RegistryConstants DEF RegistryInv, TypeOK, Mishap

LEMMA TableUnchanged ==
    ASSUME RegistryInv, UNCHANGED <<node, eligible, owed, hd>>, failures' \in 0..MaxFailures
    PROVE  RegistryInv'
  BY DEF RegistryInv, TypeOK, Registered

LEMMA TableChanges ==
    ASSUME RegistryInv, NEW n \in Nodes, Registered(n), NEW s \in Statuses, node' = NodeStatusSet(n, s),
           UNCHANGED <<eligible, owed, hd>>, failures' \in 0..MaxFailures
    PROVE  RegistryInv'
<1>1. node' \in [Nodes -> Body \cup {NoNode}] /\ KeepsNodes
  BY SetStatusChangesRow DEF SetStatus, NodeStatusSet
<1>2. \A h \in Handlers : hd[h] \in Handler /\ Carried(hd[h], node)
  BY DEF RegistryInv, TypeOK
<1>3. \A h \in Handlers : \A a \in hd[h].todo : a[1] \in Nodes
  BY <1>2 DEF Handler
<1>4. \A h \in Handlers : Carried(hd[h], node')
  BY <1>1, <1>2, <1>3 DEF Carried, KeepsNodes, Registered, Stays
<1>5. TypeOK'
  BY <1>1 DEF RegistryInv, TypeOK, KeepsNodes, Registered, Stays
<1>. QED
  BY <1>4, <1>5 DEF RegistryInv

\* A call that sets the status of a node of r's own pair.
LEMMA CallKeeps ==
    ASSUME PairInv, NEW r \in Reconcilers, ~At(r, "idle"), NEW allowed, NEW n \in Nodes,
           NEW s \in Statuses, NEW pc \in Steps,
           Call(r, allowed, NodeStatusSet(n, s), pc), UNCHANGED <<eligible, owed, hd, installed>>,
           allowed => Registered(n), n = Entry(r) \/ n \notin Entries,
           pc \notin {"fetchR2", "probe", "activateEntry"},
           pc = "demoteExit" => n = Entry(r) /\ s # "active"
    PROVE  PairInv'
<1>1. RegistryInv /\ ScriptInv
  BY DEF PairInv
<1>3. (node' = NodeStatusSet(n, s) /\ Registered(n)) \/ UNCHANGED node
  BY DEF Call
<1>4. failures' \in 0..MaxFailures
  BY <1>1, MishapCounts DEF Call
<1>5. RegistryInv'
  BY <1>1, <1>3, <1>4, TableChanges, TableUnchanged
<1>6. node' = NodeStatusSet(n, s) => \A m \in Nodes : node'[m].status = IF m = n THEN s ELSE node[m].status
  BY <1>1, StatusAfterSet DEF SetStatus, NodeStatusSet
<1>7. Elsewhere(r)
  BY <1>1, <1>3, <1>6 DEF Elsewhere, ScriptInv, Entries
<1>8. CASE Abort(r)
  BY <1>1, <1>5, <1>7, <1>8, AbortKeeps DEF PairInv
<1>9. CASE node' = NodeStatusSet(n, s) /\ Proceed(r, pc)
  <2>1. pc = "demoteExit" => node'[Entry(r)].status # "active"
    BY <1>6, <1>9
  <2>2. ScriptInv'
    BY <1>1, <1>7, <1>9, <2>1, ProceedKeeps
  <2>. QED
    BY <1>5, <2>2 DEF PairInv
<1>. QED
  BY <1>8, <1>9 DEF Call
----------------------------------------------------------------------------
(* The steps of the scripts.                                               *)

\* A step that leaves the registry alone.
LEMMA RegistryAside ==
    ASSUME PairInv, UNCHANGED vars, ScriptInv'
    PROVE  PairInv'
  BY InvariantKept DEF PairInv

LEMMA AcquireLockKeeps ==
    ASSUME PairInv, NEW r \in Reconcilers, NEW x \in Exits, AcquireLock(r, x)
    PROVE  PairInv'
<1>1. ScriptInv /\ EntryOf[x] \in Entries /\ UNCHANGED <<vars, installed>>
  BY RegistryConstants DEF PairInv, AcquireLock, Entries
<1>2. PICK q : q = [NotRunning EXCEPT !.pc = "demoteEntry", !.x = x]
  OBVIOUS
<1>3. q \in Run /\ q.pc = "demoteEntry" /\ q.x = x
  BY <1>2 DEF NotRunning, Run, Steps
<1>4. rc' = [rc EXCEPT ![r] = q] /\ lock' = [lock EXCEPT ![EntryOf[x]] = r] /\ lock[EntryOf[x]] = None
  BY <1>2 DEF AcquireLock
<1>5. lock' \in [Entries -> Reconcilers \cup {None}] /\ lock'[EntryOf[x]] = r
  BY <1>1, <1>4 DEF ScriptInv
<1>6. Knows(r, q, node', lock', installed')
  BY <1>3, <1>5 DEF Knows
<1>7. ASSUME NEW k \in Reconcilers, ~At(k, "idle") PROVE Leaves(Entry(k))
  <2>1. lock[Entry(k)] = k /\ Entry(k) \in Entries
    BY <1>1, <1>7, PairOf
  <2>2. Entry(k) # EntryOf[x]
    BY <1>4, <2>1, PairConstants
  <2>. QED
    BY <1>1, <1>4, <2>1, <2>2 DEF Leaves, ScriptInv, vars
<1>8. installed' = [n \in Entries |-> installed'[n]]
  BY <1>1 DEF ScriptInv
<1>9. ScriptInv'
  BY <1>1, <1>3, <1>4, <1>5, <1>6, <1>7, <1>8, RunMoves
<1>. QED
  BY <1>1, <1>9, RegistryAside

LEMMA CallsKeep ==
    ASSUME PairInv, NEW r \in Reconcilers,
           DemoteEntry(r) \/ DemoteExit(r) \/ ActivateExit(r) \/ ActivateEntry(r)
    PROVE  PairInv'
<1>1. ~At(r, "idle") /\ UNCHANGED <<eligible, owed, hd, installed>>
  BY DEF DemoteEntry, DemoteExit, ActivateExit, ActivateEntry, At
<1>2. /\ rc[r].x \in Nodes /\ rc[r].x \notin Entries /\ Entry(r) \in Nodes
  BY <1>1, PairOf DEF PairInv
<1>3. \A n : CanDemote(n) => Registered(n)
  BY DEF CanDemote
<1>4. \A n, rev, evidence : CanActivate(n, rev, evidence) => Registered(n)
  BY DEF CanActivate, Registered
<1>5. {"demoteExit", "verifyExit", "arm", "disarm"} \subseteq Steps /\ {"provisioning", "active"} \subseteq Statuses
  BY DEF Steps, Statuses
<1>6. CASE DemoteEntry(r)
  BY <1>1, <1>2, <1>3, <1>5, <1>6, CallKeeps DEF DemoteEntry
<1>7. CASE DemoteExit(r)
  BY <1>1, <1>2, <1>3, <1>5, <1>7, CallKeeps DEF DemoteExit
<1>8. CASE ActivateExit(r)
  <2> DEFINE ok == CanActivate(rc[r].x, None, TRUE)
  <2>1. Call(r, ok, NodeStatusSet(rc[r].x, "active"), "arm")
    BY <1>8 DEF ActivateExit
  <2>2. ok => Registered(rc[r].x)
    BY <1>4
  <2> HIDE DEF ok
  <2>. QED
    BY <1>1, <1>2, <1>5, <2>1, <2>2, CallKeeps
<1>9. CASE ActivateEntry(r)
  <2> DEFINE ok == CanActivate(Entry(r), rc[r].rev, FALSE)
  <2>1. Call(r, ok, NodeStatusSet(Entry(r), "active"), "disarm")
    BY <1>9 DEF ActivateEntry
  <2>2. ok => Registered(Entry(r))
    BY <1>4
  <2> HIDE DEF ok
  <2>. QED
    BY <1>1, <1>2, <1>5, <2>1, <2>2, CallKeeps
<1>. QED
  BY <1>6, <1>7, <1>8, <1>9

\* A step that changes neither the registry nor a host happens elsewhere for all.
LEMMA NothingElsewhere ==
    ASSUME ScriptInv, NEW r \in Reconcilers, UNCHANGED <<node, installed>>
    PROVE  Elsewhere(r)
  BY DEF ScriptInv, Elsewhere

LEMMA LocalStepsKeep ==
    ASSUME PairInv, NEW r \in Reconcilers,
           VerifyExit(r) \/ Arm(r) \/ FetchR1(r) \/ FetchR2(r) \/ Probe(r) \/ Disarm(r)
    PROVE  PairInv'
<1>1. ~At(r, "idle") /\ UNCHANGED <<vars, installed>> /\ UNCHANGED node
  BY DEF VerifyExit, Arm, FetchR1, FetchR2, Probe, Disarm, At, vars
<1>2. RegistryInv /\ ScriptInv /\ Elsewhere(r)
  BY <1>1, NothingElsewhere DEF PairInv
<1>3. {"activateExit", "fetchR1", "apply", "probe", "activateEntry"} \subseteq Steps
  BY DEF Steps
<1>4. Knows(r, rc[r], node, lock, installed) /\ rc[r] \in Run
  BY <1>2 DEF ScriptInv
<1>5. ASSUME Abort(r) \/ Exit(r) PROVE ScriptInv'
  BY <1>1, <1>2, <1>5, AbortKeeps, ExitKeeps
<1>6. CASE VerifyExit(r)
  <2>1. Proceed(r, "activateExit") \/ Abort(r)
    BY <1>6 DEF VerifyExit
  <2>2. ScriptInv'
    BY <1>1, <1>2, <1>3, <1>5, <2>1, ProceedKeeps
  <2>. QED
    BY <1>1, <2>2, RegistryAside
<1>7. CASE Arm(r)
  <2>1. PICK q : q = [rc[r] EXCEPT !.pc = "fetchR1", !.armed = TRUE]
    OBVIOUS
  <2>2. q \in Run /\ q.pc = "fetchR1" /\ q.x = rc[r].x
    BY <1>3, <1>4, <2>1 DEF Run
  <2>3. rc' = [rc EXCEPT ![r] = q] /\ UNCHANGED lock
    BY <1>7, <2>1 DEF Arm
  <2>. QED
    BY <1>1, <1>2, <2>2, <2>3, RunGoesOn, RegistryAside
<1>8. CASE FetchR1(r)
  <2>1. CASE Abort(r)
    BY <1>1, <1>5, <2>1, RegistryAside
  <2>2. CASE ~Abort(r)
    <3>1. PICK q : q = [rc[r] EXCEPT !.pc = "apply", !.rev = eligible]
      OBVIOUS
    <3>2. eligible \in 0..MaxRevision
      BY <1>2 DEF RegistryInv, TypeOK
    <3>3. q \in Run /\ q.pc = "apply" /\ q.x = rc[r].x
      BY <1>3, <1>4, <3>1, <3>2 DEF Run
    <3>4. rc' = [rc EXCEPT ![r] = q] /\ UNCHANGED lock
      BY <1>8, <2>2, <3>1 DEF FetchR1
    <3>. QED
      BY <1>1, <1>2, <3>3, <3>4, RunGoesOn, RegistryAside
  <2>. QED
    BY <2>1, <2>2
<1>9. ASSUME At(r, "fetchR2") \/ At(r, "probe"), NEW pc \in {"probe", "activateEntry"}, Proceed(r, pc)
      PROVE  ScriptInv'
  <2>1. installed'[Entry(r)].by = "script" => installed'[Entry(r)].rev = rc[r].rev
    BY <1>1, <1>4, <1>9 DEF Knows, At, Entry
  <2>. QED
    BY <1>1, <1>2, <1>3, <1>9, <2>1, ProceedKeeps
<1>10. CASE FetchR2(r)
  <2>1. At(r, "fetchR2") /\ (Proceed(r, "probe") \/ Abort(r))
    BY <1>10 DEF FetchR2
  <2>2. ScriptInv'
    BY <1>5, <1>9, <2>1
  <2>. QED
    BY <1>1, <2>2, RegistryAside
<1>11. CASE Probe(r)
  <2>1. At(r, "probe") /\ (Proceed(r, "activateEntry") \/ Abort(r))
    BY <1>11 DEF Probe
  <2>2. ScriptInv'
    BY <1>5, <1>9, <2>1
  <2>. QED
    BY <1>1, <2>2, RegistryAside
<1>12. CASE Disarm(r)
  BY <1>1, <1>5, <1>12, RegistryAside DEF Disarm
<1>. QED
  BY <1>6, <1>7, <1>8, <1>10, <1>11, <1>12

LEMMA ApplyKeeps ==
    ASSUME PairInv, NEW r \in Reconcilers, Apply(r)
    PROVE  PairInv'
<1>1. ~At(r, "idle") /\ UNCHANGED vars /\ UNCHANGED node /\ ScriptInv
  BY DEF Apply, At, vars, PairInv
<1>2. Entry(r) \in Entries
  BY <1>1, PairOf
<1>3. CASE UNCHANGED installed /\ Abort(r)
  BY <1>1, <1>3, NothingElsewhere, AbortKeeps, RegistryAside
<1>4. CASE /\ installed' = [installed EXCEPT ![Entry(r)] = [rev |-> rc[r].rev, by |-> "script"]]
           /\ Proceed(r, "fetchR2")
  <2>1. /\ installed' = [n \in Entries |-> installed'[n]]
        /\ installed'[Entry(r)].rev = rc[r].rev
        /\ \A e \in Entries : e # Entry(r) => installed'[e] = installed[e]
    BY <1>1, <1>2, <1>4 DEF ScriptInv
  <2>2. Elsewhere(r)
    BY <1>1, <2>1 DEF Elsewhere
  <2>3. ScriptInv'
    BY <1>1, <1>4, <2>1, <2>2, ProceedKeeps DEF Steps
  <2>. QED
    BY <1>1, <2>3, RegistryAside
<1>. QED
  BY <1>3, <1>4 DEF Apply
LEMMA RollBackKeeps ==
    ASSUME PairInv, NEW r \in Reconcilers, RollBack(r)
    PROVE  PairInv'
<1>1. ~At(r, "idle") /\ UNCHANGED <<eligible, owed, hd, installed>> /\ Exit(r) /\ RegistryInv /\ ScriptInv
  BY DEF RollBack, At, PairInv
<1>2. rc[r].x \in Nodes /\ rc[r].x \notin Entries
  BY <1>1, PairOf
<1>3. UNCHANGED node \/ (Registered(rc[r].x) /\ node' = NodeStatusSet(rc[r].x, "provisioning"))
  BY DEF RollBack, CanDemote
<1>4. failures' \in 0..MaxFailures
  BY <1>1, MishapCounts DEF RollBack
<1>5. RegistryInv'
  BY <1>1, <1>2, <1>3, <1>4, TableChanges, TableUnchanged DEF Statuses
<1>6. node' = NodeStatusSet(rc[r].x, "provisioning") =>
        \A m \in Nodes : node'[m].status = IF m = rc[r].x THEN "provisioning" ELSE node[m].status
  BY <1>1, <1>2, StatusAfterSet DEF SetStatus, NodeStatusSet
<1>7. Elsewhere(r)
  BY <1>1, <1>2, <1>3, <1>6 DEF Elsewhere, ScriptInv, Entries
<1>8. ScriptInv'
  BY <1>1, <1>7, ExitKeeps
<1>. QED
  BY <1>5, <1>8 DEF PairInv

LEMMA MishapsKeep ==
    ASSUME PairInv, NEW r \in Reconcilers, Signal(r) \/ Kill(r)
    PROVE  PairInv'
<1>1. ~At(r, "idle") /\ UNCHANGED <<node, eligible, owed, hd, installed>> /\ RegistryInv /\ ScriptInv
  BY DEF Signal, Kill, At, PairInv
<1>2. failures' \in 0..MaxFailures
  BY <1>1, MishapCounts DEF Signal, Kill
<1>3. RegistryInv'
  BY <1>1, <1>2, TableUnchanged
<1>4. Elsewhere(r)
  BY <1>1, NothingElsewhere
<1>5. CASE Signal(r)
  BY <1>1, <1>3, <1>4, <1>5, AbortKeeps DEF Signal, PairInv
<1>6. CASE Kill(r)
  <2>1. NotRunning \in Run /\ NotRunning.pc = "idle"
    BY DEF NotRunning, Run, Steps
  <2>. QED
    BY <1>1, <1>3, <1>4, <1>6, <2>1, RunEnds DEF Kill, PairInv
<1>. QED
  BY <1>5, <1>6

\* The refresh marks the host as its own, so what a script knows of it ends.
LEMMA RefreshKeeps ==
    ASSUME PairInv, NEW f \in Refreshers, SyncAccess(f) \/ \E n \in Entries : FetchSnapshot(f, n)
    PROVE  PairInv'
<1>1. UNCHANGED vars /\ UNCHANGED <<node, rc, lock>> /\ ScriptInv
  BY DEF SyncAccess, FetchSnapshot, PairInv, vars
<1>2. PICK n, rev : \/ UNCHANGED installed
                    \/ installed' = [installed EXCEPT ![n] = [rev |-> rev, by |-> "refresh"]]
  BY DEF SyncAccess, FetchSnapshot
<1>3. /\ installed' = [e \in Entries |-> installed'[e]]
      /\ \A e \in Entries : installed'[e] = installed[e] \/ installed'[e].by = "refresh"
  BY <1>1, <1>2 DEF ScriptInv
<1>4. ASSUME NEW r \in Reconcilers PROVE Knows(r, rc[r], node, lock, installed')
  <2>1. Knows(r, rc[r], node, lock, installed)
    BY <1>1 DEF ScriptInv
  <2>2. rc[r].pc # "idle" => EntryOf[rc[r].x] \in Entries
    BY <2>1, RegistryConstants DEF Knows, Entries
  <2>. QED
    BY <1>3, <2>1, <2>2 DEF Knows
<1>5. ScriptInv'
  BY <1>1, <1>3, <1>4 DEF ScriptInv
<1>. QED
  BY <1>1, <1>5, RegistryAside

LEMMA RequestsKeep ==
    ASSUME OnlyScriptsActivate, PairInv, [Next]_vars, UNCHANGED script
    PROVE  PairInv'
<1>1. RegistryInv'
  BY InvariantKept DEF PairInv
<1>2. \A n \in Nodes : node'[n].status = "active" => node[n].status = "active"
  BY RequestsStartNone DEF PairInv
<1>3. UNCHANGED <<rc, lock, installed>> /\ ScriptInv
  BY DEF script, PairInv
<1>4. ASSUME NEW r \in Reconcilers PROVE Knows(r, rc[r], node', lock, installed)
  <2>1. Knows(r, rc[r], node, lock, installed)
    BY <1>3 DEF ScriptInv
  <2>2. rc[r].pc # "idle" => EntryOf[rc[r].x] \in Nodes
    BY <2>1, RegistryConstants DEF Knows
  <2>. QED
    BY <1>2, <2>1, <2>2 DEF Knows
<1>5. ScriptInv'
  BY <1>3, <1>4 DEF ScriptInv
<1>. QED
  BY <1>1, <1>5 DEF PairInv

LEMMA PairInvInit == PairInit => PairInv
<1> SUFFICES ASSUME PairInit PROVE PairInv
  OBVIOUS
<1>1. \A n \in Nodes : node[n] \in Body /\ node[n].status # "none"
  BY DEF PairInit, Body, Statuses
<1>2. TypeOK
  BY <1>1, RegistryConstants DEF PairInit, TypeOK, Handler, Idle, Registered
<1>3. RegistryInv
  BY <1>2 DEF PairInit, RegistryInv, Carried, Idle
<1>4. NotRunning \in Run /\ NotRunning.pc = "idle"
  BY DEF NotRunning, Run, Steps
<1>5. ScriptInv
  BY <1>4 DEF PairInit, NoScripts, ScriptInv, Knows
<1>. QED
  BY <1>3, <1>5 DEF PairInv

LEMMA PairInvNext == PairInv /\ [PairNext]_pairVars /\ [OnlyScriptsActivate]_pairVars => PairInv'
<1> SUFFICES ASSUME PairInv, [PairNext]_pairVars, [OnlyScriptsActivate]_pairVars PROVE PairInv'
  OBVIOUS
<1>0. OnlyScriptsActivate
  BY DEF OnlyScriptsActivate, pairVars, vars
<1>1. CASE UNCHANGED pairVars
  BY <1>0, <1>1, RequestsKeep DEF pairVars
<1>2. CASE Next /\ UNCHANGED script
  BY <1>0, <1>2, RequestsKeep
<1>3. ASSUME NEW r \in Reconcilers, ReconcileStep(r) PROVE PairInv'
  BY <1>3, CallsKeep, LocalStepsKeep, ApplyKeeps, RollBackKeeps DEF ReconcileStep
<1>. QED
  BY <1>1, <1>2, <1>3, AcquireLockKeeps, MishapsKeep, RefreshKeeps DEF PairNext, ScriptNext
----------------------------------------------------------------------------
(* What follows.                                                           *)

\* The writes of the scripts to the registry, each at its place in the run.
LEMMA ScriptWrites ==
    ASSUME ScriptNext
    PROVE  \/ UNCHANGED node
           \/ \E r \in Reconcilers :
                \/ At(r, "demoteEntry") /\ SetStatus(Entry(r), "provisioning")
                \/ At(r, "demoteExit") /\ SetStatus(rc[r].x, "provisioning")
                \/ At(r, "rollback") /\ SetStatus(rc[r].x, "provisioning")
                \/ At(r, "activateExit") /\ SetStatus(rc[r].x, "active")
                \/ /\ At(r, "activateEntry") /\ SetStatus(Entry(r), "active")
                   /\ CanActivate(Entry(r), rc[r].rev, FALSE)
<1> USE DEF SetStatus, NodeStatusSet
<1>1. ASSUME NEW r \in Reconcilers, \E x \in Exits : AcquireLock(r, x) PROVE UNCHANGED node
  BY <1>1 DEF AcquireLock, vars
<1>2. ASSUME NEW r \in Reconcilers, Signal(r) \/ Kill(r) PROVE UNCHANGED node
  BY <1>2 DEF Signal, Kill
<1>3. ASSUME NEW f \in Refreshers, SyncAccess(f) \/ \E n \in Entries : FetchSnapshot(f, n) PROVE UNCHANGED node
  BY <1>3 DEF SyncAccess, FetchSnapshot, vars
<1>4. ASSUME NEW r \in Reconcilers,
             VerifyExit(r) \/ Arm(r) \/ FetchR1(r) \/ Apply(r) \/ FetchR2(r) \/ Probe(r) \/ Disarm(r)
      PROVE  UNCHANGED node
  BY <1>4 DEF VerifyExit, Arm, FetchR1, Apply, FetchR2, Probe, Disarm, vars
<1>5. ASSUME NEW r \in Reconcilers, DemoteEntry(r)
      PROVE  UNCHANGED node \/ (At(r, "demoteEntry") /\ SetStatus(Entry(r), "provisioning"))
  BY <1>5 DEF DemoteEntry, Call
<1>6. ASSUME NEW r \in Reconcilers, DemoteExit(r)
      PROVE  UNCHANGED node \/ (At(r, "demoteExit") /\ SetStatus(rc[r].x, "provisioning"))
  BY <1>6 DEF DemoteExit, Call
<1>7. ASSUME NEW r \in Reconcilers, RollBack(r)
      PROVE  UNCHANGED node \/ (At(r, "rollback") /\ SetStatus(rc[r].x, "provisioning"))
  BY <1>7 DEF RollBack
<1>8. ASSUME NEW r \in Reconcilers, ActivateExit(r)
      PROVE  UNCHANGED node \/ (At(r, "activateExit") /\ SetStatus(rc[r].x, "active"))
  BY <1>8 DEF ActivateExit, Call
<1>9. ASSUME NEW r \in Reconcilers, ActivateEntry(r)
      PROVE  \/ UNCHANGED node
             \/ /\ At(r, "activateEntry") /\ SetStatus(Entry(r), "active")
                /\ CanActivate(Entry(r), rc[r].rev, FALSE)
  BY <1>9 DEF ActivateEntry, Call
<1> HIDE DEF SetStatus, NodeStatusSet
<1>. QED
  BY <1>1, <1>2, <1>3, <1>4, <1>5, <1>6, <1>7, <1>8, <1>9 DEF ScriptNext, ReconcileStep

LEMMA PairedStep ==
    ASSUME PairInv, [PairNext]_pairVars, NEW x \in Exits,
           Paired(x), ~Paired(x)', UNCHANGED hd
    PROVE  \E r \in Reconcilers : At(r, "rollback") /\ rc[r].x = x
<1>0. x \in Nodes /\ EntryOf[x] \in Nodes /\ EntryOf[x] \notin Exits /\ EntryOf[x] # x
  BY RegistryConstants
<1>1. node'[EntryOf[x]].status = "active" /\ node'[x].status # "active"
  BY DEF Paired
<1>2. RegistryInv /\ ScriptInv
  BY DEF PairInv
<1>3. ~UNCHANGED node
  BY <1>1 DEF Paired
<1>4. ~[Next]_vars
  <2> SUFFICES ASSUME [Next]_vars PROVE FALSE
    OBVIOUS
  <2>1. node[EntryOf[x]].status = "active" /\ node[x].status # "active"
    BY <1>0, <1>1, <1>2, RequestsMoveHandlers
  <2>. QED
    BY <2>1 DEF Paired
<1>5. ScriptNext
  BY <1>4 DEF PairNext, pairVars
<1>6. PICK r \in Reconcilers :
                \/ At(r, "demoteEntry") /\ SetStatus(Entry(r), "provisioning")
                \/ At(r, "demoteExit") /\ SetStatus(rc[r].x, "provisioning")
                \/ At(r, "rollback") /\ SetStatus(rc[r].x, "provisioning")
                \/ At(r, "activateExit") /\ SetStatus(rc[r].x, "active")
                \/ /\ At(r, "activateEntry") /\ SetStatus(Entry(r), "active")
                   /\ CanActivate(Entry(r), rc[r].rev, FALSE)
  BY <1>3, <1>5, ScriptWrites
<1>7. ~At(r, "idle")
  BY <1>6 DEF At
<1>8. /\ rc[r].x \in Nodes /\ rc[r].x \in Exits /\ Entry(r) \in Nodes /\ Entry(r) \notin Exits
      /\ Entry(r) = EntryOf[rc[r].x] /\ Knows(r, rc[r], node, lock, installed)
  BY <1>2, <1>7, PairOf DEF Entry, ScriptInv
<1>9. ASSUME NEW m \in Nodes, NEW s, SetStatus(m, s)
      PROVE  /\ node'[x].status = IF x = m THEN s ELSE node[x].status
             /\ node'[EntryOf[x]].status = IF EntryOf[x] = m THEN s ELSE node[EntryOf[x]].status
  BY <1>0, <1>2, <1>9, StatusAfterSet
<1>10. CASE At(r, "demoteEntry") /\ SetStatus(Entry(r), "provisioning")
  BY <1>0, <1>1, <1>8, <1>9, <1>10 DEF Paired
<1>11. CASE At(r, "demoteExit") /\ SetStatus(rc[r].x, "provisioning")
  <2>1. node[EntryOf[rc[r].x]].status # "active"
    BY <1>8, <1>11 DEF Knows, At
  <2>. QED
    BY <1>0, <1>1, <1>8, <1>9, <1>11, <2>1 DEF Paired
<1>12. CASE At(r, "rollback") /\ SetStatus(rc[r].x, "provisioning")
  <2>1. x = rc[r].x
    BY <1>0, <1>1, <1>8, <1>9, <1>12 DEF Paired
  <2>. QED
    BY <1>12, <2>1
<1>13. CASE At(r, "activateExit") /\ SetStatus(rc[r].x, "active")
  BY <1>0, <1>1, <1>8, <1>9, <1>13 DEF Paired
<1>14. CASE /\ At(r, "activateEntry") /\ SetStatus(Entry(r), "active")
            /\ CanActivate(Entry(r), rc[r].rev, FALSE)
  <2>1. PICK y \in Exits : EntryOf[y] = Entry(r) /\ node[y].status = "active"
    BY <1>8, <1>14 DEF CanActivate
  <2>2. EntryOf[x] = Entry(r) => x = y
    BY <2>1, PairConstants
  <2>. QED
    BY <1>0, <1>1, <1>8, <1>9, <1>14, <2>1, <2>2 DEF Paired
<1>. QED
  BY <1>6, <1>10, <1>11, <1>12, <1>13, <1>14

\* However runs of reconcile_node.sh, their mishaps, retirements, demotions, PATCHes and
\* verdicts interleave, a script takes the exit away from a serving entry only in the
\* rollback of a run that did not hear of its own activation.
THEOREM ScriptsKeepTheExit == PairSpec /\ [][OnlyScriptsActivate]_pairVars => ServingEntryHasExit
<1>1. PairInv /\ [PairNext]_pairVars =>
        [\A x \in Exits : Paired(x) /\ ~Paired(x)' /\ UNCHANGED hd
           => \E r \in Reconcilers : At(r, "rollback") /\ rc[r].x = x]_pairVars
  BY PairedStep
<1>. QED
  BY <1>1, PairInvInit, PairInvNext, PTL DEF PairSpec, ServingEntryHasExit

LEMMA AdmitsStep ==
    ASSUME OnlyScriptsActivate, PairInv, [PairNext]_pairVars, NEW n \in Entries,
           node[n].status # "active", node'[n].status = "active", installed[n].by = "script"
    PROVE  installed[n].rev = eligible
<1>0. n \in Nodes /\ n \notin Exits
  BY DEF Entries
<1>1. RegistryInv /\ ScriptInv
  BY DEF PairInv
<1>2. ~[Next]_vars
  BY <1>0, <1>1, RequestsStartNone
<1>3. ScriptNext
  BY <1>2 DEF PairNext, pairVars
<1>4. PICK r \in Reconcilers :
                \/ At(r, "demoteEntry") /\ SetStatus(Entry(r), "provisioning")
                \/ At(r, "demoteExit") /\ SetStatus(rc[r].x, "provisioning")
                \/ At(r, "rollback") /\ SetStatus(rc[r].x, "provisioning")
                \/ At(r, "activateExit") /\ SetStatus(rc[r].x, "active")
                \/ /\ At(r, "activateEntry") /\ SetStatus(Entry(r), "active")
                   /\ CanActivate(Entry(r), rc[r].rev, FALSE)
  BY <1>3, ScriptWrites
<1>5. ~At(r, "idle")
  BY <1>4 DEF At
<1>6. /\ rc[r].x \in Nodes /\ rc[r].x \in Exits /\ Entry(r) \in Nodes /\ Entry(r) \notin Exits
      /\ Entry(r) = EntryOf[rc[r].x] /\ Knows(r, rc[r], node, lock, installed)
  BY <1>1, <1>5, PairOf DEF Entry, ScriptInv
<1>7. ASSUME NEW m \in Nodes, NEW s, SetStatus(m, s)
      PROVE  node'[n].status = IF n = m THEN s ELSE node[n].status
  BY <1>0, <1>1, <1>7, StatusAfterSet
<1>8. /\ At(r, "activateEntry") /\ n = Entry(r)
      /\ CanActivate(Entry(r), rc[r].rev, FALSE)
  <2>1. At(r, "activateExit") /\ SetStatus(rc[r].x, "active") => FALSE
    BY <1>0, <1>6, <1>7
  <2>2. SetStatus(rc[r].x, "provisioning") \/ SetStatus(Entry(r), "provisioning") => FALSE
    BY <1>6, <1>7
  <2>3. SetStatus(Entry(r), "active") => n = Entry(r)
    BY <1>6, <1>7
  <2>. QED
    BY <1>4, <2>1, <2>2, <2>3
<1>9. rc[r].rev = eligible
  BY <1>6, <1>8 DEF CanActivate
<1>. QED
  BY <1>6, <1>8, <1>9 DEF Knows, At

\* An entry that starts to serve admits exactly the users eligible at that moment, unless
\* a refresh wrote its host last: the revision that activate compares is the one that the
\* run holding the pair's lock has installed, however long ago it fetched it.
THEOREM ActivatedEntriesAdmitCurrentUsers == PairSpec /\ [][OnlyScriptsActivate]_pairVars => ActivationAdmitsCurrent
<1>1. PairInv /\ [PairNext]_pairVars /\ [OnlyScriptsActivate]_pairVars =>
        [\A n \in Entries :
           node[n].status # "active" /\ node'[n].status = "active"
           /\ installed[n] # None /\ installed[n].by = "script"
              => installed[n].rev = eligible]_pairVars
  BY AdmitsStep
<1>. QED
  BY <1>1, PairInvInit, PairInvNext, PTL DEF PairSpec, ActivationAdmitsCurrent
=============================================================================
