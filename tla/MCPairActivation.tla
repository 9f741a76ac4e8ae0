-------------------------- MODULE MCPairActivation --------------------------
(* Small instances of NodeRegistry and PairActivation for TLC: one pair, in *)
(* two scenarios.  "requests": two API requests of any kind at a time from  *)
(* an empty registry, with one fault.   "scripts": two runs of              *)
(* reconcile_node.sh, an access refresh and an operator who retires and     *)
(* demotes, two mishaps and a ban.                                          *)
EXTENDS PairActivation, TLC

CONSTANTS entry, exit, a1, h1, h2, r1, r2, f1

VARIABLE scenario

MCEntryOf == (exit :> entry)

MCInit ==
    \/ scenario = "requests" /\ Init /\ NoScripts
    \/ scenario = "scripts" /\ PairInit

Operator ==
    \/ ChangeEligible
    \/ \E h \in Handlers :
         /\ \A g \in Handlers \ {h} : hd[g] = Idle
         /\ HandlerStep(h) \/ \E n \in Nodes : Retire(h, n) \/ Demote(h, n)

MCNext ==
    /\ \/ scenario = "requests" /\ Next /\ UNCHANGED script
       \/ scenario = "scripts" /\ Operator /\ UNCHANGED script
       \/ scenario = "scripts" /\ ScriptNext
    /\ UNCHANGED scenario

MCSpec == MCInit /\ [][MCNext]_<<pairVars, scenario>>

\* Bounds of the first scenario; those of the second are MaxRevision, MaxFailures.
Bound == scenario = "requests" => failures <= 1 /\ eligible = 0

Symmetry == Permutations(Handlers)
=============================================================================
