--------------------------- MODULE MCRebuildQueue ---------------------------
(* Small instances of RebuildQueue for TLC.                                 *)
EXTENDS RebuildQueue

CONSTANTS n1, u1, w1, w2, g1

\* One change, a reader beside the pollers and a failure more than a job has attempts; or
\* two changes of a user, whose jobs are claimed together, and enough failures to give one up.
MCBudgets == {[changes |-> 1, nodes |-> {n1}, failures |-> 3, readers |-> {g1}],
              [changes |-> 2, nodes |-> {}, failures |-> 2, readers |-> {}]}
=============================================================================
