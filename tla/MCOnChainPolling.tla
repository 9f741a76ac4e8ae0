-------------------------- MODULE MCOnChainPolling --------------------------
(* A small instance of OnChainPolling for TLC.                              *)
EXTENDS OnChainPolling, TLC

CONSTANTS i1, p1, p2

ExpiresAtOnce == [i \in Invoices |-> 0]
=============================================================================
