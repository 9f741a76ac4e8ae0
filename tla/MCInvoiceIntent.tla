--------------------------- MODULE MCInvoiceIntent ---------------------------
(* A small instance of InvoiceIntent for TLC.                               *)
EXTENDS InvoiceIntent, TLC

CONSTANTS k1, k2, btcpay, onchain, h1, h2, h3, o1, o2

Symmetry == Permutations(Keys) \cup Permutations(Handlers) \cup Permutations(Orders)
=============================================================================
