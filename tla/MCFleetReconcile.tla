-------------------------- MODULE MCFleetReconcile --------------------------
\* Instance of FleetReconcile: the pair in service and two runs for replacements.
EXTENDS FleetReconcile
=============================================================================
