SPECIFICATION MCSpec
CONSTANTS
    None = None
    entry = entry
    exit = exit
    a1 = a1
    h1 = h1
    h2 = h2
    r1 = r1
    r2 = r2
    f1 = f1
    Nodes = {entry, exit}
    Exits = {exit}
    EntryOf <- MCEntryOf
    Addresses = {a1}
    Handlers = {h1, h2}
    Reconcilers = {r1, r2}
    Refreshers = {f1}
    Ops = {"register", "update", "rotate", "retire", "demote", "activate", "signal"}
    Sent = {"provisioning", "active"}
    Faults = {"history", "enqueue", "crash"}
    Mishaps = {"call", "reply", "signal", "kill"}
    MaxRevision = 1
    MaxFailures = 2
CONSTRAINT Bound
INVARIANTS
    ChangeIsQueued
PROPERTIES
    ActivationIsGated
    DecommissionedStays
    ServingEntryHasExit
    ActivationAdmitsCurrent
SYMMETRY Symmetry
