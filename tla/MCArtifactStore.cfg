\* Two writers deliver two messages of one stream to a consumer; a run may be
\* registered differently twice, and an integrity failure recorded.
CONSTANTS
    w1 = w1
    w2 = w2
    run = run
    plain = plain
    treated = treated
    c1 = c1
    c2 = c2
    truth = truth
    Writers = {w1, w2}
    MaxFailures = 1
    Runs = {run}
    Treatments = {plain, treated}
    Invocations = {1}
    Consumers = {c1}
    Cleared = {c1}
    Refs = {truth}
    RunOf <- OneRun
    Sources <- Chain
    Streams <- TwoMessages
    Commands <- NoCommands
SPECIFICATION Spec
SYMMETRY Symmetry
INVARIANTS
    StoreInv
    AtMostOnce
    InOrder
PROPERTY IsSerialStore
CHECK_DEADLOCK FALSE
