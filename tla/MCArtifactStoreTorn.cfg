\* A put that is cut short before its invocation is recorded.
CONSTANTS
    w1 = w1
    w2 = w2
    run = run
    plain = plain
    treated = treated
    c1 = c1
    c2 = c2
    truth = truth
    Writers = {w1, w2}
    MaxFailures = 0
    Runs = {run}
    Treatments = {plain, treated}
    Invocations = {1}
    Consumers = {c1}
    Cleared = {c1}
    Refs = {truth}
    RunOf <- OneRun
    Sources <- Chain
    Streams <- TwoMessages
    Commands <- NoCommands
SPECIFICATION Spec
SYMMETRY Symmetry
PROPERTY CorruptObjectStopsOpening
CHECK_DEADLOCK FALSE
