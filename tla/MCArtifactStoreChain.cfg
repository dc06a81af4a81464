\* Two writers, and two invocations of which the second inherits from the first.
CONSTANTS
    w1 = w1
    w2 = w2
    run = run
    plain = plain
    treated = treated
    c1 = c1
    c2 = c2
    truth = truth
    Writers = {w1, w2}
    MaxFailures = 0
    Runs = {run}
    Treatments = {plain}
    Invocations = {1, 2}
    Consumers = {c2}
    Cleared = {}
    Refs = {truth}
    RunOf <- OneRun
    Sources <- Chain
    Streams <- MixedMessages
    Commands <- OneKey
SPECIFICATION Spec
SYMMETRY Symmetry
INVARIANTS
    KeysClaimedOnce
    NoLeak
CHECK_DEADLOCK FALSE
