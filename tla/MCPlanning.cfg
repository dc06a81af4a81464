\* One site under every diagnosis and every search.  Three operators reach all of
\* the catalog, which sets the path once and moves each of at most two profiles in
\* force once; the moves of the other need four.
CONSTANTS
    Sites <- OneSite
    Longest = 4
    Requests <- AllRequests
SPECIFICATION Spec
INVARIANTS
    Optimal
    Honest
    NoHeadroom
    ProposalsEarned
CHECK_DEADLOCK FALSE
