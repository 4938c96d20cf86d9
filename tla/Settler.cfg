\* Three callers, two calls each: races of every pair of calls, retries after a
\* failed broker call, late calls, and a third caller to slip in between.
CONSTANTS
    g1 = g1
    g2 = g2
    g3 = g3
    Callers <- MCCallers
    MaxCalls = 2
SPECIFICATION FairSpec
INVARIANTS
    OneAtTheBroker
    ClaimAccounted
    SettledOnce
    LateCallStopsShort
PROPERTIES
    KeepsPromise
    ClaimResolves
CHECK_DEADLOCK FALSE
