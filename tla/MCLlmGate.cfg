\* Four handlers for two permits: two can wait while two hold, so that a permit
\* may be released while a woken handler has not resumed.
CONSTANTS
    Conns = {c1, c2, c3, c4}
    MaxConcurrentLlm = 2
SPECIFICATION FairSpec
INVARIANTS
    PermitsConserved
    NoIdlePermit
PROPERTIES
    FirstComeFirstServed
    EveryWaiterIsServed
