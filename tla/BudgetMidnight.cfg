\* Three tabs of one user race one budget across midnight, and Redis may raise
\* in any command.  Costs 1 and 2 against a limit of 2 reach it exactly or cross.
CONSTANTS
    a1 = a1
    a2 = a2
    a3 = a3
    b1 = b1
    alice = alice
    bob = bob
    Conns = {a1, a2, a3}
    Users = {alice}
    UserOf <- MCUserOf
    TokenBudgetDaily = 2
    TokenCosts = {1, 2}
    MaxTokens = 2
    DayLength = 3
    LastDay = 1
    RedisMayFail = TRUE
SPECIFICATION Spec
INVARIANTS
    TypeOK
    OvershootBounded
PROPERTIES
    NoResetWithinDay
    OnlyFailuresLoseExpiry
