\* Two tabs of one user for one permit, across midnight, with a budget that one
\* call exhausts, and a Redis and a PostgreSQL that may raise.
CONSTANTS
    a1 = a1
    a2 = a2
    a3 = a3
    b1 = b1
    hello = hello
    Hello = Hello
    bHello = bHello
    BadToken = BadToken
    NoQuery = NoQuery
    UserOf <- MCUserOf
    Normalize <- MCNormalize
    Conns = {a1, a2}
    Chars = {":", "alice", "b", "hello"}
    Users <- MCUsers
    Queries = {hello}
    CacheEnabled = TRUE
    MaxConcurrentLlm = 1
    TokenBudgetDaily = 2
    TokenCosts = {2}
    MaxTokens = 2
    MaxMessages = 1
    DayLength = 1
    LastDay = 1
    RedisMayFail = TRUE
    DbMayFail = TRUE
SPECIFICATION FairSpec
INVARIANTS
    TypeOK
    RegistryMirrorsHandlers
    EveryEndIsAccountedFor
PROPERTIES
    GateSpec
    BudgetSpec
    EveryMessageIsConcluded
    AbandonedHandlersEnd
