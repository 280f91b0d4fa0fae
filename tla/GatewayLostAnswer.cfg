\* PostgreSQL takes every row; a Redis command may raise.
CONSTANTS
    a1 = a1
    a2 = a2
    a3 = a3
    b1 = b1
    hello = hello
    Hello = Hello
    bHello = bHello
    BadToken = BadToken
    NoQuery = NoQuery
    UserOf <- MCUserOf
    Normalize <- MCNormalize
    Conns = {a1, a2}
    Chars = {":", "alice", "b", "hello"}
    Users <- MCUsers
    Queries = {hello}
    CacheEnabled = TRUE
    MaxConcurrentLlm = 1
    TokenBudgetDaily = 2
    TokenCosts = {1}
    MaxTokens = 2
    MaxMessages = 1
    DayLength = 1
    LastDay = 0
    RedisMayFail = TRUE
    DbMayFail = FALSE
SPECIFICATION Spec
INVARIANT ProducedAnswersAreLogged
