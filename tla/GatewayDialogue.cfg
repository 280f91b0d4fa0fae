\* A tab each of two users, two messages each, two spellings of one text, no budget
\* and a Redis that may raise.
CONSTANTS
    a1 = a1
    a2 = a2
    a3 = a3
    b1 = b1
    hello = hello
    Hello = Hello
    bHello = bHello
    BadToken = BadToken
    NoQuery = NoQuery
    UserOf <- MCUserOf
    Normalize <- MCNormalize
    Conns = {a1, b1}
    Chars = {":", "alice", "b", "hello"}
    Users <- MCUsers
    Queries = {hello, Hello, bHello}
    CacheEnabled = TRUE
    MaxConcurrentLlm = 1
    TokenBudgetDaily = 0
    TokenCosts = {1}
    MaxTokens = 2
    MaxMessages = 2
    DayLength = 1
    LastDay = 0
    RedisMayFail = TRUE
    DbMayFail = FALSE
SPECIFICATION Spec
INVARIANTS
    SentAnswersAreLogged
    OneReplyPerMessage
    RedisOutageCostsNoAnswer
    ReplayedAnswersFit
    FallbacksAreNotReplayed
