CONSTANTS
    s1 = s1
    s2 = s2
    A101 = A101
    C303 = C303
    None = None
    Sessions = {s1, s2}
    Orders = {A101, C303}
    Texts <- MCTexts
    Says <- MCSays
    FirstStatus <- MCFirstStatus
    Price <- MCPrice
    MaxMessages = 2
    Pushed <- MCPushed
    MaxTurns <- MCMaxTurns
    MaxEntries = 1
    FirstDays = {7, 14}
    Days <- MCDays
SPECIFICATION Spec
INVARIANTS
    TypeOK
    RepliesWereTrue
    QuotesAreCurrent
PROPERTY CancelsWhatWasMeant
