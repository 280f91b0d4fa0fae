CONSTANTS
    s1 = s1
    s2 = s2
    A101 = A101
    C303 = C303
    None = None
    Sessions = {s1, s2}
    Orders = {A101, C303}
    Texts <- MCTexts
    Says <- MCSays
    FirstStatus <- MCFirstStatus
    Price <- MCPrice
    MaxMessages = 3
    Pushed <- MCPushedWhole
    MaxTurns <- MCMaxTurns
    MaxEntries = 2
    FirstDays = {7, 14}
    Days <- MCDays
SPECIFICATION Spec
PROPERTY RecentOrderIsReused
