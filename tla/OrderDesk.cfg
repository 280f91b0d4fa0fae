\* Three conversations that never stop asking for two orders, two connections;
\* PostgreSQL may raise.
CONSTANTS
    v1 = v1
    v2 = v2
    v3 = v3
    A101 = A101
    C303 = C303
    Nobody = Nobody
    NoOrder = NoOrder
    Orders = {A101, C303}
    Convs = {v1, v2, v3}
    PoolSize = 2
    DbMayFail = TRUE
SPECIFICATION FairSpec
INVARIANT DeskInv
PROPERTIES
    OrderLifeSpec
    EveryCallReturns
