\* PostgreSQL never raises; the only connection is taken when the refresh asks for it.
CONSTANTS
    v1 = v1
    v2 = v2
    v3 = v3
    A101 = A101
    C303 = C303
    Nobody = Nobody
    NoOrder = NoOrder
    Orders = {A101}
    Convs = {v1, v2}
    PoolSize = 1
    DbMayFail = FALSE
SPECIFICATION Spec
PROPERTY CommittedCallsConfirm
