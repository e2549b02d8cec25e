\* One receipt and two endpoints; one endpoint's secrets; four payments and a transaction.
CONSTANTS
    Receipt = {r1}
    Subscription = {s1, s2}
    Token = {t1, t2}
    Body = {read, null}
    NoRow = NoRow
    NoToken = NoToken
    MAX_ATTEMPTS = 2
    BACKOFF <- OneStep
    RETRY_AFTER = {0}
    LEASE = 1
    BATCH = 1
    LOOKBACK = 1
    MAX_ACTIVE = 1
    MAX_ROWS = 2
    MaxBudgets = 2
    Overdue = 0
    Secret = {a, b, c, d}
    Request = {q1, q2}
    Idle = Idle
    ROTATION_OVERLAP = 2
    Payment = {1, 2, 3, 4}
    Transaction = {5}
    Store = {"memory", "convex"}
    LIMIT = 2
    SCAN = 3
    Since = 1
    Now = 3
    MaxFaults = 1
SPECIFICATION WebhooksSpec
CHECK_DEADLOCK FALSE
INVARIANTS OutboxIsSound PredecessorSigns
PROPERTIES EveryDeliverySettles 
