CONSTANTS
    buy = buy
    more = more
    refund = refund
    owner = owner
    cron = cron
    d1 = d1
    d2 = d2
    Movement <- MCMovement
    Amount <- MCAmount
    FeeBps = 100
    Owner = {owner}
    Cron = {cron}
    Desk = {d1, d2}
    Mandate = {m1}
    MaxSeq = 2
    Scenes <- MCScenes
    Prober = {p1, p2}
    MaxAttempts = 2
    MaxChain = 3
    ListLimit = 3
    TxBudget = 2
SPECIFICATION PrivateSpec
INVARIANTS
    StatementsAddUp
    LaterDebtKept
    DischargedIsPaid
    NoPayoutPassed
SYMMETRY Symmetry
CHECK_DEADLOCK FALSE
