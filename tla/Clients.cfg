\* Two tool calls and two merchant processes; two wallets and two approvals.
CONSTANTS
    None = None
    i1 = i1  i2 = i2  c1 = c1  c2 = c2  m1 = m1  m2 = m2  k1 = k1  k2 = k2
    Invoice = {i1, i2}
    Call = {c1, c2}
    Instance = {m1, m2}
    Scene <- Scenes
    Wallet = {w1, w2}
    Key = {k1, k2}
    Payments = {k1}
    Urgent = {k2}
SPECIFICATION ClientsSpec
SYMMETRY ClientsSymmetry
CHECK_DEADLOCK FALSE
INVARIANTS
    OneLiveAttempt ServedIsPaid DeliveryIsTrue IssuedIsStated
    JournalIsTrue UnresolvedIsKept
