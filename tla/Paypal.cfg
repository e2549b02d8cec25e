SPECIFICATION Spec
CONSTANTS
    t1 = t1
    t2 = t2
    w1 = w1
    w2 = w2
    r1 = r1
    r2 = r2
    q1 = q1
    q2 = q2
    q3 = q3
    p1 = p1
    p2 = p2
    Unit <- TwoOutputs
    NoDelegation = NoDelegation
    Task = {t1, t2}
    Worker = {w1, w2}
    Reader = {r1, r2}
    Request = {q1, q2, q3}
    Payment = {p1, p2}
    NoPayment = NoPayment
    Sub = Sub
    Delegate = Delegate
    Scene <- PaypalScenes
SYMMETRY PaypalSymmetry
INVARIANTS MoneyIsTrue OutputsStand AllowanceIsTrue
PROPERTY ReviewStopsWork
CHECK_DEADLOCK FALSE
