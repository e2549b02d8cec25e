\* Recovery, delegation, readers and checkpoints of one card.
CONSTANTS
    owner = owner  issuer = issuer  issuer2 = issuer2  shop = shop  grocery = grocery
    a1 = a1  a2 = a2  c1 = c1  c2 = c2  e1 = e1  e2 = e2  d1 = d1  d2 = d2  d3 = d3
    Key = {owner, issuer, issuer2}
    Owner = owner
    NoKey = NoKey
    AuthId = {a1, a2}
    NoAuth = NoAuth
    IntentId = {i1}
    CaptureId = {c1, c2}
    EventId = {e1, e2}
    Digest = {d1, d2, d3}
    ZeroId = ZeroId
    Merchant = {shop}
    Mcc = {grocery}
    AnyMcc = AnyMcc
    NoAccount = NoAccount
    CAPTURE_RING = 2
    REPAYMENT_RING = 1
    EVENT_RING = 1
    GUARD_RING = 1
    MAX_BUDGET_CENTS = 4
    MIN_PERIOD_SECONDS = 1
    MAX_FEE_BPS = 1
    BPS_DENOMINATOR = 2
    MAX_INTENT_TTL_SECONDS = 1
    HOLD_TTL_SECONDS = 1
    MAX_MEMBERS = 3
    UnitsPerCent = 1
    Prefund = 4
    MaxU16 = 4
    MaxU32 = 3
    MaxU64 = 8
    Scene <- LifeScenes
SPECIFICATION Spec
VIEW CardView
SYMMETRY CardSymmetry
CHECK_DEADLOCK FALSE
INVARIANTS RecoveryIsFrozen PermissionsAreSound
PROPERTIES PowersAreSeparate CommitmentNeverRewinds
