\* The issuer side of one card.
CONSTANTS
    owner = owner  issuer = issuer  a1 = a1  a2 = a2  i1 = i1
    Key = {owner, issuer}
    Owner = owner
    NoKey = NoKey
    AuthId = {a1, a2}
    NoAuth = NoAuth
    IntentId = {i1}
    CaptureId = {}
    EventId = {}
    Digest = {}
    ZeroId = ZeroId
    Merchant = {shop}
    Mcc = {grocery}
    AnyMcc = AnyMcc
    NoAccount = NoAccount
    CAPTURE_RING = 4
    REPAYMENT_RING = 1
    EVENT_RING = 4
    GUARD_RING = 2
    MAX_BUDGET_CENTS = 4
    MIN_PERIOD_SECONDS = 1
    MAX_FEE_BPS = 0
    BPS_DENOMINATOR = 2
    MAX_INTENT_TTL_SECONDS = 1
    HOLD_TTL_SECONDS = 1
    MAX_MEMBERS = 2
    UnitsPerCent = 1
    Prefund = 4
    MaxU16 = 4
    MaxU32 = 2
    MaxU64 = 16
    Shop = shop
    ShopMcc = grocery
    Caller = {c1, c2}
    Handler = {h1, h2}
    Pass = {p1, p2}
    NoRow = NoRow
    NoIntent = NoIntent
    NoPass = NoPass
    Scene <- IssuerScenes
SPECIFICATION EventsSpec
VIEW EventsView
SYMMETRY EventsSymmetry
CHECK_DEADLOCK FALSE
INVARIANTS AnswersAreSound MovesOnceWhileHeld BooksFollowProgram
