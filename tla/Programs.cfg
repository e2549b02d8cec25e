\* The ChainPay program with two mandates, and the support splitter.
CONSTANTS
    alice = alice  bot = bot  usdc = usdc  m1 = m1  m2 = m2
    wallet = wallet  shop = shop  h0 = h0  h1 = h1  h2 = h2
    DefaultKey = DefaultKey  NoConfig = NoConfig  NoAsset = NoAsset
    AnyRecipient = AnyRecipient  NoDelegate = NoDelegate  NoMandate = NoMandate
    Key <- MCKey
    Mint = {usdc}
    MintLists <- MCLists
    Address = {m1, m2}
    OwnerOf <- MCOwnerOf
    MintOf <- MCMintOf
    Account = {wallet, shop}
    AccountOwner <- MCAccountOwner
    AccountMint <- MCAccountMint
    Funds <- MCFunds
    Hash = {h0, h1, h2}
    ZeroHash = h0
    Amount = {0, 1, 2}
    Terms <- MCTerms
    Legacy <- MCLegacy
    MaxU64 = 5
    FirstSlot = 1
    MaxSlot = 3
    ann = ann  ben = ben  cat = cat  vault = vault
    Wallet = {ann, ben, cat, vault}
    NoKey = NoKey
    VaultKeys = {vault}
    Pinned <- MCPinned
    Rent = 2
    Tip = {1, 2}
    MaxCount = 4
    MaxDonated = 10
SPECIFICATION ProgramsSpec
CONSTRAINT OneOrShared
SYMMETRY InvoiceSymmetry
CHECK_DEADLOCK FALSE
INVARIANTS ReceiptsAreSound MoneyIsReceipted BooksBalance
PROPERTIES KeepsPromise
