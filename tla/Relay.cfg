\* Two requests at a time on payments and owner transactions.
CONSTANTS
    Key = {k1, k2}
    Worker = {w1, w2}
    Scene <- Scenes
    NoRow = NoRow
    MaxSends = 3
SPECIFICATION RelaySpec
VIEW View
SYMMETRY Requests
CHECK_DEADLOCK FALSE
INVARIANTS RecordsAreTrue ConnectorsAgree NoSecondSend
