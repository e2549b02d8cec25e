CONSTANTS
    Request = {w1}
    Cron = {w2}
    NoSalt = NoSalt
    MaxSeq = 2
    MaxMirrors = 3
    Scenes <- MCScenes
SPECIFICATION Spec
INVARIANTS ConfirmedIsOnBase OpenIsControlled
CHECK_DEADLOCK FALSE
