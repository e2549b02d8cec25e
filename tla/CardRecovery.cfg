\* Snapshots, a rollback, detection, restore.
CONSTANTS
    Movement = {e1, e2}
    NoDigest = NoDigest
    MaxLosses = 1
    MaxRestores = 1
    MaxSnaps = 2
    MaxFaults = 1
SPECIFICATION Spec
CHECK_DEADLOCK FALSE
INVARIANTS RecoveryKeepsDebt
PROPERTIES LossIsContained
