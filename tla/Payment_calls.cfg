SPECIFICATION Spec
CONSTANTS
    Calls = {c1, c2, c3}
    Keys = {k1, k2}
    None = None
    MaxRestarts = 1
INVARIANTS
    ReplaysAgree
    AcknowledgedIsStored
    RefundMarksOriginal
SYMMETRY MCSymmetry
CHECK_DEADLOCK FALSE
