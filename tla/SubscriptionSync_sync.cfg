SPECIFICATION Spec
CONSTANTS
    Subs = {s1, s2}
    MaxChanges = 3
    MaxFaults = 1
    MaxReads = 0
SYMMETRY Symmetry
INVARIANTS
    TypeOK
    NeverGrantedUnpaid
    DriftHasCause
    MarkerHasCause
CHECK_DEADLOCK FALSE
