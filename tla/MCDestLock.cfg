SPECIFICATION Spec
CONSTANTS
    Run = {p1, p2, p3}
    Inode = {i1, i2, i3, i4}
    None = None
    Attempts = 2
SYMMETRY RunSymmetry
INVARIANTS
    LockFileInv
    OneRunSyncs
    NothingLeftBehind
