CONSTANTS
    Names = {n1, n2, n3, n4}
    Inodes = {dir, file, link}
    Dirs = {dir}
    Root = dir
    Symlinks = {link}
    IdRange = 8
    Owners = {4}
    AclIds = {0}
    Offsets <- UpAndDown
    MaxRuns = 2
    NoAcl = none
    NotSeen = notseen
SYMMETRY NamePermutations
CHECK_DEADLOCK FALSE
SPECIFICATION Spec
INVARIANTS
    TypeOK
    OwnerShiftedOnce
    SuccessIsComplete
    SetIdRestored
    UndoRestores
