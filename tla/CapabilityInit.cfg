CONSTANTS
    Routines = {g1, g2, g3}
    KernelLastCap = 40
SPECIFICATION PkgSpec
INVARIANTS
    VersionIsKnown
    ObjectSeesLimits
