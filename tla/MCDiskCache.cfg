\* Two compilers, two entries of three blocks, room for four; two seconds.
CONSTANTS
    Procs = {p1, p2}
    Keys = {1, 2}
    Artifacts <- IRAndObject
    None = None
    Blocks = 2
    MaxSize = 4
    MaxTime = 2
SPECIFICATION Spec
SYMMETRY Same
INVARIANTS TypeOK IncompleteHasWriter SizeBounded LookupIsWhole
PROPERTIES NewestIsKept
