\* Every graph of three queries with up to three dependencies.
CONSTANTS
    IDs = {p, q, r}
    MaxEdges = 3
    MaxPath = 4
SPECIFICATION Spec
SYMMETRY Alike
CHECK_DEADLOCK FALSE
INVARIANTS TypeOK DependentsExact CycleExact MarksAreRight
