\* An edited query is marked green.
CONSTANTS
    IDs = {p, q}
    MaxEdges = 2
    MaxPath = 3
SPECIFICATION Spec
SYMMETRY Alike
CHECK_DEADLOCK FALSE
INVARIANT GreenIsCurrent
