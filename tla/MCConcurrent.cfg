\* Two callers with two requests and one share one slot, with FailFast or not.
CONSTANTS
    Callers = {"c1", "c2"}
    Size <- MCSize
    MaxConcurrent = 1
SPECIFICATION Spec
CHECK_DEADLOCK FALSE
INVARIANTS TypeOK ActiveIsExact ResultsInOrder ShortOnlyAfterFailure
PROPERTIES EveryCallEnds
