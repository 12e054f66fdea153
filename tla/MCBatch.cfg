\* Two requests, one retry, every strategy, execute and retryFailed in any order.
CONSTANTS
    N = 2
    MaxRetries = 1
    MaxCalls = 2
SPECIFICATION Spec
INVARIANTS TypeOK RetriesBounded CancelStopsExecute TrueUnlessCancelled FalseHasFailure
PROPERTIES EveryCallEnds
