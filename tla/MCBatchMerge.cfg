\* retryFailed after one of two requests failed.
CONSTANTS
    N = 2
    MaxRetries = 0
    MaxCalls = 2
SPECIFICATION Spec
INVARIANTS RetryUpdatesItsOwn
