SPECIFICATION Spec
CONSTANTS
    Calls = {1, 2}
    Endpoints = 2
    Burst = 1
    Backoff = 1
    BackoffMax = 2
INVARIANTS
    NeverSentNeverLeft
