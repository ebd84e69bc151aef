\* Two workers over account mail: reissues, crashes, late settles, dead letters, the retry button.
SPECIFICATION Spec
CONSTANTS
    Rows = 2  Leftovers = 0
    Workers = {w1, w2}
    Events = {"account"}
    AttemptCap = 2  LeaseCap = 2
    MaxStart = 1  MaxCrashes = 1  MaxRetries = 1
SYMMETRY WorkerSymmetry
INVARIANTS CopiesWithinAttempts LeaseHeldByOne NewestLinkGoesOut
