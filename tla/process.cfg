\* One request, two-unit days, one failure, shutdown or crash; the other instance sweeps too.
SPECIFICATION FairSpec
CONSTANTS
    Requests = {q1}
    SweepEvery = 1  DrainEvery = 1  Stale = 1  Day = 2  Night = 0
    Rivalry = {"booking.sweep"}
    MaxTrouble = 1
INVARIANTS PoolOutlivesWork LoopBackstopsKick WedgedIsNotReady
PROPERTIES CommittedMailLeaves
