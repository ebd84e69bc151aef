\* Fair scheduling: check-ins and the cascade while the sweep runs, with transactions and rounds that fail.
SPECIFICATION FairSpec
CONSTANTS
    u1 = u1  u2 = u2  u3 = u3  r1 = r1  r2 = r2  b1 = b1  b2 = b2  b3 = b3
    Users = {u1, u2}
    Admins = {u1}
    Rooms = {r1}
    Ids = {b1}
    Keys = {k1}
    Requests = {q1, q2}
    NoId = none
    Ops = {"checkin", "deactivate", "sweep", "abort"}
    Spans <- SpansNext
    GuestLists <- NoGuests
    Seed <- SeedSoon
    MaxTime = 3
    Buffer = 0  MinLead = 0  OpenBefore = 1  Grace = 1  ReminderBefore = 1
    SlotStep = 1  DbStep = 1
    AutoRelease = TRUE
PROPERTIES EventuallyOver EveryRequestAnswered
