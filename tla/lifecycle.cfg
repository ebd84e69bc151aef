\* Edits, guest lists, cancellations, check-ins and the sweep on one booking; transactions that fail.
SPECIFICATION Spec
CONSTANTS
    u1 = u1  u2 = u2  u3 = u3  r1 = r1  r2 = r2  b1 = b1  b2 = b2  b3 = b3
    Users = {u1, u2}
    Admins = {u1}
    Rooms = {r1}
    Ids = {b1}
    Keys = {k1}
    Requests = {q1, q2}
    NoId = none
    Ops = {"patch", "attendees", "cancel", "checkin", "sweep", "abort"}
    Spans <- SpansLater
    GuestLists <- Guest
    Seed <- SeedGuest
    MaxTime = 3
    Buffer = 0  MinLead = 0  OpenBefore = 1  Grace = 1  ReminderBefore = 1
    SlotStep = 1  DbStep = 1
    AutoRelease = TRUE
SYMMETRY RequestSymmetry
INVARIANTS LegalHistory CalendarsConverge
PROPERTIES CanIsHonest
