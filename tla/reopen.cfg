\* A QR check-in whose UPDATE waits for the row the sweep is releasing.
SPECIFICATION Spec
CONSTANTS
    u1 = u1  u2 = u2  u3 = u3  r1 = r1  r2 = r2  b1 = b1  b2 = b2  b3 = b3
    Users = {u1, u2}
    Admins = {u1}
    Rooms = {r1}
    Ids = {b1}
    Keys = {k1}
    Requests = {q1}
    NoId = none
    Ops = {"qr", "sweep"}
    Spans <- SpansTwo
    GuestLists <- NoGuests
    Seed <- SeedSoon
    MaxTime = 3
    Buffer = 1  MinLead = 0  OpenBefore = 1  Grace = 1  ReminderBefore = 1
    SlotStep = 1  DbStep = 1
    AutoRelease = TRUE
PROPERTIES TerminalIsFinal
