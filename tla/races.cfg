\* Two requests racing for two rooms with a gap of one: creates, moves, demo shifts, check-ins, one by
\* QR code, the deactivation cascade and a room that is switched off; transactions that fail.
SPECIFICATION Spec
CONSTANTS
    u1 = u1  u2 = u2  u3 = u3  r1 = r1  r2 = r2  b1 = b1  b2 = b2  b3 = b3
    Users = {u1, u2}
    Admins = {u1}
    Rooms = {r1, r2}
    Ids = {b1, b2, b3}
    Keys = {k1}
    Requests = {q1, q2}
    NoId = none
    Ops = {"create", "patch", "demo", "checkin", "qr", "deactivate", "room", "abort"}
    Spans <- SpansGap
    GuestLists <- NoGuests
    Seed <- SeedGuest
    MaxTime = 2
    Buffer = 1  MinLead = 1  OpenBefore = 1  Grace = 1  ReminderBefore = 1
    SlotStep = 1  DbStep = 1
    AutoRelease = TRUE
SYMMETRY RequestSymmetry
INVARIANTS BufferKept DisabledOwnerHoldsNothing OneBookingPerKey
PROPERTIES NoLostEdit ImplementsCalendar NoErrorAfterCommit InactiveRoomNeverEntered
