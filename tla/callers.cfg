\* Two slots, two titles, three presses, the last of them on the form, one act of somebody else,
\* two bookings; two calls in a window of three units, a second of two units.  Users may stop.
SPECIFICATION CallersSpec
CONSTANTS
    s1 = s1  s2 = s2  t1 = t1  t2 = t2
    Slots = {s1, s2}  Titles = {t1, t2}  FirstTitle = t1
    MaxPresses = 3  MaxChanges = 2  MaxOthers = 1  MaxRows = 2
    Keys = {k1, k2}  Map <- OneMap
    Limit = 2  Window = 3  Second = 2  Crowd = 1
    MaxNow = 6  MaxCalls = 5
CHECK_DEADLOCK FALSE
INVARIANTS NeverMoreThanLimit RetryIsServed
PROPERTIES NothingDoneIsRefused CreatedIsThisSlot ChangesWhatWasShown PageCatchesUp
