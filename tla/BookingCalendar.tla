---------------------------- MODULE BookingCalendar ----------------------------
(* The transactions of BookingTx implement the calendar of rooms: the rows are its entries, *)
(* and everything a request does before its commit is invisible in it.                      *)
EXTENDS BookingTx

Phase(s) == IF s = "NONE" THEN "free" ELSE IF s \in Live THEN "held" ELSE "over"

Calendar == INSTANCE RoomCalendar WITH
    Gap   <- Buffer,
    phase <- [i \in Ids |-> Phase(booking[i].status)],
    slot  <- [i \in Ids |-> IF Holds(i) THEN booking[i].slot ELSE NoSlot]

\* Every behaviour of the transactions is a behaviour of the calendar: windows are taken, moved
\* and given up atomically, with the gap kept at every moment, and nothing is ever reopened.
ImplementsCalendar == Calendar!Spec
=============================================================================
