------------------------------- MODULE Reports -------------------------------
(***************************************************************************)
(* The administrators' reports (modules/reports/routes.ts) and the figures *)
(* the report page draws from them (apps/admin/src/routes/reports.tsx).    *)
(* Each report is one query over the rows of bookings at one instant t,    *)
(* with the hours, holidays and rooms of that instant.  A booking here is  *)
(* [room, from, to, status, by]; hours are kept as minutes, unrounded.     *)
(***************************************************************************)
EXTENDS Window, FiniteSetsExt

CONSTANTS
    MonthLen,   \* days of a month
    HourLen,    \* minutes of an hour
    MaxSpan     \* MAX_SPAN_DAYS

ASSUME ReportsAssumption == {MonthLen, HourLen, MaxSpan} \subseteq Nat \ {0}

AllRooms == "all rooms"
AllTime  == -1              \* the period of a row that is not grouped by month

\* A query is [from, to, room, by]: rangeSchema, which the page applies before it asks.
Answerable(q) == q.from <= q.to /\ q.to - q.from + 1 <= MaxSpan
Scope(q) == {r \in Rooms : q.room \in {AllRooms, r}}

\* IN_RANGE: the bookings of the scope that start on one of the days.
InRange(q, bookings) ==
    {b \in bookings : /\ b.room \in Scope(q)
                      /\ Instant(q.from, 0) <= b.from /\ b.from < Instant(q.to + 1, 0)}
Period(q, d) == IF q.by = "month" THEN d \div MonthLen ELSE AllTime
Length(b) == b.to - b.from
With(bookings, statuses) == {b \in bookings : b.status \in statuses}
Total(S) == MapThenSumSet(Length, S)

(***************************************************************************)
(* Utilization.  The windows a room could be used in: one for each open    *)
(* day, from the creation of the room, and up to now.                      *)
(***************************************************************************)
\* Deviation: an open day counts in full, although the room did not exist for all of it.
DayWindowUncut(rules, created, t, r, d) ==
    LET h == HoursOn(rules, d) IN
    [room |-> r, day |-> d, from |-> Instant(d, h.open), to |-> Min({Instant(d, h.close), t})]
\* bounds
DayWindow(rules, created, t, r, d) ==
    LET h == HoursOn(rules, d) IN
    [room |-> r, day |-> d, from |-> Max({Instant(d, h.open), created[r]}),
     to |-> Min({Instant(d, h.close), t})]
\* windows_nonempty: what the two clips leave.
Divisor(rules, created, t, q) ==
    LET days == {d \in q.from..q.to : d \notin rules.holidays /\ HoursOn(rules, d).isOpen} IN
    {w \in {DayWindow(rules, created, t, r, d) : r \in Scope(q), d \in days} : w.from < w.to}
\* b.slot * w.win
Cut(b, w) == [from |-> Max({b.from, w.from}), to |-> Min({b.to, w.to})]

\* One row for each room in scope, or for each room and month that has anything to show.
Keys(rules, created, bookings, t, q) ==
    IF q.by = "month"
    THEN {<<w.room, Period(q, w.day)>> : w \in Divisor(rules, created, t, q)} \cup
         {<<b.room, Period(q, Date(b.from))>> : b \in InRange(q, bookings)}
    ELSE {<<r, AllTime>> : r \in Scope(q)}
Used == {"COMPLETED", "CHECKED_IN"}
UtilizationRow(rules, created, bookings, t, q, key) ==
    LET windows == {w \in Divisor(rules, created, t, q) : <<w.room, Period(q, w.day)>> = key}
        here == {b \in InRange(q, bookings) : <<b.room, Period(q, Date(b.from))>> = key}
        parts == {x \in With(bookings, Used) \X windows : x[1].room = x[2].room /\ Overlap(x[1], x[2])}
    IN [key       |-> key,
        available |-> Total(windows),
        used      |-> MapThenSumSet(LAMBDA x : Length(Cut(x[1], x[2])), parts),
        booked    |-> Total(With(here, Used \cup {"CONFIRMED"})),
        completed |-> Cardinality(With(here, {"COMPLETED"})),
        cancelled |-> Cardinality(With(here, {"CANCELLED"})),
        released  |-> Cardinality(With(here, {"AUTO_RELEASED"}))]
Utilization(rules, created, bookings, t, q) ==
    {UtilizationRow(rules, created, bookings, t, q, key) : key \in Keys(rules, created, bookings, t, q)}

(***************************************************************************)
(* Outcomes by day, and their totals; the heatmap, which charges a meeting *)
(* in full to the hour it starts in.                                       *)
(***************************************************************************)
ByOwner == {"OWNER_CANCELLED"}
ByAdmin == {"ADMIN_CANCELLED", "OWNER_DISABLED"}
CancelledFor(bookings, reasons) == {b \in With(bookings, {"CANCELLED"}) : b.by \in reasons}
OutcomeDay(bookings, d) ==
    LET here == {b \in bookings : Date(b.from) = d} IN
    [date |-> d, created |-> Cardinality(here),
     completed |-> Cardinality(With(here, {"COMPLETED"})),
     byOwner |-> Cardinality(CancelledFor(here, ByOwner)),
     byAdmin |-> Cardinality(CancelledFor(here, ByAdmin)),
     released |-> Cardinality(With(here, {"AUTO_RELEASED"}))]
Outcomes(bookings, q) ==
    LET range == InRange(q, bookings) IN {OutcomeDay(range, Date(b.from)) : b \in range}
OutcomeTotal(days, field) == MapThenSumSet(LAMBDA row : row[field], days)

Cell(b) == <<Weekday(Date(b.from)), Minute(b.from) \div HourLen>>
Heatmap(bookings, q) ==
    LET range == With(InRange(q, bookings), Used) IN
    {[cell |-> c, bookings |-> Cardinality({b \in range : Cell(b) = c}),
      used |-> Total({b \in range : Cell(b) = c})] : c \in {Cell(b) : b \in range}}

(***************************************************************************)
(* The page: the sums over the rows, and the hour with the most of them.   *)
(***************************************************************************)
Sum_(rows, field) == MapThenSumSet(LAMBDA row : row[field], rows)
HourTotal(cells, h) == Sum_({x \in cells : x.cell[2] = h}, "used")
Peak(cells) ==
    {h \in {x.cell[2] : x \in cells} : \A x \in cells : HourTotal(cells, x.cell[2]) <= HourTotal(cells, h)}
=============================================================================
