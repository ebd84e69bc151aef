------------------------------- MODULE Picker -------------------------------
(***************************************************************************)
(* Picking a slot in the employee application: the room page, the calendar *)
(* (day and week view) and the reschedule panel, each over the rows of     *)
(* slots.ts and the SlotGrid of packages/ui, while other people book and   *)
(* time passes.  A page shows the calendar it fetched last, rendered when  *)
(* it last had a reason to render.  An administrator may ask for a report  *)
(* at any time; that only reads.                                           *)
(***************************************************************************)
EXTENDS Reports

CONSTANTS
    Dates,      \* the dates a page may show: 0..n
    Meetings,   \* what other people may book
    Own,        \* the meeting the reschedule panel moves
    RuleSets,   \* settings, hours and holidays
    Kinds,      \* "room", "day", "move": the pages checked
    ReportTimes, Creations,   \* when reports are asked for, when the rooms may have been created
    MaxNow      \* bound on the clock

\* What the schema of a policy and the constraint on the hours let through; a day closes before midnight.
SettingsSchema(r) ==
    /\ r.step \in Nat \ {0} /\ r.min \in Nat \ {0} /\ r.min % r.step = 0
    /\ r.max \in Nat /\ r.max % r.step = 0 /\ (r.max # Unlimited => r.max >= r.min)
    /\ {r.buffer, r.lead, r.advance} \subseteq Nat /\ r.buffer % r.step = 0
    /\ r.hours \in [0..(Week - 1) -> [isOpen : BOOLEAN, open : 0..(DayLen - 1), close : 0..(DayLen - 1)]]

ASSUME PickerAssumption ==
    /\ \A r \in RuleSets : SettingsSchema(r)
    /\ IsFiniteSet(Rooms) /\ IsFiniteSet(Meetings) /\ Dates \subseteq Nat /\ MaxNow \in Nat
    /\ ReportTimes \cup Creations \subseteq Int
    /\ \A m \in Meetings \cup {Own} :      \* as validateWindow lets them be
         m \in [room : Rooms, from : Int, to : Int] /\ m.from < m.to /\ Date(m.from) = Date(m.to)

VARIABLES
    now,     \* the clock, of the browser and of the server
    rules,   \* GET /settings, fetched and in force
    busy,    \* the meetings of the database
    page     \* kind, date, calendar fetched, selection, time of the last render

vars == <<now, rules, busy, page>>

NoSel == [col |-> "none", from |-> 0, to |-> 0]
Home == Own.room

(***************************************************************************)
(* slots.ts and the cells of a page.  Rows are numbered from zero.         *)
(***************************************************************************)
Shut(d) == d \in rules.holidays \/ ~HoursOn(rules, d).isOpen
Open(d) == HoursOn(rules, d).open
\* dayInfo: as many whole slots as fit before closing.
RowCount(d) == IF Shut(d) THEN 0 ELSE (HoursOn(rules, d).close - Open(d)) \div rules.step
RowStart(d, i) == Open(d) + i * rules.step

\* slotBookable, at time t.
Bookable(d, minute, t) ==
    /\ Instant(d, minute) >= Earliest(rules, t)
    /\ Instant(d, minute) <= t + rules.advance

\* blocks: the rows a meeting covers, from the row it starts in to the row it ends in.
Covers(m, d, open, i) ==
    /\ Date(m.from) = d
    /\ i >= (Minute(m.from) - open) \div rules.step
    /\ i < (Minute(m.to) - open + rules.step - 1) \div rules.step
Shown(p) == IF p.kind = "move" THEN p.seen \ {Own} ELSE p.seen
Taken(p, c, d, open, i) == \E m \in Shown(p) : m.room = c /\ Covers(m, d, open, i)

\* getCell, dayCell: a free cell that is not disabled, at time t.
Free(p, c, i, t) ==
    /\ i < RowCount(p.date) /\ ~Taken(p, c, p.date, Open(p.date), i)
    /\ Bookable(p.date, RowStart(p.date, i), t)
Span(p, c, from, to, t) == \A i \in from..(to - 1) : Free(p, c, i, t)

Columns == IF page.kind = "room" THEN {Home} ELSE Rooms
Ceiling(a) == (a + rules.step - 1) \div rules.step
MinRows == IF Ceiling(rules.min) > 1 THEN Ceiling(rules.min) ELSE 1
Fits(rows) == rules.max = Unlimited \/ rows <= rules.max \div rules.step

(***************************************************************************)
(* Rendering, and the effect after it: the room page and the calendar drop *)
(* a selection that is no longer free; the reschedule panel keeps it.      *)
(***************************************************************************)
Rendered(p, t) ==
    LET stillFree == p.kind = "move" \/ p.sel = NoSel \/ Span(p, p.sel.col, p.sel.from, p.sel.to, t)
    IN [p EXCEPT !.at = t, !.sel = IF stillFree THEN @ ELSE NoSel]
Show(p) == page' = Rendered(p, now) /\ UNCHANGED <<now, rules, busy>>
Select(sel) == Show([page EXCEPT !.sel = sel])

(***************************************************************************)
(* SlotGrid.  A handler reads the clock: the calendar page the minute clock*)
(* of its last render, the others the time of the click.                   *)
(***************************************************************************)
Clock == IF page.kind = "day" THEN page.at ELSE now

\* anchorSelection, pick: from i up to MinRows rows, as far as they are free.
Anchored(c, i) ==
    LET ends == {e \in (i + 1)..RowCount(page.date) :
                    /\ e - i <= MinRows /\ (e = i + 1 \/ Fits(e - i))
                    /\ Span(page, c, i + 1, e, Clock)}
    IN [col |-> c, from |-> i, to |-> CHOOSE e \in ends : \A f \in ends : f <= e]

\* A later tap in the same column moves the end.
Extends(c, i) ==
    /\ page.sel # NoSel /\ page.sel.col = c
    /\ i + 1 - page.sel.from >= MinRows /\ Fits(i + 1 - page.sel.from)
    /\ Span(page, c, page.sel.from, i + 1, Clock)

\* pick
Tap(c, i) ==
    /\ c \in Columns /\ Free(page, c, i, Clock)
    /\ Select(IF Extends(c, i) THEN [page.sel EXCEPT !.to = i + 1] ELSE Anchored(c, i))

\* resize(1)
Stretch ==
    /\ page.sel # NoSel /\ Fits(page.sel.to - page.sel.from + 1)
    /\ Free(page, page.sel.col, page.sel.to, Clock)
    /\ Select([page.sel EXCEPT !.to = @ + 1])

\* resize(-1)
Shrink ==
    /\ page.sel # NoSel /\ page.sel.to - page.sel.from > MinRows
    /\ Select([page.sel EXCEPT !.to = @ - 1])

\* Escape, the cancel of the panel
Clear == page.sel # NoSel /\ Select(NoSel)

(***************************************************************************)
(* The native selects and the other controls of the pages.                 *)
(***************************************************************************)
\* The start select offers the rows that were free when the page rendered.
ChooseStart(c, i) ==
    /\ c \in Columns /\ (page.sel # NoSel => c = page.sel.col)
    /\ Free(page, c, i, page.at) /\ Select(Anchored(c, i))

\* The end select offers the ends that made a valid selection when the page rendered.
ChooseEnd(i) ==
    /\ page.sel # NoSel /\ i >= page.sel.from
    /\ Span(page, page.sel.col, page.sel.from, i + 1, page.at)
    /\ (i + 1 - page.sel.from) * rules.step >= rules.min
    /\ ~TooLong(rules, (i + 1 - page.sel.from) * rules.step)
    /\ Select([page.sel EXCEPT !.to = i + 1])

\* The room select keeps a selection that is free in the other room.
SwitchRoom(c) ==
    /\ page.kind # "room" /\ page.sel # NoSel /\ c # page.sel.col
    /\ Select(IF Span(page, c, page.sel.from, page.sel.to, Clock) THEN [page.sel EXCEPT !.col = c]
              ELSE NoSel)

ChangeDate(d) == d # page.date /\ Show([page EXCEPT !.date = d, !.sel = NoSel])

(***************************************************************************)
(* The world                                                               *)
(***************************************************************************)
\* The calendar is fetched again: on focus, after a write, every 15 s it is stale.
Poll == page.seen # busy /\ Show([page EXCEPT !.seen = busy])

\* Somebody else books, moves or cancels.
Booked(m) ==
    /\ m \notin busy /\ Blocking(rules, m.room, m, busy) = {}
    /\ busy' = busy \cup {m} /\ UNCHANGED <<now, rules, page>>
Cancelled(m) == m \in busy /\ busy' = busy \ {m} /\ UNCHANGED <<now, rules, page>>

\* A minute passes; only the calendar page renders for it.
Tick ==
    /\ now < MaxNow /\ now' = now + 1
    /\ page' = IF page.kind = "day" THEN Rendered(page, now') ELSE page
    /\ UNCHANGED <<rules, busy>>

(***************************************************************************)
(* A page opens: the room page with the selection of its URL, the panel    *)
(* with the meeting it moves when that starts and ends on rows of its day. *)
(***************************************************************************)
Opened(kind) ==
    LET d == Date(Own.from)
        prefill == {s \in [col : {Home}, from : 0..DayLen, to : 0..DayLen] :
                      /\ s.from < s.to /\ s.to <= RowCount(d)
                      /\ kind = "move" => RowStart(d, s.from) = Minute(Own.from)
                                          /\ RowStart(d, s.to) = Minute(Own.to)}
    IN CASE kind = "day" -> {NoSel}
         [] kind = "move" -> IF prefill = {} THEN {NoSel} ELSE prefill
         [] OTHER -> prefill \cup {NoSel}
Init ==
    /\ now = 0 /\ rules \in RuleSets
    /\ \E k \in Kinds, b \in SUBSET {Own} :
         /\ k = "move" => b = {Own}
         /\ busy = b
         /\ \E s \in Opened(k) :
              page = Rendered([kind |-> k, date |-> Date(Own.from), seen |-> b, at |-> 0, sel |-> s], 0)

Indices == 0..(DayLen - 1)
Next ==
    \/ \E c \in Rooms, i \in Indices : Tap(c, i) \/ ChooseStart(c, i)
    \/ \E i \in Indices : ChooseEnd(i)
    \/ \E c \in Rooms : SwitchRoom(c)
    \/ \E d \in Dates : ChangeDate(d)
    \/ Stretch \/ Shrink \/ Clear
    \/ Poll \/ Tick
    \/ \E m \in Meetings : Booked(m) \/ Cancelled(m)
Spec == Init /\ [][Next]_vars

(***************************************************************************)
(* What a page offers                                                      *)
(***************************************************************************)
\* selectionValid, as of the last render.
Valid ==
    LET len == (page.sel.to - page.sel.from) * rules.step IN
    /\ page.sel # NoSel /\ page.sel.to <= RowCount(page.date)
    /\ len >= rules.min /\ ~TooLong(rules, len)
\* proceed, submit: the window sent for a selection.
Asked == [from |-> Instant(page.date, RowStart(page.date, page.sel.from)),
          to |-> Instant(page.date, RowStart(page.date, page.sel.to))]

\* The week view of one room: its rows span the widest hours of the week.
WeekDays == {d \in Dates : ~Shut(d)}
WeekOpen == CHOOSE o \in {Open(d) : d \in WeekDays} : \A d \in WeekDays : o <= Open(d)
\* Deviation: only the clicked cell has to be free.
WeekFreeCell(c, d, i) ==
    LET start == WeekOpen + i * rules.step IN
    /\ ~Shut(d) /\ start >= Open(d) /\ start + rules.step <= HoursOn(rules, d).close
    /\ HoursOn(rules, d).close - start >= rules.min
    /\ ~Taken(page, c, d, WeekOpen, i)
    /\ Bookable(d, start, page.at)
\* weekCell is free; a click on it asks for the shortest booking.
WeekFree(c, d, i) ==
    LET start == WeekOpen + i * rules.step IN
    /\ ~Shut(d) /\ start >= Open(d) /\ start + rules.step <= HoursOn(rules, d).close
    /\ HoursOn(rules, d).close - start >= rules.min
    /\ \A j \in i..(i + MinRows - 1) : ~Taken(page, c, d, WeekOpen, j)
    /\ Bookable(d, start, page.at)
WeekAsked(d, i) ==
    LET start == WeekOpen + i * rules.step IN
    [from |-> Instant(d, start), to |-> Instant(d, start + rules.min)]

\* The quick search.  Its start select, from which firstStartFor takes the first; a start brings
\* the shortest booking with it (snapEnd), after which the end select offers others.
SearchStarts(d) ==
    {s \in {RowStart(d, i) : i \in 0..(RowCount(d) - 1)} :
        Bookable(d, s, page.at) /\ HoursOn(rules, d).close - s >= rules.min}
SnapEnd(s) == s + rules.min
SearchEnds(d, s) ==
    {e \in {RowStart(d, i + 1) : i \in 0..(RowCount(d) - 1)} :
        e - s >= rules.min /\ ~TooLong(rules, e - s)}
\* submit: the windows GET /availability is asked about.
Searched(d) ==
    UNION {{[from |-> Instant(d, s), to |-> Instant(d, e)] : e \in {SnapEnd(s)} \cup SearchEnds(d, s)} :
              s \in SearchStarts(d)}

----------------------------------------------------------------------------
(* Properties *)

UpToDate == page.seen = busy /\ page.at = now
Refused(room, w) == ~Accepts(rules, room, w, now, IF page.kind = "move" THEN busy \ {Own} ELSE busy)
\* window.ts:44, "so the availability grid, the create probe and the reschedule probe can never
\* disagree about which slots are bookable": a page that shows the current calendar, rendered
\* now, offers no selection and no cell of the week that the server would refuse (the panel: no
\* selection whose cells it shows as free), and the quick search no window that is not valid.
OfferedIsAcceptedAlways ==
    UpToDate =>
        /\ Valid /\ Span(page, page.sel.col, page.sel.from, page.sel.to, page.at) =>
             ~Refused(page.sel.col, Asked)
        /\ page.kind = "day" /\ WeekDays # {} =>
             \A c \in Rooms, d \in Dates, i \in Indices :
                 WeekFree(c, d, i) => ~Refused(c, WeekAsked(d, i))
        /\ \A d \in Dates : \A w \in Searched(d) : Verdict(rules, w, now) = "ok"
\* The same where the gap between meetings is zero, its default: the pages do not know the gap.
OfferedIsAccepted == rules.buffer = 0 => OfferedIsAcceptedAlways

\* Two readings of the opening hours against their meaning minute by minute.  validateWindow: the
\* building is open through every minute of an accepted window, and a window inside open hours is
\* never refused as closed (this depends on the rules and the clock alone, so it is asked where
\* nothing is selected or booked).  The preview of a change of hours or holidays: it names a
\* meeting exactly when the meeting could not be booked under them.
OpenAt(t) == ~Shut(Date(t)) /\ Minute(t) >= Open(Date(t)) /\ Minute(t) < HoursOn(rules, Date(t)).close
Windows == {[from |-> f, to |-> f + l] : f \in now..(2 * DayLen), l \in 1..(2 * DayLen)}
MinuteByMinute ==
    /\ page.sel = NoSel /\ busy = {} =>
         \A w \in Windows : Verdict(rules, w, now) \in {"ok", "CLOSED", "HOLIDAY"} =>
             (Verdict(rules, w, now) = "ok") = (\A t \in w.from..(w.to - 1) : OpenAt(t))
    /\ \A m \in busy : Stranded(rules, m) = (\E t \in m.from..(m.to - 1) : ~OpenAt(t))

\* GET /availability calls a room available exactly when POST /bookings would accept, no
\* meeting that blocks a window still blocks one that starts at the busy_until it names, and the
\* rooms a refusal offers instead of a taken one accept the window it was about.
AvailabilityHonest ==
    \A c \in Rooms, m \in Meetings :
        LET w == [from |-> m.from, to |-> m.to] IN
        Answers(rules, w, now) =>
            /\ (Reasons(rules, c, w, now, busy) = {}) = Accepts(rules, c, w, now, busy)
            /\ "BUSY" \in Reasons(rules, c, w, now, busy) =>
                 LET u == BusyUntil(rules, c, w, busy) IN
                 Blocking(rules, c, w, busy) \cap
                     Blocking(rules, c, [from |-> u, to |-> u + w.to - w.from], busy) = {}
            /\ Verdict(rules, w, now) = "ok" =>
                 \A r \in Alternatives(rules, w, busy) : Accepts(rules, r, w, now, busy)

(***************************************************************************)
(* The reports, on every history a calendar may have by some later time.   *)
(***************************************************************************)
Statuses(m, t) ==
    IF m \in busy THEN {"CHECKED_IN", IF m.to <= t THEN "COMPLETED" ELSE "CONFIRMED"}
    ELSE IF m.from <= t THEN {"CANCELLED", "AUTO_RELEASED"} ELSE {"CANCELLED"}
Histories(t) ==
    {[m \in Meetings |-> [room |-> m.room, from |-> m.from, to |-> m.to,
                          status |-> f[m], by |-> IF f[m] = "CANCELLED" THEN r ELSE "-"]] :
        f \in {g \in [Meetings -> UNION {Statuses(m, t) : m \in Meetings}] :
                 \A m \in Meetings : g[m] \in Statuses(m, t)},
        r \in ByOwner \cup ByAdmin}
Queries == {q \in [from : Dates, to : Dates, room : {AllRooms, Home}, by : {"month"}] : Answerable(q)}
\* The minutes the building was open to a room that existed, and those of them in a meeting.
OpenMinutes(created, q, t, r) ==
    {x \in Instant(q.from, 0)..(Instant(q.to + 1, 0) - 1) : OpenAt(x) /\ created[r] <= x /\ x < t}
MetMinutes(bookings, minutes, r) ==
    {x \in minutes : \E b \in With(bookings, Used) : b.room = r /\ b.from <= x /\ x < b.to}

\* The reports count what happened and agree with each other: the divisor and the used time of
\* a row are the minutes in question, whatever the report's instant and the room's creation cut
\* off; grouped by month or by room the sums are the same; the day rows count each booking of
\* the range, each cancellation on one side, as the utilization rows do; the heatmap holds
\* at least the time used.  (Asked once for each calendar: where a page has just opened.)
ReportsCountMinutes ==
    page.sel = NoSel /\ page.kind = "day" /\ page.seen = busy /\ now = 0 /\ page.date = Date(Own.from) =>
    \A t \in ReportTimes, q \in Queries, c \in Creations :
      \A history \in Histories(t) :
        LET created == [r \in Rooms |-> c]
            bookings == {history[m] : m \in Meetings}
            months == Utilization(rules, created, bookings, t, q)
            total == Utilization(rules, created, bookings, t, [q EXCEPT !.by = "room"])
            days == Outcomes(bookings, q)
            cells == Heatmap(bookings, q) IN
        /\ \A row \in months \cup total :
             LET here == {x \in OpenMinutes(created, q, t, row.key[1]) :
                            row.key[2] \in {AllTime, Date(x) \div MonthLen}} IN
             /\ row.available = Cardinality(here)
             /\ row.used = Cardinality(MetMinutes(bookings, here, row.key[1]))
        /\ \A field \in {"available", "used", "booked", "completed", "cancelled", "released"} :
             Sum_(months, field) = Sum_(total, field)
        /\ OutcomeTotal(days, "created") = Cardinality(InRange(q, bookings))
        /\ OutcomeTotal(days, "completed") = Sum_(total, "completed")
        /\ OutcomeTotal(days, "released") = Sum_(total, "released")
        /\ OutcomeTotal(days, "byOwner") + OutcomeTotal(days, "byAdmin") = Sum_(total, "cancelled")
        /\ Sum_(total, "used") <= Sum_(cells, "used")
        /\ Sum_(cells, "used") > 0 => Peak(cells) # {}
=============================================================================
