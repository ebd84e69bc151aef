------------------------------- MODULE Window -------------------------------
(***************************************************************************)
(* When a room may be booked: validateWindow and its helpers (lib/window.ts*)
(* and lib/time.ts), GET /availability, and the preview of what a change   *)
(* of hours strands (settings-impact.ts).  An instant is a number of       *)
(* minutes, in units of the model, since a Bangkok midnight seen from UTC; *)
(* a meeting is a room and an interval [from, to).                         *)
(***************************************************************************)
EXTENDS Integers, Sequences, FiniteSets

CONSTANTS
    Rooms,
    DayLen,   \* minutes of a day
    Offset,   \* BANGKOK_OFFSET_MS: what is added to UTC
    Week      \* 7

ASSUME WindowAssumption ==
    /\ DayLen \in Nat \ {0} /\ Week \in Nat \ {0}
    /\ Offset \in Nat /\ Offset < DayLen

Unlimited == 0

(* bangkokParts, and its inverse bkkIso *)
Date(t) == (t + Offset) \div DayLen
Minute(t) == (t + Offset) % DayLen
Weekday(d) == d % Week
Instant(d, minute) == d * DayLen + minute - Offset

(***************************************************************************)
(* rules: step, min, max (minutes; zero when unlimited), buffer, lead,     *)
(* advance (minutes), hours (one record for each weekday), holidays        *)
(* (a set of dates).                                                       *)
(***************************************************************************)
HoursOn(rules, d) == rules.hours[Weekday(d)]
TooLong(rules, len) == rules.max # Unlimited /\ len > rules.max

\* earliestSlotStart: now + lead, rounded up to a slot boundary of the UTC clock.
Earliest(rules, now) == ((now + rules.lead + rules.step - 1) \div rules.step) * rules.step

\* Deviation: a window may end on another day.
OutsideHoursSameDay(rules, w) ==
    LET h == HoursOn(rules, Date(w.from)) IN Minute(w.from) < h.open \/ Minute(w.to) > h.close
OutsideHours(rules, w) ==
    LET h == HoursOn(rules, Date(w.from)) IN
    \/ Date(w.to) # Date(w.from) \/ Minute(w.from) < h.open \/ Minute(w.to) > h.close

\* The checks of validateWindow in their order.
Checks(rules, w, now) ==
    << <<"VALIDATION_FAILED", w.to <= w.from>>,
       <<"IN_PAST",           w.from < Earliest(rules, now)>>,
       <<"MIN_DURATION",      w.to - w.from < rules.min>>,
       <<"MAX_DURATION",      TooLong(rules, w.to - w.from)>>,
       <<"SLOT_INCREMENT",    (w.to - w.from) % rules.step # 0>>,
       <<"MAX_ADVANCE",       w.from > now + rules.advance>>,
       <<"CLOSED",            ~HoursOn(rules, Date(w.from)).isOpen>>,
       <<"HOLIDAY",           Date(w.from) \in rules.holidays>>,
       <<"CLOSED",            OutsideHours(rules, w)>> >>
Verdict(rules, w, now) ==
    LET failed == {i \in 1..9 : Checks(rules, w, now)[i][2]} IN
    IF failed = {} THEN "ok"
    ELSE Checks(rules, w, now)[CHOOSE i \in failed : \A j \in failed : i <= j][1]

Hard == {"VALIDATION_FAILED", "IN_PAST", "MIN_DURATION", "MAX_DURATION", "SLOT_INCREMENT", "MAX_ADVANCE"}

(* Occupancy *)
Overlap(m, w) == m.from < w.to /\ w.from < m.to
\* occupancyRange: the window and the gap on both sides.
Widened(rules, w) == [from |-> w.from - rules.buffer, to |-> w.to + rules.buffer]
Blocking(rules, room, w, busy) == {m \in busy : m.room = room /\ Overlap(m, Widened(rules, w))}

\* POST /bookings creates the meeting (the checks that depend on the window).
Accepts(rules, room, w, now, busy) ==
    Verdict(rules, w, now) = "ok" /\ Blocking(rules, room, w, busy) = {}

\* Deviation: without the gap after the blocking meeting.
BusyUntilEnd(rules, room, w, busy) ==
    CHOOSE t \in {m.to : m \in Blocking(rules, room, w, busy)} :
        \A m \in Blocking(rules, room, w, busy) : m.to <= t
\* busy_until: when the last of the blocking meetings ends, and the gap after it.
BusyUntil(rules, room, w, busy) ==
    rules.buffer + (CHOOSE t \in {m.to : m \in Blocking(rules, room, w, busy)} :
                        \A m \in Blocking(rules, room, w, busy) : m.to <= t)
\* reasons of GET /availability for a room, when the request names no headcount and no feature.
Reasons(rules, room, w, now, busy) ==
    (IF Verdict(rules, w, now) = "ok" THEN {} ELSE {Verdict(rules, w, now)}) \cup
    (IF Blocking(rules, room, w, busy) = {} THEN {} ELSE {"BUSY"})
Answers(rules, w, now) == Verdict(rules, w, now) \notin Hard

\* slotUnavailableError: the rooms a refused POST or PATCH is pointed to.
Alternatives(rules, w, busy) == {r \in Rooms : Blocking(rules, r, w, busy) = {}}

\* bookingsOutsideHours: the meetings a draft of hours and holidays leaves outside.
Stranded(rules, m) ==
    LET h == HoursOn(rules, Date(m.from)) IN
    \/ Date(m.from) \in rules.holidays \/ ~h.isOpen
    \/ Minute(m.from) < h.open \/ Minute(m.to) > h.close
=============================================================================
