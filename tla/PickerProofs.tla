---------------------------- MODULE PickerProofs ----------------------------
(***************************************************************************)
(* What the pages, GET /availability and the preview of the settings say   *)
(* of a window is what the server decides, for every value of the          *)
(* constants: all settings the schema lets through, all days and offsets,  *)
(* any meetings.                                                           *)
(*                                                                         *)
(* Each property follows from the type of the state (PickerType): what has *)
(* to be shown is that two computations of one thing agree, rows counted   *)
(* from the opening of a day, dates and minutes cut out of an instant, and *)
(* the instants themselves.  ReportsCountMinutes takes two things more:    *)
(* the meetings of a room are apart (NoClash), and the function that adds  *)
(* up parts one by one gives the number of what they join to (AddsCount:   *)
(* there is no least set where it would not).                              *)
(***************************************************************************)
EXTENDS Picker, FiniteSetTheorems, WellFoundedInduction, TLAPS

----------------------------------------------------------------------------
(* Division *)

\* Multiples of b are at least b apart.
LEMMA Times ==
    ASSUME NEW b \in Nat \ {0}, NEW x \in Int, NEW y \in Int, x < y
    PROVE  b * x + b <= b * y
<1>1. PICK k \in Nat \ {0} : y = x + k
  <2>1. y - x \in Nat \ {0} /\ y = x + (y - x)
    OBVIOUS
  <2>2. QED
    BY <2>1
<1>2. b * y = b * x + b * k
  BY <1>1
<1>3. b * k >= b
  OBVIOUS
<1>4. QED
  BY <1>2, <1>3

\* Multiples keep their order.
LEMMA TimesUp ==
    ASSUME NEW b \in Nat \ {0}, NEW x \in Int, NEW y \in Int, x <= y
    PROVE  b * x <= b * y
<1>1. x < y => b * x + b <= b * y
  BY Times
<1>2. b * x \in Int /\ b * y \in Int
  OBVIOUS
<1>3. QED
  BY <1>1, <1>2

\* What the division of the provers gives.
LEMMA DivMod ==
    ASSUME NEW a \in Int, NEW b \in Nat \ {0}
    PROVE  a \div b \in Int /\ a % b \in 0..(b - 1) /\ a = b * (a \div b) + (a % b)
BY SMT

\* Quotient and remainder are determined.
LEMMA DivModOf ==
    ASSUME NEW b \in Nat \ {0}, NEW q \in Int, NEW r \in 0..(b - 1), NEW a, a = b * q + r
    PROVE  a \div b = q /\ a % b = r
<1>1. a \in Int
  OBVIOUS
<1>2. PICK p \in Int, s \in 0..(b - 1) : p = a \div b /\ s = a % b /\ a = b * p + s
  BY <1>1, DivMod
<1>3. ~(p < q) /\ ~(q < p)
  <2>1. p < q => b * p + b <= b * q
    BY Times
  <2>2. q < p => b * q + b <= b * p
    BY Times
  <2>3. b * p \in Int /\ b * q \in Int
    OBVIOUS
  <2>4. QED
    BY <1>2, <2>1, <2>2, <2>3
<1>4. QED
  BY <1>2, <1>3

\* A quotient against a multiple of the divisor.
LEMMA DivAtLeast ==
    ASSUME NEW b \in Nat \ {0}, NEW a \in Int, NEW q \in Int, b * q <= a
    PROVE  q <= a \div b
<1>1. PICK p \in Int, r \in 0..(b - 1) : p = a \div b /\ a = b * p + r
  <2>1. a \div b \in Int /\ a % b \in 0..(b - 1) /\ a = b * (a \div b) + (a % b)
    BY DivMod
  <2>2. QED
    BY <2>1
<1>2. p < q => b * p + b <= b * q
  BY Times
<1>3. b * p \in Int /\ b * q \in Int
  OBVIOUS
<1>4. ~(p < q)
  BY <1>1, <1>2, <1>3
<1>5. QED
  BY <1>1, <1>4

\* A quotient is below q when b times q is above.
LEMMA DivBelow ==
    ASSUME NEW b \in Nat \ {0}, NEW a \in Int, NEW q \in Int, a < b * q
    PROVE  a \div b < q
<1>1. PICK p \in Int, r \in 0..(b - 1) : p = a \div b /\ a = b * p + r
  <2>1. a \div b \in Int /\ a % b \in 0..(b - 1) /\ a = b * (a \div b) + (a % b)
    BY DivMod
  <2>2. QED
    BY <2>1
<1>2. q <= p => b * q <= b * p
  BY TimesUp
<1>3. b * p \in Int /\ b * q \in Int
  OBVIOUS
<1>4. ~(q <= p)
  BY <1>1, <1>2, <1>3
<1>5. QED
  BY <1>1, <1>4

----------------------------------------------------------------------------
(* Largest and least members *)

\* A finite set of integers has a largest member.
LEMMA Largest ==
    ASSUME NEW S, S \subseteq Int, IsFiniteSet(S), S # {}
    PROVE  \E s \in S : \A r \in S : r <= s
<1> DEFINE After(s) == {r \in S : r > s}
           T == {After(s) : s \in S}
<1>1. IsWellFoundedOn(StrictSubsetOrdering(S), SUBSET S)
  <2>1. FiniteSubsetsOf(S) = SUBSET S
    BY FS_FiniteSubsetsOfFinite
  <2>2. IsWellFoundedOn(StrictSubsetOrdering(S), FiniteSubsetsOf(S))
    BY FS_StrictSubsetOrderingWellFounded
  <2>3. QED
    BY <2>1, <2>2
<1>2. T \subseteq SUBSET S /\ T # {}
  OBVIOUS
<1> HIDE DEF T
<1>3. PICK x \in T : \A y \in T : <<y, x>> \notin StrictSubsetOrdering(S)
  BY <1>1, <1>2, WFMin
<1>4. PICK s \in S : x = After(s)
  BY DEF T
<1>5. ASSUME NEW r \in S, r > s PROVE FALSE
  <2>1. r \in Int /\ s \in Int
    OBVIOUS
  <2>2. After(r) \subseteq After(s) /\ r \in After(s) /\ r \notin After(r)
    <3>1. ASSUME NEW q \in S, q > r PROVE q > s
      <4>1. q \in Int
        OBVIOUS
      <4>2. QED
        BY <1>5, <2>1, <3>1, <4>1
    <3>2. r \in After(s) /\ r \notin After(r)
      BY <1>5, <2>1
    <3>3. QED
      BY <3>1, <3>2
  <2>3. /\ {q \in S : q > r} \in {{q \in S : q > p} : p \in S}
        /\ After(r) \in SUBSET S /\ After(s) \in SUBSET S
    OBVIOUS
  <2>3a. After(r) \in T
    BY <2>3 DEF T
  <2> HIDE DEF After
  <2>4. <<After(r), x>> \in StrictSubsetOrdering(S)
    BY <1>4, <2>2, <2>3 DEF StrictSubsetOrdering
  <2>5. QED
    BY <1>3, <2>3a, <2>4
<1>6. QED
  BY <1>5

\* A set of natural numbers has a least one.
LEMMA Least ==
    ASSUME NEW S, S \subseteq Nat, S # {}
    PROVE  \E s \in S : \A r \in S : s <= r
<1>1. PICK s \in S : \A r \in S : <<r, s>> \notin OpToRel(<, Nat)
  BY NatLessThanWellFounded, WFMin
<1>2. \A r \in S : ~(r < s)
  BY <1>1 DEF OpToRel
<1>3. QED
  BY <1>2

----------------------------------------------------------------------------
(* Dates, minutes, settings and meetings *)

\* An instant is its date and its minute.
LEMMA Parts ==
    ASSUME NEW t \in Int
    PROVE  Date(t) \in Int /\ Minute(t) \in 0..(DayLen - 1) /\ t = DayLen * Date(t) + Minute(t) - Offset
<1>1. t + Offset \in Int /\ DayLen \in Nat \ {0} /\ Offset \in Int
  BY WindowAssumption
<1>2. PICK a \in Int : a = t + Offset
  BY <1>1
<1>3. a \div DayLen \in Int /\ a % DayLen \in 0..(DayLen - 1) /\ a = DayLen * (a \div DayLen) + (a % DayLen)
  BY <1>1, DivMod
<1>4. Date(t) = a \div DayLen /\ Minute(t) = a % DayLen
  BY <1>2 DEF Date, Minute
<1>5. QED
  BY <1>1, <1>2, <1>3, <1>4

\* Instant undoes Date and Minute.
LEMMA PartsOf ==
    ASSUME NEW d \in Int, NEW n \in 0..(DayLen - 1)
    PROVE  Instant(d, n) \in Int /\ Date(Instant(d, n)) = d /\ Minute(Instant(d, n)) = n
<1>1. DayLen \in Nat \ {0} /\ Offset \in Int /\ n \in Int
  BY WindowAssumption
<1>2. Instant(d, n) \in Int /\ Instant(d, n) + Offset = DayLen * d + n
  BY <1>1 DEF Instant
<1>3. PICK a : a = Instant(d, n) + Offset
  OBVIOUS
<1>4. a \div DayLen = d /\ a % DayLen = n
  BY <1>1, <1>2, <1>3, DivModOf
<1>5. QED
  BY <1>2, <1>3, <1>4 DEF Date, Minute

\* Dates do not go back, and within a date minutes count the time.
LEMMA InOrder ==
    ASSUME NEW t \in Int, NEW u \in Int, t <= u
    PROVE  Date(t) <= Date(u) /\ (Date(t) = Date(u) => Minute(u) - Minute(t) = u - t)
<1>1. /\ Date(t) \in Int /\ Minute(t) \in 0..(DayLen - 1) /\ t = DayLen * Date(t) + Minute(t) - Offset
      /\ Date(u) \in Int /\ Minute(u) \in 0..(DayLen - 1) /\ u = DayLen * Date(u) + Minute(u) - Offset
      /\ DayLen \in Nat \ {0} /\ Offset \in Int
  BY Parts, WindowAssumption
<1>2. PICK a \in Int, b \in Int, m \in 0..(DayLen - 1), n \in 0..(DayLen - 1) :
          /\ a = Date(t) /\ m = Minute(t) /\ t = DayLen * a + m - Offset
          /\ b = Date(u) /\ n = Minute(u) /\ u = DayLen * b + n - Offset
  BY <1>1
<1>3. ~(b < a)
  <2>1. b < a => DayLen * b + DayLen <= DayLen * a
    BY <1>1, Times
  <2>2. DayLen * a \in Int /\ DayLen * b \in Int
    BY <1>1
  <2>3. QED
    BY <1>1, <1>2, <2>1, <2>2
<1>4. a = b => n - m = u - t
  BY <1>1, <1>2
<1>5. QED
  BY <1>2, <1>3, <1>4

\* The settings, and the hours of any date.
LEMMA Schema ==
    ASSUME rules \in RuleSets
    PROVE  /\ rules.step \in Nat \ {0} /\ rules.min \in Nat \ {0} /\ rules.min % rules.step = 0
           /\ rules.max \in Nat /\ (rules.max # Unlimited => rules.max >= rules.min)
           /\ rules.buffer \in Nat /\ rules.lead \in Nat /\ rules.advance \in Nat
           /\ \A d \in Int : /\ HoursOn(rules, d).open \in 0..(DayLen - 1)
                             /\ HoursOn(rules, d).close \in 0..(DayLen - 1)
                             /\ HoursOn(rules, d).isOpen \in BOOLEAN
<1>1. SettingsSchema(rules)
  BY PickerAssumption
<1>2. \A d \in Int : Weekday(d) \in 0..(Week - 1)
  BY DivMod, WindowAssumption DEF Weekday
<1>3. ASSUME NEW d \in Int
      PROVE  HoursOn(rules, d) \in [isOpen : BOOLEAN, open : 0..(DayLen - 1), close : 0..(DayLen - 1)]
  BY <1>1, <1>2, <1>3 DEF SettingsSchema, HoursOn
<1>4. QED
  BY <1>1, <1>3 DEF SettingsSchema

AnyMeeting == Meetings \cup {Own}

\* The fields of a meeting and of a page.
LEMMA MeetingFacts ==
    ASSUME NEW m \in AnyMeeting
    PROVE  m.room \in Rooms /\ m.from \in Int /\ m.to \in Int /\ m.from < m.to /\ Date(m.from) = Date(m.to)
BY PickerAssumption DEF AnyMeeting

----------------------------------------------------------------------------
(* Verdicts *)

\* A verdict is that of the first check that fails.
LEMMA VerdictFacts ==
    ASSUME NEW rs, NEW w, NEW t
    PROVE  /\ Verdict(rs, w, t) = "ok" <=> \A i \in 1..9 : ~Checks(rs, w, t)[i][2]
           /\ Verdict(rs, w, t) \in {"CLOSED", "HOLIDAY"} => \A i \in 1..6 : ~Checks(rs, w, t)[i][2]
<1> DEFINE c == Checks(rs, w, t)
           failed == {i \in 1..9 : c[i][2]}
<1>1. /\ c[1][1] = "VALIDATION_FAILED" /\ c[2][1] = "IN_PAST"
      /\ c[3][1] = "MIN_DURATION" /\ c[4][1] = "MAX_DURATION"
      /\ c[5][1] = "SLOT_INCREMENT" /\ c[6][1] = "MAX_ADVANCE" /\ c[7][1] = "CLOSED"
      /\ c[8][1] = "HOLIDAY" /\ c[9][1] = "CLOSED"
  BY DEF Checks
<1>2. Verdict(rs, w, t) = IF failed = {} THEN "ok" ELSE c[CHOOSE i \in failed : \A j \in failed : i <= j][1]
  BY DEF Verdict
<1> HIDE DEF c
<1>3. failed = {} <=> \A i \in 1..9 : ~c[i][2]
  OBVIOUS
<1>4. failed # {} =>
        /\ Verdict(rs, w, t) # "ok"
        /\ Verdict(rs, w, t) \in {"CLOSED", "HOLIDAY"} => \A i \in 1..6 : ~c[i][2]
  <2> SUFFICES ASSUME failed # {}
               PROVE  /\ Verdict(rs, w, t) # "ok"
                      /\ Verdict(rs, w, t) \in {"CLOSED", "HOLIDAY"} => \A i \in 1..6 : ~c[i][2]
    OBVIOUS
  <2>1. \E i \in failed : \A j \in failed : i <= j
    OBVIOUS
  <2>2. PICK k \in failed : k = (CHOOSE i \in failed : \A j \in failed : i <= j) /\ \A j \in failed : k <= j
    BY <2>1
  <2>3. Verdict(rs, w, t) = c[k][1]
    BY <1>2, <2>2
  <2>4. k \in 1..6 => c[k][1] \notin {"CLOSED", "HOLIDAY", "ok"}
    BY <1>1
  <2>5. k \in 7..9 => c[k][1] # "ok"
    BY <1>1
  <2>6. k \in 1..9
    BY <2>2
  <2>7. k \in 7..9 => \A i \in 1..6 : ~c[i][2]
    BY <2>2
  <2>8. QED
    BY <2>3, <2>4, <2>5, <2>6, <2>7
<1>5. QED
  <2>1. failed = {} => Verdict(rs, w, t) = "ok"
    BY <1>2
  <2>2. (Verdict(rs, w, t) = "ok" <=> \A i \in 1..9 : ~c[i][2])
        /\ (Verdict(rs, w, t) \in {"CLOSED", "HOLIDAY"} => \A i \in 1..6 : ~c[i][2])
    BY <1>3, <1>4, <2>1
  <2>3. QED
    BY <2>2 DEF c

\* A verdict is not the reason of a taken room.
LEMMA VerdictNames ==
    ASSUME NEW rs, NEW w, NEW t
    PROVE  Verdict(rs, w, t) # "BUSY"
<1> DEFINE c == Checks(rs, w, t)
           failed == {i \in 1..9 : c[i][2]}
<1>1. /\ c[1][1] = "VALIDATION_FAILED" /\ c[2][1] = "IN_PAST"
      /\ c[3][1] = "MIN_DURATION" /\ c[4][1] = "MAX_DURATION"
      /\ c[5][1] = "SLOT_INCREMENT" /\ c[6][1] = "MAX_ADVANCE" /\ c[7][1] = "CLOSED"
      /\ c[8][1] = "HOLIDAY" /\ c[9][1] = "CLOSED"
  BY DEF Checks
<1>2. Verdict(rs, w, t) = IF failed = {} THEN "ok" ELSE c[CHOOSE i \in failed : \A j \in failed : i <= j][1]
  BY DEF Verdict
<1> HIDE DEF c
<1>3. CASE failed = {}
  BY <1>2, <1>3
<1>4. CASE failed # {}
  <2>1. \E i \in failed : \A j \in failed : i <= j
    BY <1>4
  <2>2. PICK k \in failed : k = (CHOOSE i \in failed : \A j \in failed : i <= j)
    BY <2>1
  <2>3. Verdict(rs, w, t) = c[k][1] /\ k \in 1..9
    BY <1>2, <1>4, <2>2
  <2>4. QED
    BY <1>1, <2>3
<1>5. QED
  BY <1>3, <1>4

\* A window of whole steps within the hours of a day passes every check of validateWindow.
LEMMA WindowOk ==
    ASSUME rules \in RuleSets, NEW d \in Int, NEW s \in Int, NEW e \in Int, NEW t \in Int, NEW w,
           w = [from |-> Instant(d, s), to |-> Instant(d, e)],
           ~Shut(d), Open(d) <= s, s < e, e <= HoursOn(rules, d).close, Bookable(d, s, t),
           rules.min <= e - s, ~TooLong(rules, e - s), (e - s) % rules.step = 0
    PROVE  Verdict(rules, w, t) = "ok"
<1>1. PICK open \in 0..(DayLen - 1), close \in 0..(DayLen - 1) :
           open = Open(d) /\ close = HoursOn(rules, d).close
  BY Schema DEF Open
<1>2. DayLen \in Nat \ {0} /\ rules.min \in Int /\ Offset \in Int
  BY Schema, WindowAssumption
<1>3. s \in 0..(DayLen - 1) /\ e \in 0..(DayLen - 1)
  BY <1>1, <1>2
<1>4. PICK f \in Int, g \in Int : /\ f = Instant(d, s) /\ Date(f) = d /\ Minute(f) = s
                                 /\ g = Instant(d, e) /\ Date(g) = d /\ Minute(g) = e
  BY <1>3, PartsOf
<1>5. g - f = e - s
  <2>1. PICK base \in Int : base = d * DayLen
    BY <1>2
  <2>2. f = base + s - Offset /\ g = base + e - Offset
    BY <1>4, <2>1 DEF Instant
  <2>3. QED
    BY <1>2, <2>1, <2>2
<1>6. w.from = f /\ w.to = g
  BY <1>4
<1>7. f >= Earliest(rules, t) /\ f <= t + rules.advance
  BY <1>4 DEF Bookable
<1>8. HoursOn(rules, d).isOpen /\ d \notin rules.holidays
  BY DEF Shut
<1> DEFINE c == Checks(rules, w, t)
<1>9. /\ c[1][2] = (g <= f) /\ c[2][2] = (f < Earliest(rules, t)) /\ c[3][2] = (e - s < rules.min)
      /\ c[4][2] = TooLong(rules, e - s) /\ c[5][2] = ((e - s) % rules.step # 0)
      /\ c[6][2] = (f > t + rules.advance) /\ c[7][2] = ~HoursOn(rules, d).isOpen
      /\ c[8][2] = (d \in rules.holidays) /\ c[9][2] = (d # d \/ s < open \/ e > close)
  BY <1>1, <1>4, <1>5, <1>6 DEF Checks, OutsideHours, Open
<1> HIDE DEF c
<1>10. ~c[1][2] /\ ~c[3][2] /\ ~c[9][2]
  <2>1. ~(g <= f) /\ ~(e - s < rules.min) /\ ~(d # d \/ s < open \/ e > close)
    BY <1>1, <1>2, <1>4, <1>5
  <2>2. QED
    BY <1>9, <2>1
<1>11. ~c[4][2] /\ ~c[5][2] /\ ~c[7][2] /\ ~c[8][2]
  BY <1>8, <1>9
<1>12. ~c[2][2] /\ ~c[6][2]
  <2>1. ~(f < Earliest(rules, t)) /\ ~(f > t + rules.advance)
    <3>1. PICK step \in Nat \ {0}, lead \in Int : step = rules.step /\ lead = rules.lead
      BY Schema
    <3>2. PICK a \in Int : a = t + lead + step - 1
      OBVIOUS
    <3>3. PICK b \in Int : b = a \div step
      BY DivMod
    <3>4. Earliest(rules, t) = b * step /\ b * step \in Int /\ t + rules.advance \in Int
      BY <3>1, <3>2, <3>3, Schema DEF Earliest
    <3>5. QED
      BY <1>4, <1>7, <3>4
  <2>2. QED
    BY <1>9, <2>1
<1>13. \A i \in 1..9 : ~c[i][2]
  <2>1. \A i \in 1..9 : i = 1 \/ i = 2 \/ i = 3 \/ i = 4 \/ i = 5 \/ i = 6 \/ i = 7 \/ i = 8 \/ i = 9
    OBVIOUS
  <2>2. QED
    BY <1>10, <1>11, <1>12, <2>1
<1>14. QED
  BY <1>13, VerdictFacts DEF c

----------------------------------------------------------------------------
(* Rows *)

\* The rows of a day end by the time it closes, and its first rows are at least MinRows.
LEMMA RowFacts ==
    ASSUME rules \in RuleSets, NEW d \in Int
    PROVE  /\ RowCount(d) \in Int /\ (Shut(d) => RowCount(d) = 0)
           /\ ~Shut(d) => Open(d) + rules.step * RowCount(d) <= HoursOn(rules, d).close
<1>1. PICK step \in Nat \ {0}, open \in 0..(DayLen - 1), close \in 0..(DayLen - 1) :
        step = rules.step /\ open = Open(d) /\ close = HoursOn(rules, d).close
  BY Schema DEF Open
<1>2. RowCount(d) = IF Shut(d) THEN 0 ELSE (close - open) \div step
  BY <1>1 DEF RowCount
<1>3. PICK span : span = close - open
  OBVIOUS
<1>4. open \in Int /\ close \in Int /\ span \in Int
  BY <1>1, <1>3, WindowAssumption
<1>5. /\ span \div step \in Int
      /\ span % step \in 0..(step - 1) /\ span = step * (span \div step) + (span % step)
  BY <1>1, <1>4, DivMod
<1>6. PICK q \in Int, r \in 0..(step - 1) : q = span \div step /\ span = step * q + r
  BY <1>5
<1>7. open + step * q <= close
  <2>1. step * q \in Int
    BY <1>1, <1>6
  <2>2. QED
    BY <1>3, <1>4, <1>6, <2>1
<1>8. QED
  BY <1>1, <1>2, <1>3, <1>6, <1>7

\* The rows of a selection, and their minutes.
LEMMA RowMinutes ==
    ASSUME rules \in RuleSets, NEW d \in Int, NEW i \in Nat, NEW j \in Nat, i < j, j <= RowCount(d)
    PROVE  /\ ~Shut(d) /\ Open(d) \in Int /\ Open(d) <= RowStart(d, i) /\ RowStart(d, i) < RowStart(d, j)
           /\ RowStart(d, j) <= HoursOn(rules, d).close
           /\ RowStart(d, i) \in 0..(DayLen - 1) /\ RowStart(d, j) \in 0..(DayLen - 1)
           /\ RowStart(d, j) = RowStart(d, i) + (j - i) * rules.step
           /\ (RowStart(d, j) - RowStart(d, i)) % rules.step = 0
<1>1. PICK step \in Nat \ {0}, open \in 0..(DayLen - 1), close \in 0..(DayLen - 1) :
        step = rules.step /\ open = Open(d) /\ close = HoursOn(rules, d).close
  BY Schema DEF Open
<1>2. PICK n \in Int : n = RowCount(d) /\ j <= n /\ ~Shut(d) /\ open + step * n <= close
  <2>1. RowCount(d) \in Int /\ ~Shut(d)
    BY RowFacts
  <2>2. QED
    BY <1>1, <2>1, RowFacts
<1>3. /\ step * j <= step * n /\ step * i + step <= step * j /\ step * 0 <= step * i
      /\ step * j \in Int /\ step * i \in Int /\ step * n \in Int /\ step * 0 = 0
  <2>1. j <= n /\ 0 <= i /\ 0 \in Int /\ i < j
    BY <1>2
  <2>2. step * j <= step * n
    BY <1>2, <2>1, TimesUp
  <2>3. step * i + step <= step * j
    BY <2>1, Times
  <2>4. step * 0 <= step * i
    BY <2>1, TimesUp
  <2>5. QED
    BY <1>1, <1>2, <2>2, <2>3, <2>4
<1>4. PICK a \in Int, b \in Int : a = step * i /\ b = step * j /\ 0 <= a /\ a < b /\ open + b <= close
  <2>1. 0 <= step * i /\ step * i < step * j /\ open + step * j <= close
    BY <1>1, <1>2, <1>3, WindowAssumption
  <2>2. QED
    BY <1>3, <2>1
<1>5. RowStart(d, i) = open + a /\ RowStart(d, j) = open + b
  <2>1. i * step = step * i /\ j * step = step * j
    BY <1>1
  <2>2. QED
    BY <1>1, <1>4, <2>1 DEF RowStart
<1>6. open + a \in 0..(DayLen - 1) /\ open + b \in 0..(DayLen - 1) /\ open \in Int
  BY <1>1, <1>4, WindowAssumption
<1>7. b = a + (j - i) * step /\ b - a = step * (j - i) + 0
  BY <1>1, <1>4
<1>8. (b - a) % step = 0
  <2>1. PICK x \in Int, y \in Int : x = b - a /\ y = j - i
    BY <1>4
  <2>2. PICK z \in 0..(step - 1) : z = 0 /\ x = step * y + z
    <3>1. 0 \in 0..(step - 1) /\ x = step * y + 0
      BY <1>1, <1>7, <2>1
    <3>2. QED
      BY <3>1
  <2>3. x % step = z
    <3>1. z \in 0..(step - 1) /\ x = step * y + z
      BY <2>2
    <3>2. QED
      BY <3>1, DivModOf
  <2>4. QED
    BY <2>1, <2>2, <2>3
<1>9. /\ open <= open + a /\ open + a < open + b /\ open + b <= close
      /\ open + b = (open + a) + (j - i) * step
      /\ (open + b) - (open + a) = b - a
  <2>1. PICK l \in Int : l = (j - i) * step
    BY <1>1
  <2>2. b = a + l
    BY <1>7, <2>1
  <2>3. open + b = (open + a) + l
    BY <1>4, <1>6, <2>1, <2>2
  <2>4. open <= open + a /\ open + a < open + b /\ (open + b) - (open + a) = b - a
    BY <1>4, <1>6
  <2>5. QED
    BY <1>4, <2>1, <2>3, <2>4
<1>10. QED
  BY <1>1, <1>2, <1>5, <1>6, <1>8, <1>9

\* The shortest selection is as long as the shortest booking.
LEMMA MinRowsFacts ==
    ASSUME rules \in RuleSets
    PROVE  MinRows \in Nat \ {0} /\ MinRows = rules.min \div rules.step /\ rules.step * MinRows = rules.min
<1>1. PICK step \in Nat \ {0}, min \in Nat \ {0} : step = rules.step /\ min = rules.min /\ min % step = 0
  BY Schema
<1>2. min \div step \in Int /\ min = step * (min \div step) + (min % step)
  BY DivMod
<1>3. PICK k \in Int : k = min \div step /\ min = step * k
  BY <1>1, <1>2
<1>4. k >= 1
  <2>1. ~(k <= 0)
    <3>1. k <= 0 => step * k <= step * 0
      BY TimesUp
    <3>2. step * k \in Int /\ step * 0 = 0
      OBVIOUS
    <3>3. QED
      BY <1>3, <3>1, <3>2
  <2>2. QED
    BY <2>1
<1>5. Ceiling(rules.min) = k
  <2>1. PICK a \in Int : a = min + step - 1
    OBVIOUS
  <2>2. a = step * k + (step - 1) /\ step - 1 \in 0..(step - 1)
    BY <1>3, <2>1
  <2>3. a \div step = k
    BY <2>2, DivModOf
  <2>4. QED
    BY <1>1, <2>1, <2>3 DEF Ceiling
<1>6. QED
  BY <1>1, <1>3, <1>4, <1>5 DEF MinRows

\* The first row of the week view.
LEMMA WeekOpenFacts ==
    ASSUME rules \in RuleSets, WeekDays # {}
    PROVE  WeekOpen \in Int
<1> DEFINE S == {Open(d) : d \in WeekDays}
<1>1. WeekDays \subseteq Int
  BY PickerAssumption DEF WeekDays
<1>2. S \subseteq Nat /\ S # {}
  <2>1. \A d \in WeekDays : Open(d) \in 0..(DayLen - 1)
    BY <1>1, Schema DEF Open
  <2>2. QED
    BY <2>1
<1>3. PICK o \in S : \A x \in S : o <= x
  <2> HIDE DEF S
  <2>1. QED
    BY <1>2, Least
<1>4. WeekOpen \in S
  <2>1. \A d \in WeekDays : o <= Open(d)
    BY <1>3
  <2>2. QED
    BY <2>1 DEF WeekOpen
<1>5. QED
  BY <1>2, <1>4

----------------------------------------------------------------------------
(* Type correctness *)

Selections == {NoSel} \cup [col : Rooms, from : Nat, to : Nat]
PageStates == [kind : Kinds, date : Int, seen : SUBSET AnyMeeting, at : Nat, sel : Selections]
PickerType == now \in Nat /\ rules \in RuleSets /\ busy \in SUBSET AnyMeeting /\ page \in PageStates

\* pick: at least the row itself can be selected.
LEMMA AnchoredFacts ==
    ASSUME PickerType, NEW c \in Rooms, NEW i \in Nat, NEW t, Free(page, c, i, t)
    PROVE  Anchored(c, i) \in Selections
<1> DEFINE ends == {e \in (i + 1)..RowCount(page.date) :
                      /\ e - i <= MinRows /\ (e = i + 1 \/ Fits(e - i))
                      /\ Span(page, c, i + 1, e, Clock)}
<1>1. page.date \in Int /\ rules \in RuleSets
  BY DEF PickerType, PageStates
<1>2. PICK n \in Int : n = RowCount(page.date) /\ i < n
  BY <1>1, RowFacts DEF Free
<1>3. i + 1 \in ends
  <2>1. Span(page, c, i + 1, i + 1, Clock)
    BY DEF Span
  <2>2. (i + 1) - i <= MinRows
    BY <1>1, MinRowsFacts
  <2>3. QED
    BY <1>2, <2>1, <2>2
<1>4. IsFiniteSet(ends) /\ ends \subseteq Int
  <2>1. IsFiniteSet((i + 1)..n)
    BY FS_Interval
  <2>2. ends \subseteq (i + 1)..n
    BY <1>2
  <2>3. QED
    BY <2>1, <2>2, FS_Subset
<1>5. PICK e \in ends : e = CHOOSE x \in ends : \A f \in ends : f <= x
  BY <1>3, <1>4, Largest
<1>6. e \in Nat
  BY <1>2, <1>5
<1>7. Anchored(c, i) = [col |-> c, from |-> i, to |-> e]
  BY <1>5 DEF Anchored
<1> HIDE DEF ends
<1>8. QED
  BY <1>6, <1>7 DEF Selections

\* Rendering keeps the type of a page.
LEMMA RenderedType ==
    ASSUME NEW p \in PageStates, NEW t \in Nat
    PROVE  Rendered(p, t) \in PageStates
BY DEF Rendered, PageStates, Selections

\* A page with another selection, date or calendar.
LEMMA PageWith ==
    ASSUME page \in PageStates
    PROVE  /\ \A sel \in Selections : [page EXCEPT !.sel = sel] \in PageStates
           /\ \A d \in Int : [page EXCEPT !.date = d, !.sel = NoSel] \in PageStates
           /\ \A b \in SUBSET AnyMeeting : [page EXCEPT !.seen = b] \in PageStates
BY DEF PageStates, Selections

\* A selection with another end or in another room.
LEMMA SelWith ==
    ASSUME PickerType, page.sel # NoSel
    PROVE  /\ page.sel \in [col : Rooms, from : Nat, to : Nat]
           /\ \A n \in Nat : [page.sel EXCEPT !.to = n] \in Selections
           /\ \A c \in Rooms : [page.sel EXCEPT !.col = c] \in Selections
<1>1. page.sel \in [col : Rooms, from : Nat, to : Nat]
  BY DEF PickerType, PageStates, Selections
<1>2. QED
  BY <1>1 DEF Selections

\* A selection of the right type keeps the type of the state.
LEMMA SelectType ==
    ASSUME PickerType, NEW sel \in Selections, Select(sel)
    PROVE  PickerType'
<1>1. [page EXCEPT !.sel = sel] \in PageStates
  BY PageWith DEF PickerType
<1>2. page' = Rendered([page EXCEPT !.sel = sel], now) /\ UNCHANGED <<now, rules, busy>>
  BY DEF Select, Show
<1>3. page' \in PageStates
  BY <1>1, <1>2, RenderedType DEF PickerType
<1>4. QED
  BY <1>2, <1>3 DEF PickerType

\* A page that opens has its type.
LEMMA PickerTypeInit == Init => PickerType
<1> SUFFICES ASSUME Init PROVE PickerType
  OBVIOUS
<1>1a. PICK k \in Kinds, b \in SUBSET {Own} :
        busy = b /\ \E s \in Opened(k) :
            page = Rendered([kind |-> k, date |-> Date(Own.from), seen |-> b, at |-> 0, sel |-> s], 0)
  BY DEF Init
<1>1. PICK s \in Opened(k) :
        busy = b /\ page = Rendered([kind |-> k, date |-> Date(Own.from), seen |-> b, at |-> 0, sel |-> s], 0)
  BY <1>1a
<1>2. Date(Own.from) \in Int /\ Home \in Rooms
  BY PickerAssumption, Parts DEF Home
<1>3. s \in Selections
  <2> DEFINE all == [col : {Home}, from : 0..DayLen, to : 0..DayLen]
  <2>1. Opened(k) \subseteq {NoSel} \cup all
    BY DEF Opened
  <2>2. all \subseteq Selections
    BY <1>2, WindowAssumption DEF Selections
  <2>3. NoSel \in Selections
    BY DEF Selections
  <2>4. QED
    BY <1>1, <2>1, <2>2, <2>3
<1>4. [kind |-> k, date |-> Date(Own.from), seen |-> b, at |-> 0, sel |-> s] \in PageStates
  BY <1>2, <1>3 DEF PageStates, AnyMeeting
<1>5. page \in PageStates
  BY <1>1, <1>4, RenderedType
<1>6. QED
  BY <1>1, <1>5 DEF Init, PickerType, AnyMeeting

\* Every action keeps the types.
LEMMA PickerTypeStep == PickerType /\ [Next]_vars => PickerType'
<1> SUFFICES ASSUME PickerType, [Next]_vars PROVE PickerType'
  OBVIOUS
<1>0. now \in Nat /\ rules \in RuleSets /\ busy \in SUBSET AnyMeeting /\ page \in PageStates
  BY DEF PickerType
<1>01. NoSel \in Selections
  BY DEF Selections
<1>1. ASSUME NEW c \in Rooms, NEW i \in Indices, Tap(c, i) PROVE PickerType'
  <2>1. i \in Nat
    BY DEF Indices
  <2>2. CASE Extends(c, i)
    <3>1. page.sel # NoSel /\ Select([page.sel EXCEPT !.to = i + 1])
      BY <1>1, <2>2 DEF Tap, Extends
    <3>2. i + 1 \in Nat
      BY <2>1
    <3>3. QED
      BY <3>1, <3>2, SelWith, SelectType
  <2>3. CASE ~Extends(c, i)
    <3>1. Free(page, c, i, Clock) /\ Select(Anchored(c, i))
      BY <1>1, <2>3 DEF Tap
    <3>2. QED
      BY <2>1, <3>1, AnchoredFacts, SelectType
  <2>4. QED
    BY <2>2, <2>3
<1>2. ASSUME NEW c \in Rooms, NEW i \in Indices, ChooseStart(c, i) PROVE PickerType'
  <2>1. i \in Nat
    BY DEF Indices
  <2>2. Free(page, c, i, page.at) /\ Select(Anchored(c, i))
    BY <1>2 DEF ChooseStart
  <2>3. QED
    BY <2>1, <2>2, AnchoredFacts, SelectType
<1>3. ASSUME NEW i \in Indices, ChooseEnd(i) PROVE PickerType'
  <2>1. i + 1 \in Nat
    BY DEF Indices
  <2>2. page.sel # NoSel /\ Select([page.sel EXCEPT !.to = i + 1])
    BY <1>3 DEF ChooseEnd
  <2>3. QED
    BY <2>1, <2>2, SelWith, SelectType
<1>4. ASSUME NEW c \in Rooms, SwitchRoom(c) PROVE PickerType'
  <2>1. page.sel # NoSel /\ (Select([page.sel EXCEPT !.col = c]) \/ Select(NoSel))
    BY <1>4 DEF SwitchRoom
  <2>2. QED
    BY <1>01, <2>1, SelWith, SelectType
<1>5. ASSUME NEW d \in Dates, ChangeDate(d) PROVE PickerType'
  <2>1. page' = Rendered([page EXCEPT !.date = d, !.sel = NoSel], now) /\ UNCHANGED <<now, rules, busy>>
    BY <1>5 DEF ChangeDate, Show
  <2>2. [page EXCEPT !.date = d, !.sel = NoSel] \in PageStates
    <3>1. d \in Int
      BY PickerAssumption
    <3>2. QED
      BY <1>0, <3>1, PageWith
  <2>3. page' \in PageStates
    BY <1>0, <2>1, <2>2, RenderedType
  <2>4. QED
    BY <1>0, <2>1, <2>3 DEF PickerType
<1>6. ASSUME Stretch PROVE PickerType'
  <2>1. page.sel # NoSel /\ Select([page.sel EXCEPT !.to = @ + 1])
    BY <1>6 DEF Stretch
  <2>2. PICK n \in Nat : n = page.sel.to + 1
    BY <2>1, SelWith
  <2>3. [page.sel EXCEPT !.to = @ + 1] = [page.sel EXCEPT !.to = n]
    BY <2>2
  <2>4. QED
    BY <2>1, <2>3, SelWith, SelectType
<1>7. ASSUME Shrink PROVE PickerType'
  <2>1. page.sel # NoSel /\ page.sel.to - page.sel.from > MinRows /\ Select([page.sel EXCEPT !.to = @ - 1])
    BY <1>7 DEF Shrink
  <2>2. PICK from \in Nat, to \in Nat : from = page.sel.from /\ to = page.sel.to
    BY <2>1, SelWith
  <2>3. PICK n \in Nat : n = page.sel.to - 1
    <3>1. to - from > MinRows /\ MinRows \in Nat
      BY <1>0, <2>1, <2>2, MinRowsFacts
    <3>2. to - 1 \in Nat
      BY <3>1
    <3>3. QED
      BY <2>2, <3>2
  <2>4. [page.sel EXCEPT !.to = @ - 1] = [page.sel EXCEPT !.to = n]
    BY <2>3
  <2>5. QED
    BY <2>1, <2>4, SelWith, SelectType
<1>8. ASSUME Clear PROVE PickerType'
  BY <1>01, <1>8, SelectType DEF Clear
<1>9. ASSUME Poll PROVE PickerType'
  <2>1. page' = Rendered([page EXCEPT !.seen = busy], now) /\ UNCHANGED <<now, rules, busy>>
    BY <1>9 DEF Poll, Show
  <2>2. [page EXCEPT !.seen = busy] \in PageStates
    BY <1>0, PageWith
  <2>3. page' \in PageStates
    BY <1>0, <2>1, <2>2, RenderedType
  <2>4. QED
    BY <1>0, <2>1, <2>3 DEF PickerType
<1>10. ASSUME Tick PROVE PickerType'
  <2>1. now' \in Nat /\ (page' = Rendered(page, now') \/ page' = page) /\ UNCHANGED <<rules, busy>>
    BY <1>0, <1>10 DEF Tick
  <2>2. page' \in PageStates
    BY <1>0, <2>1, RenderedType
  <2>3. QED
    BY <1>0, <2>1, <2>2 DEF PickerType
<1>11. ASSUME NEW m \in Meetings, Booked(m) \/ Cancelled(m) PROVE PickerType'
  BY <1>0, <1>11 DEF Booked, Cancelled, PickerType, AnyMeeting
<1>12. ASSUME UNCHANGED vars PROVE PickerType'
  BY <1>12 DEF PickerType, vars
<1>13. QED
  BY <1>1, <1>2, <1>3, <1>4, <1>5, <1>6, <1>7, <1>8, <1>9, <1>10, <1>11, <1>12 DEF Next

\* Every variable keeps its type: a selection is in a room of the system and its rows are numbers
\* from zero (pick, resize and the selects of SlotGrid never leave them), and a page has seen only
\* meetings that somebody could book.
THEOREM PickerTyped == Spec => []PickerType
BY PickerTypeInit, PickerTypeStep, PTL DEF Spec

----------------------------------------------------------------------------
(* Minute by minute *)

\* The window is on one day and within its hours.
Inside(w) == ~Shut(Date(w.from)) /\ ~OutsideHours(rules, w)

\* Inside, minute by minute.  A window that ends on a later date would contain the last minute of
\* its own, when no building is open.
LEMMA InsideIsOpen ==
    ASSUME rules \in RuleSets, NEW w, w.from \in Int, w.to \in Int, w.from < w.to
    PROVE  Inside(w) <=> \A t \in w.from..(w.to - 1) : OpenAt(t)
<1>1. PICK from \in Int, to \in Int : from = w.from /\ to = w.to /\ from < to
  OBVIOUS
<1>2. PICK d \in Int, n \in 0..(DayLen - 1) :
           d = Date(from) /\ n = Minute(from) /\ from = DayLen * d + n - Offset
  BY Parts
<1>3. PICK open \in 0..(DayLen - 1), close \in 0..(DayLen - 1) :
           open = Open(d) /\ close = HoursOn(rules, d).close
  BY Schema DEF Open
<1>4. DayLen \in Nat \ {0} /\ Offset \in Int /\ Date(to) \in Int /\ Minute(to) \in 0..(DayLen - 1)
  BY <1>1, Parts, WindowAssumption
<1>5. Inside(w) <=> ~Shut(d) /\ Date(to) = d /\ open <= n /\ Minute(to) <= close
  <2>1. Inside(w) <=> ~Shut(Date(from)) /\ ~(Date(to) # d \/ n < open \/ Minute(to) > close)
    BY <1>1, <1>2, <1>3 DEF Inside, OutsideHours, Open
  <2>2. QED
    BY <1>2, <1>4, <2>1
<1>6. ASSUME ~Shut(d), Date(to) = d, open <= n, Minute(to) <= close, NEW t \in from..(to - 1) PROVE OpenAt(t)
  <2>1. t \in Int /\ from <= t /\ t <= to /\ t < to
    BY <1>1
  <2>2. Date(t) = d
    <3>1. Date(t) \in Int /\ Date(from) <= Date(t) /\ Date(t) <= Date(to)
      BY <1>1, <2>1, InOrder, Parts
    <3>2. Date(from) = d /\ Date(to) = d /\ d \in Int
      BY <1>2, <1>6
    <3>3. QED
      BY <3>1, <3>2
  <2>3. Minute(t) \in Int /\ Minute(t) >= n /\ Minute(t) < Minute(to)
    <3>1. Minute(t) - n = t - from /\ Minute(to) - Minute(t) = to - t
      BY <1>2, <1>6, <2>1, <2>2, InOrder
    <3>2. Minute(t) \in Int
      BY <2>1, Parts
    <3>3. QED
      BY <1>4, <2>1, <3>1, <3>2
  <2>4. Minute(t) >= open /\ Minute(t) < close
    BY <1>4, <1>6, <2>3
  <2>5. QED
    BY <1>3, <1>6, <2>2, <2>4 DEF OpenAt
<1>7. ASSUME \A t \in from..(to - 1) : OpenAt(t)
      PROVE  ~Shut(d) /\ Date(to) = d /\ open <= n /\ Minute(to) <= close
  <2>1. from \in from..(to - 1) /\ to - 1 \in from..(to - 1)
    BY <1>1
  <2>2. ~Shut(d) /\ n >= open
    BY <1>2, <1>3, <1>7, <2>1 DEF OpenAt
  <2>3. Date(to) = d
    <3>1. SUFFICES ASSUME Date(to) # d PROVE FALSE
      OBVIOUS
    <3>2. Date(from) <= Date(to)
      <4>1. from \in Int /\ to \in Int /\ from <= to
        BY <1>1
      <4>2. QED
        BY <4>1, InOrder
    <3>3. PICK u \in Int : u = Instant(d, DayLen - 1) /\ Date(u) = d /\ Minute(u) = DayLen - 1
      <4>1. DayLen - 1 \in 0..(DayLen - 1)
        <5>1. DayLen \in Nat \ {0}
          BY <1>4
        <5>2. QED
          BY <5>1
      <4>2. QED
        BY <1>2, <4>1, PartsOf
    <3>4. from <= u
      <4>1. PICK base \in Int : base = d * DayLen /\ base = DayLen * d
        <5>1. d \in Int /\ DayLen \in Int
          BY <1>2, <1>4
        <5>2. QED
          BY <5>1
      <4>2. u = base + (DayLen - 1) - Offset
        BY <3>3, <4>1 DEF Instant
      <4>3. from = base + n - Offset
        BY <1>2, <4>1
      <4>4. base \in Int /\ n \in 0..(DayLen - 1) /\ DayLen \in Nat \ {0} /\ Offset \in Int
        BY <1>2, <1>4, <4>1
      <4>5. QED
        BY <4>2, <4>3, <4>4
    <3>5. ~(to <= u)
      <4>1. to <= u => Date(to) <= Date(u)
        BY <1>1, <3>3, InOrder
      <4>2. Date(from) = d /\ Date(u) = d /\ Date(to) \in Int /\ d \in Int
        BY <1>2, <1>4, <3>3
      <4>3. QED
        BY <3>1, <3>2, <4>1, <4>2
    <3>6. OpenAt(u)
      BY <1>7, <3>4, <3>5
    <3>7. DayLen - 1 < close
      BY <1>3, <3>3, <3>6 DEF OpenAt
    <3>8. QED
      BY <1>4, <3>7
  <2>4. Minute(to) <= close
    <3>1. PICK v \in Int : v = to - 1
      OBVIOUS
    <3>2. Date(v) = d
      <4>1. Date(v) \in Int /\ Date(from) <= Date(v) /\ Date(v) <= Date(to)
        <5>1. from <= v /\ v <= to /\ v \in Int /\ from \in Int /\ to \in Int
          BY <1>1, <3>1
        <5>2. QED
          BY <5>1, InOrder, Parts
      <4>2. Date(from) = d /\ d \in Int
        BY <1>2
      <4>3. QED
        BY <2>3, <4>1, <4>2
    <3>3. Minute(to) - Minute(v) = to - v
      BY <2>3, <3>1, <3>2, InOrder
    <3>4. Minute(v) < close /\ Minute(v) \in Int
      BY <1>3, <1>7, <2>1, <3>1, <3>2, Parts DEF OpenAt
    <3>5. QED
      BY <1>4, <3>1, <3>3, <3>4
  <2>5. QED
    BY <2>2, <2>3, <2>4
<1>8. QED
  BY <1>1, <1>5, <1>6, <1>7

\* validateWindow, once its other checks have passed, asks whether the window is inside.
LEMMA VerdictOpen ==
    ASSUME rules \in RuleSets, NEW w, w.from \in Int, w.to \in Int, NEW t \in Int,
           Verdict(rules, w, t) \in {"ok", "CLOSED", "HOLIDAY"}
    PROVE  w.from < w.to /\ (Verdict(rules, w, t) = "ok" <=> Inside(w))
<1> DEFINE c == Checks(rules, w, t)
<1>1. /\ c[1][2] = (w.to <= w.from) /\ c[7][2] = ~HoursOn(rules, Date(w.from)).isOpen
      /\ c[8][2] = (Date(w.from) \in rules.holidays) /\ c[9][2] = OutsideHours(rules, w)
  BY DEF Checks
<1> HIDE DEF c
<1>2. \A i \in 1..6 : ~c[i][2]
  BY VerdictFacts DEF c
<1>3. w.from < w.to
  <2>1. ~c[1][2]
    BY <1>2
  <2>2. ~(w.to <= w.from)
    BY <1>1, <2>1, Zenon
  <2>3. QED
    BY <2>2
<1>4. Verdict(rules, w, t) = "ok" <=> ~c[7][2] /\ ~c[8][2] /\ ~c[9][2]
  <2>1. Verdict(rules, w, t) = "ok" <=> \A i \in 1..9 : ~c[i][2]
    BY VerdictFacts DEF c
  <2>2. \A i \in 1..9 : i \in 1..6 \/ i = 7 \/ i = 8 \/ i = 9
    OBVIOUS
  <2>3. QED
    BY <1>2, <2>1, <2>2
<1>5. QED
  BY <1>1, <1>3, <1>4 DEF Inside, Shut

\* A meeting is stranded when it is not inside.
LEMMA StrandedFacts ==
    ASSUME NEW m \in AnyMeeting
    PROVE  Stranded(rules, m) <=> ~Inside(m)
BY MeetingFacts DEF Stranded, Inside, Shut, OutsideHours

\* The property in a state of the right type.
LEMMA MinuteByMinuteState == PickerType => MinuteByMinute
<1> SUFFICES ASSUME PickerType PROVE MinuteByMinute
  OBVIOUS
<1>0. now \in Nat /\ rules \in RuleSets /\ busy \in SUBSET AnyMeeting
  BY DEF PickerType
<1>1. ASSUME NEW w \in Windows, Verdict(rules, w, now) \in {"ok", "CLOSED", "HOLIDAY"}
      PROVE  (Verdict(rules, w, now) = "ok") = (\A t \in w.from..(w.to - 1) : OpenAt(t))
  <2>1. w.from \in Int /\ w.to \in Int
    <3>1. PICK f \in now..(2 * DayLen), l \in 1..(2 * DayLen) : w = [from |-> f, to |-> f + l]
      BY DEF Windows
    <3>2. f \in Int /\ f + l \in Int
      BY <1>0, WindowAssumption
    <3>3. QED
      BY <3>1, <3>2
  <2>2. w.from < w.to /\ (Verdict(rules, w, now) = "ok" <=> Inside(w))
    BY <1>0, <1>1, <2>1, VerdictOpen
  <2>3. Inside(w) <=> \A t \in w.from..(w.to - 1) : OpenAt(t)
    BY <1>0, <2>1, <2>2, InsideIsOpen
  <2>4. QED
    BY <2>2, <2>3
<1>2. ASSUME NEW m \in busy
      PROVE  Stranded(rules, m) = (\E t \in m.from..(m.to - 1) : ~OpenAt(t))
  <2>1. m \in AnyMeeting
    BY <1>0
  <2>2. m.from \in Int /\ m.to \in Int /\ m.from < m.to
    BY <2>1, MeetingFacts
  <2>3. Inside(m) <=> \A t \in m.from..(m.to - 1) : OpenAt(t)
    BY <1>0, <2>2, InsideIsOpen
  <2>4. Stranded(rules, m) <=> ~Inside(m)
    BY <2>1, StrandedFacts
  <2>5. Stranded(rules, m) \in BOOLEAN
    BY DEF Stranded
  <2>6. QED
    BY <2>3, <2>4, <2>5
<1>3. QED
  BY <1>1, <1>2 DEF MinuteByMinute

\* validateWindow accepts a window that passes its other checks exactly when the building is open
\* through every minute of it, and the preview of a change of hours names a meeting exactly when
\* the building would be closed in one of its minutes (window.ts, settings-impact.ts).
THEOREM MinutesDecide == Spec => []MinuteByMinute
<1>1. PickerType => MinuteByMinute
  BY MinuteByMinuteState
<1>2. QED
  BY <1>1, PickerTyped, PTL

----------------------------------------------------------------------------
(* Availability *)

\* busy_until lies a gap after the end of every blocking meeting.
LEMMA BusyUntilFacts ==
    ASSUME PickerType, NEW c, NEW w, Blocking(rules, c, w, busy) # {}
    PROVE  \E t \in Int : BusyUntil(rules, c, w, busy) = rules.buffer + t
                          /\ \A m \in Blocking(rules, c, w, busy) : m.to <= t
<1> DEFINE B == Blocking(rules, c, w, busy)
           Ends == {m.to : m \in B}
<1>1. B \subseteq AnyMeeting /\ B # {}
  BY DEF Blocking, PickerType
<1>2. IsFiniteSet(B)
  <2>1. IsFiniteSet(AnyMeeting)
    BY PickerAssumption, FS_AddElement DEF AnyMeeting
  <2>2. QED
    BY <1>1, <2>1, FS_Subset
<1>3. BusyUntil(rules, c, w, busy) = rules.buffer + (CHOOSE t \in Ends : \A m \in B : m.to <= t)
  BY DEF BusyUntil
<1> HIDE DEF B
<1>4. IsFiniteSet(Ends) /\ Ends # {}
  <2> DEFINE f == [m \in B |-> m.to]
  <2>1. f \in Surjection(B, Ends)
    BY DEF Surjection
  <2>2. QED
    BY <1>1, <1>2, <2>1, FS_Surjection
<1>5. Ends \subseteq Int
  BY <1>1, MeetingFacts
<1>6. \E t \in Ends : \A m \in B : m.to <= t
  <2>1. \E t \in Ends : \A e \in Ends : e <= t
    <3> HIDE DEF Ends
    <3>1. QED
      BY <1>4, <1>5, Largest
  <2>2. QED
    BY <2>1
<1>7. PICK t \in Ends : t = (CHOOSE x \in Ends : \A m \in B : m.to <= x) /\ \A m \in B : m.to <= t
  BY <1>6
<1>8. QED
  BY <1>3, <1>5, <1>7 DEF B

\* The property in a state of the right type.
LEMMA AvailabilityHonestState == PickerType => AvailabilityHonest
<1> SUFFICES ASSUME PickerType, NEW c \in Rooms, NEW m \in Meetings,
                    NEW w, w = [from |-> m.from, to |-> m.to]
             PROVE  /\ (Reasons(rules, c, w, now, busy) = {}) = Accepts(rules, c, w, now, busy)
                    /\ "BUSY" \in Reasons(rules, c, w, now, busy) =>
                         LET u == BusyUntil(rules, c, w, busy) IN
                         Blocking(rules, c, w, busy) \cap
                             Blocking(rules, c, [from |-> u, to |-> u + w.to - w.from], busy) = {}
                    /\ Verdict(rules, w, now) = "ok" =>
                         \A r \in Alternatives(rules, w, busy) : Accepts(rules, r, w, now, busy)
  BY DEF AvailabilityHonest
<1>1. (Reasons(rules, c, w, now, busy) = {}) = Accepts(rules, c, w, now, busy)
  BY DEF Reasons, Accepts
<1>2. ASSUME "BUSY" \in Reasons(rules, c, w, now, busy), NEW u, u = BusyUntil(rules, c, w, busy),
             NEW b \in Blocking(rules, c, w, busy),
             b \in Blocking(rules, c, [from |-> u, to |-> u + w.to - w.from], busy)
      PROVE  FALSE
  <2>1. Blocking(rules, c, w, busy) # {}
    BY <1>2, VerdictNames DEF Reasons
  <2>2. PICK t \in Int : u = rules.buffer + t /\ b.to <= t
    BY <1>2, <2>1, BusyUntilFacts
  <2>3. b \in AnyMeeting /\ rules \in RuleSets
    BY <1>2 DEF Blocking, PickerType
  <2>4. b.to \in Int /\ rules.buffer \in Int
    BY <2>3, MeetingFacts, Schema
  <2>5. u - rules.buffer < b.to
    BY <1>2 DEF Blocking, Overlap, Widened
  <2>6. QED
    BY <2>2, <2>4, <2>5
<1>3. Verdict(rules, w, now) = "ok" =>
        \A r \in Alternatives(rules, w, busy) : Accepts(rules, r, w, now, busy)
  BY DEF Alternatives, Accepts
<1>4. "BUSY" \in Reasons(rules, c, w, now, busy) =>
        LET u == BusyUntil(rules, c, w, busy) IN
        Blocking(rules, c, w, busy) \cap
            Blocking(rules, c, [from |-> u, to |-> u + w.to - w.from], busy) = {}
  BY <1>2
<1>5. QED
  BY <1>1, <1>3, <1>4

\* GET /availability calls a room available exactly when POST /bookings would accept; what blocks a
\* window no longer blocks one that starts at the busy_until it names; the rooms a refusal offers
\* accept the window.
THEOREM AvailabilityTrue == Spec => []AvailabilityHonest
<1>1. PickerType => AvailabilityHonest
  BY AvailabilityHonestState
<1>2. QED
  BY <1>1, PickerTyped, PTL

----------------------------------------------------------------------------
(* What a page offers *)

\* From s to e there are k rows, the first of them row i of a day that opens at open; no meeting of B
\* covers one of them in column c.
OnRows(open, i, k, s, e) == s = open + i * rules.step /\ e = s + k * rules.step
NoneCovers(B, c, d, open, i, k) == \A j \in i..(i + k - 1) : ~\E m \in B : m.room = c /\ Covers(m, d, open, j)

\* Where there is no gap, a meeting that blocks a window of whole rows covers one of them.
LEMMA BlockedRowIsCovered ==
    ASSUME rules \in RuleSets, rules.buffer = 0,
           NEW d \in Int, NEW open \in Int, NEW i \in Int, NEW k \in Nat \ {0},
           NEW s \in 0..(DayLen - 1), NEW e \in 0..(DayLen - 1), OnRows(open, i, k, s, e),
           NEW m \in AnyMeeting, Overlap(m, Widened(rules, [from |-> Instant(d, s), to |-> Instant(d, e)]))
    PROVE  \E j \in i..(i + k - 1) : Covers(m, d, open, j)
<1>1. PICK step \in Nat \ {0} : step = rules.step
  BY Schema
<1>2. PICK f \in Int, g \in Int : /\ f = Instant(d, s) /\ Date(f) = d /\ Minute(f) = s
                                 /\ g = Instant(d, e) /\ Date(g) = d /\ Minute(g) = e
  BY PartsOf
<1>3. PICK mf \in Int, mt \in Int : mf = m.from /\ mt = m.to /\ mf < mt /\ Date(mf) = Date(mt)
  BY MeetingFacts
<1>4. mf < g /\ f < mt
  BY <1>2, <1>3 DEF Overlap, Widened
<1>5. Date(mf) = d
  <2>1. Date(mf) \in Int /\ Date(mf) <= Date(g) /\ Date(f) <= Date(mt)
    <3>1. mf <= g /\ f <= mt
      BY <1>2, <1>3, <1>4
    <3>2. Date(mf) \in Int
      BY Parts
    <3>3. Date(mf) <= Date(g)
      BY <3>1, InOrder
    <3>4. Date(f) <= Date(mt)
      BY <3>1, InOrder
    <3>5. QED
      BY <3>2, <3>3, <3>4
  <2>2. QED
    BY <1>2, <1>3, <2>1
<1>6. PICK p \in Int, q \in Int : p = Minute(mf) /\ q = Minute(mt) /\ p < q /\ p < e /\ s < q
  <2>1. Minute(mf) \in Int /\ Minute(mt) \in Int
    BY <1>3, Parts
  <2>2. Minute(mt) - Minute(mf) = mt - mf /\ e - Minute(mf) = g - mf /\ Minute(mt) - s = mt - f
    <3>1. mf <= mt /\ mf <= g /\ f <= mt
      BY <1>2, <1>3, <1>4
    <3>2. Date(mf) = Date(mt) /\ Date(mf) = Date(g) /\ Date(f) = Date(mt)
      BY <1>2, <1>3, <1>5
    <3>3. Minute(mt) - Minute(mf) = mt - mf
      BY <3>1, <3>2, InOrder
    <3>4. Minute(g) - Minute(mf) = g - mf
      BY <3>1, <3>2, InOrder
    <3>5. Minute(mt) - Minute(f) = mt - f
      BY <3>1, <3>2, InOrder
    <3>6. QED
      BY <1>2, <3>3, <3>4, <3>5
  <2>3. s \in Int /\ e \in Int
    BY WindowAssumption
  <2>4. Minute(mf) < Minute(mt) /\ Minute(mf) < e /\ s < Minute(mt)
    BY <1>2, <1>3, <1>4, <2>1, <2>2, <2>3
  <2>5. QED
    BY <2>1, <2>4
<1>7. PICK a \in Int, b \in Int : a = p - open /\ b = q - open + step - 1
  BY <1>1, <1>6
<1>8. PICK x \in Int, y \in Int : /\ x = a \div step /\ y = b \div step
                                 /\ step * x <= a /\ a < step * x + step
  <2>1. a \div step \in Int /\ b \div step \in Int
        /\ a % step \in 0..(step - 1) /\ a = step * (a \div step) + (a % step)
    BY <1>1, <1>7, DivMod
  <2>2. PICK x \in Int, r \in 0..(step - 1) : x = a \div step /\ a = step * x + r
    BY <2>1
  <2>3. step * x \in Int
    BY <1>1, <2>2
  <2>4. step * x <= a /\ a < step * x + step
    BY <1>1, <2>2, <2>3
  <2>5. QED
    BY <2>1, <2>2, <2>4
<1>9. \A j \in Int : Covers(m, d, open, j) <=> j >= x /\ j < y
  BY <1>1, <1>3, <1>5, <1>6, <1>7, <1>8 DEF Covers
<1>10. PICK base \in Int, len \in Int :
            base = step * i /\ len = step * k /\ step * (i + k) = base + len /\ step * (i + 1) = base + step
  <2>1. step * (i + k) = step * i + step * k /\ step * (i + 1) = step * i + step
    BY <1>1
  <2>2. QED
    BY <1>1, <2>1
<1>11. s = open + base /\ e = open + base + len /\ s \in Int /\ e \in Int
  BY <1>1, <1>10, WindowAssumption DEF OnRows
<1>12. x < i + k
  <2>1. a < base + len
    BY <1>6, <1>7, <1>11
  <2>2. QED
    BY <1>1, <1>7, <1>8, <1>10, <2>1, DivBelow
<1>13. i < y
  <2>1. base + step <= b
    BY <1>1, <1>6, <1>7, <1>10, <1>11
  <2>2. i + 1 <= b \div step
    <3>1. PICK n \in Int : n = i + 1
      OBVIOUS
    <3>2. step * n <= b
      BY <1>10, <2>1, <3>1
    <3>3. n <= b \div step
      BY <1>1, <1>7, <3>1, <3>2, DivAtLeast
    <3>4. QED
      BY <3>1, <3>3
  <2>3. QED
    BY <1>8, <2>2
<1>14. x < y
  <2>1. step * (x + 1) = step * x + step /\ step * x \in Int
    BY <1>1, <1>8
  <2>2. step * (x + 1) <= b
    BY <1>1, <1>6, <1>7, <1>8, <2>1
  <2>3. x + 1 <= b \div step
    BY <1>1, <1>7, <1>8, <2>2, DivAtLeast
  <2>4. QED
    BY <1>8, <2>3
<1>15. CASE i <= x
  <2>1. x \in i..(i + k - 1)
    BY <1>8, <1>12, <1>15
  <2>2. QED
    BY <1>8, <1>9, <1>14, <2>1
<1>16. CASE x < i
  <2>1. i \in i..(i + k - 1) /\ i >= x
    BY <1>8, <1>16
  <2>2. QED
    BY <1>9, <1>13, <2>1
<1>17. QED
  BY <1>8, <1>15, <1>16

\* A window of rows that nothing covers is clear.
LEMMA NothingBlocks ==
    ASSUME rules \in RuleSets, rules.buffer = 0,
           NEW d \in Int, NEW open \in Int, NEW i \in Int, NEW k \in Nat \ {0},
           NEW s \in 0..(DayLen - 1), NEW e \in 0..(DayLen - 1), OnRows(open, i, k, s, e),
           NEW B \in SUBSET AnyMeeting, NEW c, NoneCovers(B, c, d, open, i, k)
    PROVE  Blocking(rules, c, [from |-> Instant(d, s), to |-> Instant(d, e)], B) = {}
<1> DEFINE w == [from |-> Instant(d, s), to |-> Instant(d, e)]
<1>1. ASSUME NEW m \in B, m.room = c, Overlap(m, Widened(rules, w)) PROVE FALSE
  <2>1. m \in AnyMeeting
    OBVIOUS
  <2>2. \E j \in i..(i + k - 1) : Covers(m, d, open, j)
    BY <1>1, <2>1, BlockedRowIsCovered
  <2>3. QED
    BY <1>1, <2>2 DEF NoneCovers
<1> HIDE DEF w
<1>2. Blocking(rules, c, w, B) = {}
  BY <1>1 DEF Blocking
<1>3. QED
  BY <1>2 DEF w

\* proceed, submit: a valid selection of free cells.
LEMMA SelectionAccepted ==
    ASSUME PickerType, rules.buffer = 0, UpToDate, Valid,
           Span(page, page.sel.col, page.sel.from, page.sel.to, page.at)
    PROVE  ~Refused(page.sel.col, Asked)
<1>0. /\ rules \in RuleSets /\ busy \in SUBSET AnyMeeting /\ page.date \in Int
      /\ now \in Int /\ page.at = now /\ page.seen = busy
  BY DEF PickerType, PageStates, UpToDate
<1>1. page.sel # NoSel
  BY DEF Valid
<1>2. PICK i \in Nat, j \in Nat : i = page.sel.from /\ j = page.sel.to
  BY <1>1, SelWith
<1>3. PICK d \in Int, c \in Rooms : d = page.date /\ c = page.sel.col
  BY <1>0, <1>1, SelWith
<1>4. /\ j <= RowCount(d) /\ rules.min <= (j - i) * rules.step
      /\ ~TooLong(rules, (j - i) * rules.step)
  <2>1. rules.min \in Int /\ rules.step \in Int
    BY <1>0, Schema
  <2>2. (j - i) * rules.step \in Int
    BY <2>1
  <2>3. (j - i) * rules.step >= rules.min /\ ~TooLong(rules, (j - i) * rules.step) /\ j <= RowCount(d)
    BY <1>2, <1>3 DEF Valid
  <2>4. QED
    BY <2>1, <2>2, <2>3
<1>5. i < j
  <2>1. PICK step \in Nat \ {0}, min \in Nat \ {0} : step = rules.step /\ min = rules.min
    BY <1>0, Schema
  <2>2. PICK k \in Int : k = j - i /\ min <= k * step
    BY <1>4, <2>1
  <2>3. k <= 0 => step * k <= step * 0
    BY TimesUp
  <2>4. k * step = step * k /\ step * 0 = 0 /\ step * k \in Int
    OBVIOUS
  <2>5. ~(k <= 0)
    BY <2>1, <2>2, <2>3, <2>4
  <2>6. QED
    BY <2>2, <2>5
<1>6. PICK s \in 0..(DayLen - 1), e \in 0..(DayLen - 1) :
        /\ s = RowStart(d, i) /\ e = RowStart(d, j) /\ ~Shut(d) /\ Open(d) \in Int /\ Open(d) <= s
        /\ s < e /\ e <= HoursOn(rules, d).close
        /\ e = s + (j - i) * rules.step /\ (e - s) % rules.step = 0
  <2>1. /\ ~Shut(d) /\ Open(d) \in Int /\ Open(d) <= RowStart(d, i) /\ RowStart(d, i) < RowStart(d, j)
        /\ RowStart(d, j) <= HoursOn(rules, d).close
        /\ RowStart(d, i) \in 0..(DayLen - 1) /\ RowStart(d, j) \in 0..(DayLen - 1)
        /\ RowStart(d, j) = RowStart(d, i) + (j - i) * rules.step
        /\ (RowStart(d, j) - RowStart(d, i)) % rules.step = 0
    BY <1>0, <1>4, <1>5, RowMinutes
  <2>2. QED
    BY <2>1, Zenon
<1>7. Asked = [from |-> Instant(d, s), to |-> Instant(d, e)]
  BY <1>2, <1>3, <1>6 DEF Asked
<1>8. s \in Int /\ e \in Int /\ e - s = (j - i) * rules.step
  <2>1. PICK l \in Int : l = (j - i) * rules.step
    BY <1>0, Schema
  <2>2. s \in Int /\ e \in Int
    BY WindowAssumption
  <2>3. QED
    BY <1>6, <2>1, <2>2
<1>9. \A r \in i..(j - 1) : Free(page, c, r, now)
  BY <1>0, <1>2, <1>3 DEF Span
<1>10. Verdict(rules, Asked, now) = "ok"
  <2>1. Bookable(d, s, now)
    <3>1. i \in i..(j - 1)
      BY <1>5
    <3>2. QED
      BY <1>3, <1>6, <1>9, <3>1 DEF Free
  <2>2. rules.min <= e - s /\ ~TooLong(rules, e - s)
    BY <1>4, <1>8
  <2>3. QED
    BY <1>0, <1>6, <1>7, <1>8, <2>1, <2>2, WindowOk
<1> DEFINE B == IF page.kind = "move" THEN busy \ {Own} ELSE busy
<1>11. Blocking(rules, c, Asked, B) = {}
  <2>1. B \subseteq AnyMeeting /\ B = Shown(page)
    BY <1>0 DEF Shown
  <2>2. \A r \in i..(j - 1) : ~\E m \in B : m.room = c /\ Covers(m, d, Open(d), r)
    BY <1>3, <1>9, <2>1 DEF Free, Taken
  <2> HIDE DEF B
  <2>3. PICK k \in Nat \ {0} : k = j - i /\ i + k - 1 = j - 1
    <3>1. j - i \in Nat \ {0} /\ i + (j - i) - 1 = j - 1
      BY <1>5
    <3>2. QED
      BY <3>1
  <2>4. OnRows(Open(d), i, k, s, e)
    BY <1>6, <2>3 DEF OnRows, RowStart
  <2>5. NoneCovers(B, c, d, Open(d), i, k)
    BY <2>2, <2>3 DEF NoneCovers
  <2>6. Blocking(rules, c, [from |-> Instant(d, s), to |-> Instant(d, e)], B) = {}
    <3>1. /\ rules \in RuleSets /\ i \in Int /\ Open(d) \in Int /\ B \in SUBSET AnyMeeting
          /\ s \in 0..(DayLen - 1) /\ e \in 0..(DayLen - 1) /\ k \in Nat \ {0}
      BY <1>0, <1>6, <2>1, <2>3
    <3>2. QED
      BY <2>4, <2>5, <3>1, NothingBlocks
  <2>7. QED
    BY <1>7, <2>6
<1>12. QED
  BY <1>3, <1>10, <1>11 DEF Refused, Accepts

\* A free cell of the week view.
LEMMA WeekAccepted ==
    ASSUME PickerType, rules.buffer = 0, UpToDate, page.kind = "day", WeekDays # {},
           NEW c \in Rooms, NEW d \in Dates, NEW i \in Indices, WeekFree(c, d, i)
    PROVE  ~Refused(c, WeekAsked(d, i))
<1>0. /\ rules \in RuleSets /\ busy \in SUBSET AnyMeeting /\ d \in Int
      /\ i \in Nat /\ now \in Int /\ page.at = now /\ page.seen = busy
  BY PickerAssumption DEF PickerType, PageStates, UpToDate, Indices
<1>1. PICK step \in Nat \ {0}, min \in Nat \ {0}, k \in Nat \ {0}, o \in Int :
        /\ step = rules.step /\ min = rules.min /\ min % step = 0
        /\ k = MinRows /\ step * k = min /\ o = WeekOpen
  BY <1>0, Schema, MinRowsFacts, WeekOpenFacts
<1>2. PICK s \in Int : s = o + i * step
  BY <1>0, <1>1
<1>3. PICK open \in 0..(DayLen - 1), close \in 0..(DayLen - 1) :
           open = Open(d) /\ close = HoursOn(rules, d).close
  BY <1>0, Schema DEF Open
<1>4. /\ ~Shut(d) /\ s >= open /\ close - s >= min
      /\ \A j \in i..(i + k - 1) : ~Taken(page, c, d, o, j)
      /\ Bookable(d, s, now)
  BY <1>0, <1>1, <1>2, <1>3 DEF WeekFree
<1>5. PICK e \in Int : e = s + min
  BY <1>1, <1>2
<1>6. s \in 0..(DayLen - 1) /\ e \in 0..(DayLen - 1) /\ open <= s /\ s < e /\ e <= close /\ e - s = min
  BY <1>1, <1>2, <1>3, <1>4, <1>5, WindowAssumption
<1>7. WeekAsked(d, i) = [from |-> Instant(d, s), to |-> Instant(d, e)]
  BY <1>1, <1>2, <1>5 DEF WeekAsked
<1>8. Verdict(rules, WeekAsked(d, i), now) = "ok"
  <2>1. rules.min <= e - s /\ (e - s) % rules.step = 0
    BY <1>1, <1>6
  <2>2. ~TooLong(rules, e - s)
    BY <1>0, <1>1, <1>6, Schema DEF TooLong
  <2>3. Open(d) <= s /\ e <= HoursOn(rules, d).close
    BY <1>3, <1>6
  <2>4. QED
    BY <1>0, <1>2, <1>4, <1>5, <1>6, <1>7, <2>1, <2>2, <2>3, WindowOk
<1>9. Blocking(rules, c, WeekAsked(d, i), busy) = {}
  <2>1. NoneCovers(busy, c, d, o, i, k)
    BY <1>0, <1>4 DEF NoneCovers, Taken, Shown
  <2>2. OnRows(o, i, k, s, e)
    <3>1. k * step = step * k
      OBVIOUS
    <3>2. QED
      BY <1>1, <1>2, <1>5, <3>1 DEF OnRows
  <2>3. Blocking(rules, c, [from |-> Instant(d, s), to |-> Instant(d, e)], busy) = {}
    <3>1. /\ rules \in RuleSets /\ i \in Int /\ d \in Int /\ o \in Int /\ busy \in SUBSET AnyMeeting
          /\ s \in 0..(DayLen - 1) /\ e \in 0..(DayLen - 1) /\ k \in Nat \ {0}
      BY <1>0, <1>1, <1>6
    <3>2. QED
      BY <2>1, <2>2, <3>1, NothingBlocks
  <2>4. QED
    BY <1>7, <2>3
<1>10. QED
  BY <1>8, <1>9 DEF Refused, Accepts

\* The quick search.
LEMMA SearchAccepted ==
    ASSUME PickerType, page.at = now, NEW d \in Dates, NEW w \in Searched(d)
    PROVE  Verdict(rules, w, now) = "ok"
<1>0. rules \in RuleSets /\ d \in Int /\ now \in Int
  BY PickerAssumption DEF PickerType
<1>1. PICK s \in SearchStarts(d) :
           \E e \in {SnapEnd(s)} \cup SearchEnds(d, s) : w = [from |-> Instant(d, s), to |-> Instant(d, e)]
  BY DEF Searched
<1>2. PICK e \in {SnapEnd(s)} \cup SearchEnds(d, s) : w = [from |-> Instant(d, s), to |-> Instant(d, e)]
  BY <1>1
<1>3. PICK n \in Int : n = RowCount(d)
  BY <1>0, RowFacts
<1>4. PICK i \in 0..(n - 1) :
           s = RowStart(d, i) /\ Bookable(d, s, now) /\ HoursOn(rules, d).close - s >= rules.min
  BY <1>1, <1>3 DEF SearchStarts
<1>5. PICK step \in Nat \ {0}, min \in Nat \ {0}, open \in 0..(DayLen - 1), close \in 0..(DayLen - 1) :
        /\ step = rules.step /\ min = rules.min /\ min % step = 0
        /\ open = Open(d) /\ close = HoursOn(rules, d).close
  BY <1>0, Schema DEF Open
<1>6. i \in Nat /\ i + 1 \in Nat /\ i < i + 1 /\ i + 1 <= RowCount(d)
  BY <1>3, <1>4
<1>7. ~Shut(d) /\ Open(d) <= s /\ s \in 0..(DayLen - 1)
  BY <1>0, <1>4, <1>6, RowMinutes
<1>8. s \in Int /\ open \in Int /\ close \in Int
  BY <1>5, <1>7, WindowAssumption
<1>9. /\ e \in Int /\ s < e /\ e <= close /\ rules.min <= e - s
      /\ ~TooLong(rules, e - s) /\ (e - s) % rules.step = 0
  <2>1. CASE e = SnapEnd(s)
    <3>1. e = s + min
      BY <1>5, <2>1 DEF SnapEnd
    <3>2. e \in Int /\ s < e /\ e <= close /\ e - s = min
      BY <1>4, <1>5, <1>8, <3>1
    <3>3. ~TooLong(rules, min)
      BY <1>0, <1>5, Schema DEF TooLong
    <3>4. QED
      BY <1>5, <3>2, <3>3
  <2>2. CASE e \in SearchEnds(d, s)
    <3>1. PICK j \in 0..(n - 1) : e = RowStart(d, j + 1) /\ e - s >= min /\ ~TooLong(rules, e - s)
      BY <1>3, <1>5, <2>2 DEF SearchEnds
    <3>2. PICK r \in Nat : r = j + 1 /\ 0 < r /\ r <= RowCount(d)
      <4>1. j + 1 \in Nat /\ 0 < j + 1 /\ j + 1 <= RowCount(d)
        BY <1>3, <3>1
      <4>2. QED
        BY <4>1
    <3>3. e \in 0..(DayLen - 1) /\ e <= close
      BY <1>0, <1>5, <3>1, <3>2, RowMinutes
    <3>4. e \in Int
      BY <3>3, WindowAssumption
    <3>5. s < e /\ min <= e - s
      BY <1>5, <1>8, <3>1, <3>4
    <3>6. i < r
      <4>1. r <= i => RowStart(d, r) <= RowStart(d, i)
        <5>1. r <= i => step * r <= step * i
          BY <1>6, TimesUp
        <5>2. RowStart(d, r) = open + step * r /\ RowStart(d, i) = open + step * i
          BY <1>5, <1>6 DEF RowStart
        <5>3. step * r \in Int /\ step * i \in Int
          BY <1>6
        <5>4. QED
          BY <1>8, <5>1, <5>2, <5>3
      <4>2. RowStart(d, r) = e /\ RowStart(d, i) = s
        BY <1>4, <3>1, <3>2
      <4>3. ~(r <= i)
        BY <1>8, <3>4, <3>5, <4>1, <4>2
      <4>4. QED
        BY <1>6, <4>3
    <3>7. (e - s) % rules.step = 0
      BY <1>0, <1>4, <1>6, <3>1, <3>2, <3>6, RowMinutes
    <3>8. QED
      BY <1>5, <3>1, <3>3, <3>4, <3>5, <3>7
  <2>3. QED
    BY <1>2, <2>1, <2>2
<1>10. QED
  BY <1>0, <1>2, <1>4, <1>5, <1>7, <1>8, <1>9, WindowOk

\* The property in a state of the right type.
LEMMA OfferedIsAcceptedState == PickerType => OfferedIsAccepted
<1> SUFFICES ASSUME PickerType, rules.buffer = 0, UpToDate
             PROVE  /\ Valid /\ Span(page, page.sel.col, page.sel.from, page.sel.to, page.at) =>
                         ~Refused(page.sel.col, Asked)
                    /\ page.kind = "day" /\ WeekDays # {} =>
                         \A c \in Rooms, d \in Dates, i \in Indices :
                             WeekFree(c, d, i) => ~Refused(c, WeekAsked(d, i))
                    /\ \A d \in Dates : \A w \in Searched(d) : Verdict(rules, w, now) = "ok"
  BY DEF OfferedIsAccepted, OfferedIsAcceptedAlways
<1>1. Valid /\ Span(page, page.sel.col, page.sel.from, page.sel.to, page.at) =>
        ~Refused(page.sel.col, Asked)
  BY SelectionAccepted
<1>2. page.kind = "day" /\ WeekDays # {} =>
        \A c \in Rooms, d \in Dates, i \in Indices :
            WeekFree(c, d, i) => ~Refused(c, WeekAsked(d, i))
  BY WeekAccepted
<1>3. \A d \in Dates : \A w \in Searched(d) : Verdict(rules, w, now) = "ok"
  BY SearchAccepted DEF UpToDate
<1>4. QED
  BY <1>1, <1>2, <1>3

\* Where the gap is zero, a page that shows the current calendar offers nothing the server would
\* refuse: no selection of free cells, no free cell of the week view, no window of the quick search
\* (slots.ts and the pages, against window.ts and the conflict probe).
THEOREM OffersAccepted == Spec => []OfferedIsAccepted
<1>1. PickerType => OfferedIsAccepted
  BY OfferedIsAcceptedState
<1>2. QED
  BY <1>1, PickerTyped, PTL

----------------------------------------------------------------------------
(* Sums over sets: the recursive function MapThenFoldSet chooses is the one that counts *)

\* The element MapThenFoldSet takes first; what parts join to; a function that adds up their numbers.
First(s) == CHOOSE x \in s : TRUE
Joined(share, s) == UNION {share[x] : x \in s}
Adds(it, S, share) ==
    it = [s \in SUBSET S |-> IF s = {} THEN 0 ELSE Cardinality(share[First(s)]) + it[s \ {First(s)}]]
\* The parts of S are finite and have nothing in common.
Parted(S, share) ==
    /\ IsFiniteSet(S) /\ \A x \in S : IsFiniteSet(share[x])
    /\ \A x, y \in S : x # y => share[x] \cap share[y] = {}

\* What finitely many finite parts join to is finite.
LEMMA JoinedFinite ==
    ASSUME NEW S, NEW share, Parted(S, share), NEW s \in SUBSET S
    PROVE  IsFiniteSet(Joined(share, s))
<1> DEFINE images == {share[x] : x \in s}
           f == [x \in s |-> share[x]]
<1>1. IsFiniteSet(s)
  BY FS_Subset DEF Parted
<1>2. f \in Surjection(s, images)
  BY DEF Surjection
<1>3. IsFiniteSet(images)
  BY <1>1, <1>2, FS_Surjection
<1>4. \A T \in images : IsFiniteSet(T)
  BY DEF Parted
<1>5. QED
  <2> HIDE DEF images
  <2>1. IsFiniteSet(UNION images)
    BY <1>3, <1>4, FS_UNION
  <2>2. QED
    BY <2>1 DEF images, Joined

\* One part more adds its number.
LEMMA JoinedOne ==
    ASSUME NEW S, NEW share, Parted(S, share), NEW s \in SUBSET S, NEW x \in s
    PROVE  Cardinality(Joined(share, s)) = Cardinality(share[x]) + Cardinality(Joined(share, s \ {x}))
<1> DEFINE rest == Joined(share, s \ {x})
<1>1. Joined(share, s) = share[x] \cup rest
  BY DEF Joined
<1>2. share[x] \cap rest = {}
  BY DEF Joined, Parted
<1>3. IsFiniteSet(share[x]) /\ IsFiniteSet(rest)
  <2>1. s \ {x} \in SUBSET S
    OBVIOUS
  <2>2. QED
    BY <2>1, JoinedFinite DEF Parted
<1> HIDE DEF rest
<1>4. Cardinality(share[x] \cup rest) = Cardinality(share[x]) + Cardinality(rest) - Cardinality({})
  BY <1>2, <1>3, FS_Union
<1>5. Cardinality(share[x]) \in Nat /\ Cardinality(rest) \in Nat /\ Cardinality({}) = 0
  BY <1>3, FS_CardinalityType, FS_EmptySet
<1>6. QED
  BY <1>1, <1>4, <1>5 DEF rest

\* What adds up the parts one by one counts what they join to.
LEMMA AddsCount ==
    ASSUME NEW S, NEW share, Parted(S, share)
    PROVE  /\ \E it : Adds(it, S, share)
           /\ \A it : Adds(it, S, share) => it[S] = Cardinality(Joined(share, S))
<1> DEFINE count == [s \in SUBSET S |-> Cardinality(Joined(share, s))]
<1>1. ASSUME NEW s \in SUBSET S
      PROVE  count[s] = IF s = {} THEN 0 ELSE Cardinality(share[First(s)]) + count[s \ {First(s)}]
  <2>1. CASE s = {}
    <3>1. Joined(share, s) = {}
      BY <2>1 DEF Joined
    <3>2. QED
      BY <2>1, <3>1, FS_EmptySet
  <2>2. CASE s # {}
    <3>1. First(s) \in s
      BY <2>2 DEF First
    <3>2. s \ {First(s)} \in SUBSET S
      OBVIOUS
    <3>3. QED
      BY <2>2, <3>1, <3>2, JoinedOne
  <2>3. QED
    BY <2>1, <2>2
<1>2. Adds(count, S, share)
  <2> HIDE DEF count
  <2>1. count = [s \in SUBSET S |-> count[s]]
    BY DEF count
  <2>2. QED
    BY <1>1, <2>1 DEF Adds
<1>3. ASSUME NEW it, Adds(it, S, share) PROVE it[S] = count[S]
  <2> DEFINE wrong == {s \in SUBSET S : it[s] # count[s]}
  <2>1. SUFFICES ASSUME wrong # {} PROVE FALSE
    BY DEF wrong
  <2>2. IsWellFoundedOn(StrictSubsetOrdering(S), SUBSET S)
    <3>1. IsFiniteSet(S)
      BY DEF Parted
    <3>2. FiniteSubsetsOf(S) = SUBSET S
      BY <3>1, FS_FiniteSubsetsOfFinite
    <3>3. IsWellFoundedOn(StrictSubsetOrdering(S), FiniteSubsetsOf(S))
      BY FS_StrictSubsetOrderingWellFounded
    <3>4. QED
      BY <3>2, <3>3
  <2>3. PICK s \in wrong : \A r \in wrong : <<r, s>> \notin StrictSubsetOrdering(S)
    <3>1. wrong \subseteq SUBSET S
      OBVIOUS
    <3> HIDE DEF wrong
    <3>2. QED
      BY <2>1, <2>2, <3>1, WFMin
  <2>4. it[s] = IF s = {} THEN 0 ELSE Cardinality(share[First(s)]) + it[s \ {First(s)}]
    BY <1>3, <2>3 DEF Adds
  <2>5. s # {}
    BY <1>1, <2>3, <2>4
  <2>6. First(s) \in s
    BY <2>5 DEF First
  <2>7. <<s \ {First(s)}, s>> \in StrictSubsetOrdering(S)
    BY <2>3, <2>6 DEF StrictSubsetOrdering
  <2>8. s \ {First(s)} \notin wrong /\ s \ {First(s)} \in SUBSET S
    BY <2>3, <2>7
  <2>9. it[s \ {First(s)}] = count[s \ {First(s)}]
    BY <2>8
  <2> HIDE DEF count
  <2>10. it[s] = count[s]
    BY <1>1, <2>3, <2>4, <2>5, <2>9
  <2>11. QED
    BY <2>3, <2>10
<1>4. count[S] = Cardinality(Joined(share, S))
  OBVIOUS
<1>5. QED
  BY <1>2, <1>3, <1>4


\* Total, of windows or bookings that are as long as their parts.
LEMMA LengthsCount ==
    ASSUME NEW S, NEW share, Parted(S, share), \A x \in S : Length(x) = Cardinality(share[x])
    PROVE  Total(S) = Cardinality(Joined(share, S))
<1> DEFINE P(it) == it = [s \in SUBSET S |-> IF s = {} THEN 0 ELSE Length(First(s)) + it[s \ {First(s)}]]
<1>1. \A s \in SUBSET S : s # {} => First(s) \in S
  BY DEF First
<1>2. \A it : Adds(it, S, share) <=> P(it)
  BY <1>1 DEF Adds
<1>3. PICK it : it = CHOOSE g : P(g)
  OBVIOUS
<1>4. P(it)
  BY <1>2, <1>3, AddsCount
<1>5. Total(S) = it[S]
  BY <1>3 DEF Total, MapThenSumSet, MapThenFoldSet, First
<1>6. QED
  BY <1>2, <1>4, <1>5, AddsCount

\* A field summed over rows that each give the number of their part.
LEMMA FieldsCount ==
    ASSUME NEW S, NEW share, NEW field, Parted(S, share), \A x \in S : x[field] = Cardinality(share[x])
    PROVE  /\ Sum_(S, field) = Cardinality(Joined(share, S))
           /\ OutcomeTotal(S, field) = Cardinality(Joined(share, S))
<1> DEFINE P(it) == it = [s \in SUBSET S |-> IF s = {} THEN 0 ELSE First(s)[field] + it[s \ {First(s)}]]
<1>1. \A s \in SUBSET S : s # {} => First(s) \in S
  BY DEF First
<1>2. \A it : Adds(it, S, share) <=> P(it)
  BY <1>1 DEF Adds
<1>3. PICK it : it = CHOOSE g : P(g)
  OBVIOUS
<1>4. P(it)
  BY <1>2, <1>3, AddsCount
<1>5. Sum_(S, field) = it[S] /\ OutcomeTotal(S, field) = it[S]
  BY <1>3 DEF Sum_, OutcomeTotal, MapThenSumSet, MapThenFoldSet, First
<1>6. QED
  BY <1>2, <1>4, <1>5, AddsCount

\* The cuts of bookings by windows, summed up.
LEMMA CutsCount ==
    ASSUME NEW S, NEW share, Parted(S, share), \A x \in S : Length(Cut(x[1], x[2])) = Cardinality(share[x])
    PROVE  MapThenSumSet(LAMBDA x : Length(Cut(x[1], x[2])), S) = Cardinality(Joined(share, S))
<1> DEFINE len(x) == Length(Cut(x[1], x[2]))
           P(it) == it = [s \in SUBSET S |-> IF s = {} THEN 0 ELSE len(First(s)) + it[s \ {First(s)}]]
<1>1. \A s \in SUBSET S : s # {} => First(s) \in S
  BY DEF First
<1>2. \A it : Adds(it, S, share) <=> P(it)
  BY <1>1 DEF Adds
<1>3. PICK it : it = CHOOSE g : P(g)
  OBVIOUS
<1>4. P(it)
  BY <1>2, <1>3, AddsCount
<1>5. MapThenSumSet(LAMBDA x : Length(Cut(x[1], x[2])), S) = it[S]
  BY <1>3 DEF MapThenSumSet, MapThenFoldSet, First
<1>6. QED
  BY <1>2, <1>4, <1>5, AddsCount

----------------------------------------------------------------------------
(* Reports: windows and open minutes *)

\* A report of the rules in force, at t, over rooms and bookings.
ReportOn(t, q, created, bookings) ==
    /\ rules \in RuleSets /\ t \in Int /\ q.from \in Nat /\ q.to \in Nat /\ q.from <= q.to
    /\ \A r \in Rooms : created[r] \in Int
    /\ IsFiniteSet(bookings)
    /\ \A b \in bookings : /\ b.room \in Rooms /\ b.from \in Int /\ b.to \in Int /\ b.from < b.to
                           /\ Date(b.from) = Date(b.to)
    /\ \A a, b \in With(bookings, Used) : a # b /\ a.room = b.room => ~Overlap(a, b)
    /\ \A b \in With(bookings, {"CANCELLED"}) : b.by \in ByOwner \cup ByAdmin

\* GREATEST and LEAST of two, as in DayWindow and Cut.
Later(a, b) == Max({a, b})
Earlier(a, b) == Min({a, b})
\* Max and Min of two.
LEMMA MaxMin ==
    ASSUME NEW a \in Int, NEW b \in Int
    PROVE  /\ Later(a, b) \in Int /\ \A x \in Int : Later(a, b) <= x <=> a <= x /\ b <= x
           /\ Earlier(a, b) \in Int /\ \A x \in Int : x < Earlier(a, b) <=> x < a /\ x < b
<1>1. PICK m \in {a, b} : m = Max({a, b}) /\ \A y \in {a, b} : m >= y
  <2>1. \E x \in {a, b} : \A y \in {a, b} : x >= y
    <3>1. CASE a >= b
      BY <3>1
    <3>2. CASE b >= a
      BY <3>2
    <3>3. QED
      BY <3>1, <3>2
  <2>2. QED
    BY <2>1 DEF Max
<1>2. PICK n \in {a, b} : n = Min({a, b}) /\ \A y \in {a, b} : n <= y
  <2>1. \E x \in {a, b} : \A y \in {a, b} : x <= y
    <3>1. CASE a >= b
      BY <3>1
    <3>2. CASE b >= a
      BY <3>2
    <3>3. QED
      BY <3>1, <3>2
  <2>2. QED
    BY <2>1 DEF Min
<1>3. m >= a /\ m >= b /\ (m = a \/ m = b) /\ m \in Int
  BY <1>1
<1>4. n <= a /\ n <= b /\ (n = a \/ n = b) /\ n \in Int
  BY <1>2
<1>5. \A x \in Int : m <= x <=> a <= x /\ b <= x
  BY <1>3
<1>6. \A x \in Int : x < n <=> x < a /\ x < b
  BY <1>4
<1>7. QED
  BY <1>1, <1>2, <1>3, <1>4, <1>5, <1>6 DEF Later, Earlier

\* The minutes of an interval are as many as it is long.
LEMMA RangeCount ==
    ASSUME NEW a \in Int, NEW b \in Int, a <= b
    PROVE  IsFiniteSet(a..(b - 1)) /\ Cardinality(a..(b - 1)) = b - a
<1>1. PICK c \in Int : c = b - 1
  OBVIOUS
<1>2. IsFiniteSet(a..c) /\ Cardinality(a..c) = IF a > c THEN 0 ELSE c - a + 1
  BY FS_Interval
<1>3. QED
  BY <1>1, <1>2

\* The parts of an instant are integers.
LEMMA PartsRange ==
    ASSUME NEW x \in Int
    PROVE  Date(x) \in Int /\ Minute(x) \in Int /\ 0 <= Minute(x) /\ \E k \in Int : k = Minute(x)
<1>1. Date(x) \in Int /\ Minute(x) \in 0..(DayLen - 1) /\ DayLen \in Int
  BY Parts, WindowAssumption
<1>2. PICK k \in 0..(DayLen - 1) : k = Minute(x)
  BY <1>1
<1>3. k \in Int /\ 0 <= k
  BY <1>1
<1>4. QED
  BY <1>1, <1>2, <1>3

\* Instants are ordered as dates and then minutes.
LEMMA Lexical ==
    ASSUME NEW d \in Int, NEW n \in 0..(DayLen - 1), NEW x \in Int
    PROVE  Instant(d, n) <= x <=> d < Date(x) \/ (d = Date(x) /\ n <= Minute(x))
<1>1. PICK i \in Int : i = Instant(d, n) /\ Date(i) = d /\ Minute(i) = n
  BY PartsOf
<1>2. PICK e \in Int, k \in Int : e = Date(x) /\ k = Minute(x)
  BY PartsRange
<1>3. i <= x => d <= e /\ (d = e => k - n = x - i)
  BY <1>1, <1>2, InOrder
<1>4. x <= i => e <= d /\ (d = e => n - k = i - x)
  BY <1>1, <1>2, InOrder
<1>5. n \in Int
  BY WindowAssumption
<1>6. i <= x <=> d < e \/ (d = e /\ n <= k)
  <2>1. i <= x \/ x <= i
    OBVIOUS
  <2>2. CASE i <= x
    BY <1>1, <1>2, <1>3, <1>5, <2>2
  <2>3. CASE x <= i
    BY <1>1, <1>2, <1>4, <1>5, <2>3
  <2>4. QED
    BY <2>1, <2>2, <2>3
<1>7. QED
  BY <1>1, <1>2, <1>6

\* A minute of day d at which the building is open to room r, which exists, before t.
DayMinute(created, t, r, d, x) ==
    /\ created[r] <= x /\ x < t /\ Date(x) = d
    /\ Minute(x) >= Open(d) /\ Minute(x) < HoursOn(rules, d).close
Within(w, x) == w.from <= x /\ x < w.to

\* The minutes of a window are those of its day that are open, after the creation and before t.
LEMMA WindowMinutes ==
    ASSUME rules \in RuleSets, NEW t \in Int, NEW created, NEW r \in Rooms, created[r] \in Int, NEW d \in Int,
           NEW w, w = DayWindow(rules, created, t, r, d)
    PROVE  /\ w.room = r /\ w.day = d /\ w.from \in Int /\ w.to \in Int
           /\ \A x \in Int : Within(w, x) <=> DayMinute(created, t, r, d, x)
<1>1. PICK open \in 0..(DayLen - 1), close \in 0..(DayLen - 1) :
        open = Open(d) /\ close = HoursOn(rules, d).close
  BY Schema DEF Open
<1>2. PICK a \in Int, b \in Int, c \in Int : a = Instant(d, open) /\ b = Instant(d, close) /\ c = created[r]
  BY PartsOf
<1>3. w = [room |-> r, day |-> d, from |-> Later(a, c), to |-> Earlier(b, t)]
  BY <1>1, <1>2 DEF DayWindow, Open, Later, Earlier
<1>4. w.from = Later(a, c) /\ w.to = Earlier(b, t) /\ w.room = r /\ w.day = d
  BY <1>3
<1>5. w.from \in Int /\ \A x \in Int : w.from <= x <=> a <= x /\ c <= x
  <2>1. Later(a, c) \in Int /\ \A x \in Int : Later(a, c) <= x <=> a <= x /\ c <= x
    BY MaxMin
  <2>2. QED
    BY <1>4, <2>1
<1>6. w.to \in Int /\ \A x \in Int : x < w.to <=> x < b /\ x < t
  <2>1. Earlier(b, t) \in Int /\ \A x \in Int : x < Earlier(b, t) <=> x < b /\ x < t
    BY MaxMin
  <2>2. QED
    BY <1>4, <2>1
<1>7. ASSUME NEW x \in Int
      PROVE  w.from <= x /\ x < w.to <=>
                /\ c <= x /\ x < t /\ Date(x) = d
                /\ Minute(x) >= open /\ Minute(x) < close
  <2>1. PICK e \in Int, k \in Int : e = Date(x) /\ k = Minute(x)
    BY PartsRange
  <2>2. a <= x <=> d < e \/ (d = e /\ open <= k)
    BY <1>2, <2>1, Lexical
  <2>3. b <= x <=> d < e \/ (d = e /\ close <= k)
    BY <1>2, <2>1, Lexical
  <2>4. open \in Int /\ close \in Int /\ DayLen \in Int
    BY WindowAssumption
  <2>5. x < b <=> ~(b <= x)
    BY <1>2
  <2>6. a <= x /\ ~(b <= x) => e = d /\ k >= open /\ k < close
    BY <2>1, <2>2, <2>3, <2>4
  <2>7. e = d /\ k >= open /\ k < close => a <= x /\ ~(b <= x)
    BY <2>1, <2>2, <2>3, <2>4
  <2>8. w.from <= x /\ x < w.to <=> c <= x /\ x < t /\ a <= x /\ ~(b <= x)
    BY <1>5, <1>6, <2>5
  <2>9. QED
    BY <2>1, <2>6, <2>7, <2>8
<1>8. QED
  BY <1>1, <1>2, <1>4, <1>5, <1>6, <1>7 DEF Within, DayMinute

\* The same for one minute, and the other fields.
LEMMA WindowOf ==
    ASSUME rules \in RuleSets, NEW t \in Int, NEW created, NEW r \in Rooms, created[r] \in Int,
           NEW d \in Int, NEW x \in Int, NEW w, w = DayWindow(rules, created, t, r, d)
    PROVE  /\ w.room = r /\ w.day = d /\ w.from \in Int /\ w.to \in Int
           /\ Within(w, x) <=> DayMinute(created, t, r, d, x)
<1>1. w.room = r /\ w.day = d
  BY DEF DayWindow
<1>2. w.from \in Int /\ w.to \in Int
  BY WindowMinutes
<1>3. Within(w, x) <=> DayMinute(created, t, r, d, x)
  BY WindowMinutes
<1>4. QED
  BY <1>1, <1>2, <1>3

\* The days of a query as a range of instants.
LEMMA QueryRange ==
    ASSUME NEW from \in Int, NEW to \in Int, NEW x \in Int
    PROVE  Instant(from, 0) <= x /\ x < Instant(to + 1, 0) <=> Date(x) \in from..to
<1>1. 0 \in 0..(DayLen - 1)
  BY WindowAssumption
<1>2. PICK e \in Int, k \in Int : e = Date(x) /\ k = Minute(x) /\ 0 <= k
  BY PartsRange
<1>3. PICK next \in Int : next = to + 1
  OBVIOUS
<1>4. Instant(from, 0) \in Int /\ Instant(next, 0) \in Int
  BY <1>1, PartsOf
<1>5. Instant(from, 0) <= x <=> from < e \/ (from = e /\ 0 <= k)
  BY <1>1, <1>2, Lexical
<1>6. Instant(next, 0) <= x <=> next < e \/ (next = e /\ 0 <= k)
  BY <1>1, <1>2, Lexical
<1>7. Instant(from, 0) <= x <=> from <= e
  BY <1>2, <1>5
<1>8. x < Instant(next, 0) <=> e <= to
  BY <1>2, <1>3, <1>4, <1>6
<1>9. QED
  BY <1>2, <1>3, <1>7, <1>8

\* A window of the divisor is one of a room in scope, on an open day asked about.
LEMMA DivisorWindow ==
    ASSUME NEW t, NEW q, NEW created, NEW bookings, ReportOn(t, q, created, bookings),
           NEW w \in Divisor(rules, created, t, q)
    PROVE  /\ w.room \in Scope(q) /\ w.day \in q.from..q.to /\ w.day \in Int /\ ~Shut(w.day)
           /\ w = DayWindow(rules, created, t, w.room, w.day)
           /\ w.from \in Int /\ w.to \in Int /\ w.from < w.to
           /\ \A x \in Int : Within(w, x) <=> created[w.room] <= x /\ x < t /\ Date(x) = w.day /\ OpenAt(x)
<1>1. PICK r \in Scope(q), d \in q.from..q.to :
        /\ d \notin rules.holidays /\ HoursOn(rules, d).isOpen
        /\ w = DayWindow(rules, created, t, r, d) /\ w.from < w.to
  BY DEF Divisor
<1>2. rules \in RuleSets /\ t \in Int /\ r \in Rooms /\ created[r] \in Int /\ d \in Int
  BY <1>1 DEF ReportOn, Scope
<1>3. /\ w.room = r /\ w.day = d /\ w.from \in Int /\ w.to \in Int
      /\ \A x \in Int : Within(w, x) <=> DayMinute(created, t, r, d, x)
  <2>1. r \in Rooms /\ d \in Int /\ rules \in RuleSets /\ t \in Int /\ created[r] \in Int
    BY <1>2
  <2>2. w = DayWindow(rules, created, t, r, d)
    BY <1>1
  <2>3. QED
    BY <2>1, <2>2, WindowMinutes
<1>4. ~Shut(d)
  BY <1>1 DEF Shut
<1>5. \A x \in Int : Within(w, x) <=> created[r] <= x /\ x < t /\ Date(x) = d /\ OpenAt(x)
  BY <1>3, <1>4 DEF OpenAt, DayMinute
<1>6. QED
  BY <1>1, <1>2, <1>3, <1>4, <1>5

\* The open minutes of a room are those of its windows.
LEMMA DivisorMinutes ==
    ASSUME NEW t, NEW q, NEW created, NEW bookings, ReportOn(t, q, created, bookings), NEW r \in Scope(q), NEW x
    PROVE  x \in OpenMinutes(created, q, t, r) <=>
             x \in Int /\ \E w \in Divisor(rules, created, t, q) :
                            w.room = r /\ w.day = Date(x) /\ Within(w, x)
<1>1. rules \in RuleSets /\ t \in Int /\ r \in Rooms /\ created[r] \in Int /\ q.from \in Int /\ q.to \in Int
  BY DEF ReportOn, Scope
<1>2. ASSUME x \in OpenMinutes(created, q, t, r)
      PROVE  x \in Int /\ \E w \in Divisor(rules, created, t, q) :
                            w.room = r /\ w.day = Date(x) /\ Within(w, x)
  <2>1. /\ x \in Int /\ Instant(q.from, 0) <= x /\ x < Instant(q.to + 1, 0)
        /\ OpenAt(x) /\ created[r] <= x /\ x < t
    <3>1. PICK lo \in Int, hi \in Int : lo = Instant(q.from, 0) /\ hi = Instant(q.to + 1, 0)
      <4>1. 0 \in 0..(DayLen - 1) /\ q.to + 1 \in Int
        BY <1>1, WindowAssumption
      <4>2. QED
        BY <1>1, <4>1, PartsOf
    <3>2. x \in lo..(hi - 1) /\ OpenAt(x) /\ created[r] <= x /\ x < t
      BY <1>2, <3>1 DEF OpenMinutes
    <3>3. QED
      BY <3>1, <3>2
  <2>2. Date(x) \in q.from..q.to /\ Date(x) \in Int
    BY <1>1, <2>1, QueryRange, Parts
  <2>3a. PICK d \in Int : d = Date(x)
    BY <2>2
  <2>3. PICK w : w = DayWindow(rules, created, t, r, d)
    OBVIOUS
  <2>4. ~Shut(d) /\ Minute(x) >= Open(d) /\ Minute(x) < HoursOn(rules, d).close
    BY <2>1, <2>3a DEF OpenAt
  <2>5. w.room = r /\ w.day = d /\ w.from \in Int /\ w.to \in Int /\ Within(w, x)
    <3>1. /\ w.room = r /\ w.day = d /\ w.from \in Int /\ w.to \in Int
          /\ Within(w, x) <=> DayMinute(created, t, r, d, x)
      BY <1>1, <2>1, <2>3, WindowOf
    <3>2. DayMinute(created, t, r, d, x)
      BY <2>1, <2>3a, <2>4 DEF DayMinute
    <3>3. QED
      BY <2>1, <3>1, <3>2
  <2>6. w \in Divisor(rules, created, t, q)
    <3>1. w.from < w.to
      BY <2>1, <2>5 DEF Within
    <3>2. d \notin rules.holidays /\ HoursOn(rules, d).isOpen
      BY <2>4 DEF Shut
    <3>3. QED
      BY <2>2, <2>3a, <2>3, <3>1, <3>2 DEF Divisor
  <2>7. QED
    BY <2>1, <2>3a, <2>5, <2>6
<1>3. ASSUME x \in Int, NEW w \in Divisor(rules, created, t, q), w.room = r, Within(w, x)
      PROVE  x \in OpenMinutes(created, q, t, r)
  <2>1. w.day \in q.from..q.to /\ created[r] <= x /\ x < t /\ Date(x) = w.day /\ OpenAt(x)
    BY <1>3, DivisorWindow
  <2>2. Instant(q.from, 0) <= x /\ x < Instant(q.to + 1, 0)
    BY <1>1, <1>3, <2>1, QueryRange
  <2>3. x \in Instant(q.from, 0)..(Instant(q.to + 1, 0) - 1)
    <3>1. PICK lo \in Int, hi \in Int : lo = Instant(q.from, 0) /\ hi = Instant(q.to + 1, 0)
      <4>1. 0 \in 0..(DayLen - 1) /\ q.to + 1 \in Int
        BY <1>1, WindowAssumption
      <4>2. QED
        BY <1>1, <4>1, PartsOf
    <3>2. x \in lo..(hi - 1)
      BY <1>3, <2>2, <3>1
    <3>3. QED
      BY <3>1, <3>2
  <2>4. QED
    BY <2>1, <2>3 DEF OpenMinutes
<1>4. QED
  BY <1>2, <1>3

----------------------------------------------------------------------------
(* Reports: rows of windows *)

\* Meetings of one room do not overlap.
NoClash == \A a, b \in busy : a # b /\ a.room = b.room => ~Overlap(a, b)

\* A booking accepted keeps the meetings apart, whatever the gap.
LEMMA BookedApart ==
    ASSUME PickerType, NoClash, NEW m \in Meetings, Booked(m)
    PROVE  NoClash'
<1>0. rules \in RuleSets /\ busy \in SUBSET AnyMeeting /\ m \in AnyMeeting
  BY DEF PickerType, AnyMeeting
<1>1. busy' = busy \cup {m} /\ Blocking(rules, m.room, m, busy) = {}
  BY DEF Booked
<1>2. ASSUME NEW a \in busy, a.room = m.room PROVE ~Overlap(a, m) /\ ~Overlap(m, a)
  <2>1. ~Overlap(a, Widened(rules, m))
    BY <1>1, <1>2 DEF Blocking
  <2>2. PICK buffer \in Nat : buffer = rules.buffer
    BY <1>0, Schema
  <2>3. PICK f \in Int, g \in Int : f = m.from /\ g = m.to
    BY <1>0, MeetingFacts
  <2>4. PICK h \in Int, i \in Int : h = a.from /\ i = a.to
    BY <1>0, MeetingFacts
  <2>5. ~(h < g + buffer /\ f - buffer < i)
    BY <2>1, <2>2, <2>3, <2>4 DEF Overlap, Widened
  <2>6. ~(h < g /\ f < i)
    BY <2>5
  <2>7. QED
    BY <2>3, <2>4, <2>6 DEF Overlap
<1>3. QED
  BY <1>1, <1>2 DEF NoClash

\* Nothing else adds a meeting.
LEMMA NoClashStep == PickerType /\ NoClash /\ [Next]_vars => NoClash'
<1> SUFFICES ASSUME PickerType, NoClash, [Next]_vars PROVE NoClash'
  OBVIOUS
<1>1. UNCHANGED busy => NoClash'
  BY DEF NoClash
<1>2. ASSUME NEW c, NEW i, Tap(c, i) \/ ChooseStart(c, i) PROVE NoClash'
  BY <1>1, <1>2 DEF Tap, ChooseStart, Select, Show
<1>3. ASSUME NEW i, ChooseEnd(i) PROVE NoClash'
  BY <1>1, <1>3 DEF ChooseEnd, Select, Show
<1>4. ASSUME NEW c, SwitchRoom(c) PROVE NoClash'
  BY <1>1, <1>4 DEF SwitchRoom, Select, Show
<1>5. ASSUME NEW d, ChangeDate(d) PROVE NoClash'
  BY <1>1, <1>5 DEF ChangeDate, Show
<1>6. CASE Stretch \/ Shrink \/ Clear
  BY <1>1, <1>6 DEF Stretch, Shrink, Clear, Select, Show
<1>7. CASE Poll \/ Tick
  BY <1>1, <1>7 DEF Poll, Tick, Show
<1>8. ASSUME NEW m \in Meetings, Booked(m) PROVE NoClash'
  BY <1>8, BookedApart
<1>9. ASSUME NEW m \in Meetings, Cancelled(m) PROVE NoClash'
  BY <1>9 DEF Cancelled, NoClash
<1>10. CASE UNCHANGED vars
  BY <1>1, <1>10 DEF vars
<1>11. QED
  BY <1>2, <1>3, <1>4, <1>5, <1>6, <1>7, <1>8, <1>9, <1>10 DEF Next

\* No two meetings that have been booked into a room overlap, gap or no gap.
THEOREM NoClashes == Spec => [](PickerType /\ NoClash)
<1>1. Init => NoClash
  BY DEF Init, NoClash
<1>2. QED
  BY <1>1, PickerTypeInit, PickerTypeStep, NoClashStep, PTL DEF Spec


\* What the row of a key is about: its windows, its minutes, its bookings.
KeyWindows(created, t, q, key) == {w \in Divisor(rules, created, t, q) : <<w.room, Period(q, w.day)>> = key}
KeyMinutes(created, t, q, key) == {x \in OpenMinutes(created, q, t, key[1]) : Period(q, Date(x)) = key[2]}
KeyBookings(bookings, q, key) == {b \in InRange(q, bookings) : <<b.room, Period(q, Date(b.from))>> = key}

\* There are finitely many windows.
LEMMA DivisorFinite ==
    ASSUME NEW t, NEW q, NEW created, NEW bookings, ReportOn(t, q, created, bookings)
    PROVE  IsFiniteSet(Divisor(rules, created, t, q))
<1> DEFINE P == Scope(q) \X (q.from..q.to)
           f == [p \in P |-> DayWindow(rules, created, t, p[1], p[2])]
           T == {f[p] : p \in P}
<1>1. IsFiniteSet(Scope(q))
  BY PickerAssumption, FS_Subset DEF Scope
<1>2. IsFiniteSet(q.from..q.to)
  BY FS_Interval DEF ReportOn
<1>3. IsFiniteSet(P)
  BY <1>1, <1>2, FS_Product
<1>4. f \in Surjection(P, T)
  BY DEF Surjection
<1>5. IsFiniteSet(T)
  BY <1>3, <1>4, FS_Surjection
<1>6. Divisor(rules, created, t, q) \subseteq T
  <2>1. ASSUME NEW w \in Divisor(rules, created, t, q) PROVE w \in T
    <3>1. PICK r \in Scope(q), d \in q.from..q.to : w = DayWindow(rules, created, t, r, d)
      BY DEF Divisor
    <3>2. <<r, d>> \in P /\ f[<<r, d>>] = w
      BY <3>1
    <3>3. QED
      BY <3>2
  <2>2. QED
    BY <2>1
<1> HIDE DEF T
<1>7. QED
  BY <1>5, <1>6, FS_Subset

\* Two windows of a row have no minute in common.
LEMMA KeyWindowsApart ==
    ASSUME NEW t, NEW q, NEW created, NEW bookings, ReportOn(t, q, created, bookings), NEW key,
           NEW v \in KeyWindows(created, t, q, key), NEW w \in KeyWindows(created, t, q, key),
           NEW x \in Int, Within(v, x), Within(w, x)
    PROVE  v = w
<1>1. v \in Divisor(rules, created, t, q) /\ w \in Divisor(rules, created, t, q) /\ v.room = w.room
  BY DEF KeyWindows
<1>2. v = DayWindow(rules, created, t, v.room, v.day) /\ Date(x) = v.day
  BY <1>1, DivisorWindow
<1>3. w = DayWindow(rules, created, t, w.room, w.day) /\ Date(x) = w.day
  BY <1>1, DivisorWindow
<1>4. QED
  BY <1>1, <1>2, <1>3

\* The open minutes of a row are those of its windows.
LEMMA KeyMinutesAre ==
    ASSUME NEW t, NEW q, NEW created, NEW bookings, ReportOn(t, q, created, bookings),
           NEW r \in Scope(q), NEW p, NEW x
    PROVE  x \in KeyMinutes(created, t, q, <<r, p>>) <=>
             x \in Int /\ \E w \in KeyWindows(created, t, q, <<r, p>>) : Within(w, x)
<1> DEFINE key == <<r, p>>
<1>1. key[1] = r /\ key[2] = p
  OBVIOUS
<1>2. ASSUME x \in KeyMinutes(created, t, q, key)
      PROVE  x \in Int /\ \E w \in KeyWindows(created, t, q, key) : Within(w, x)
  <2>1. x \in OpenMinutes(created, q, t, r) /\ Period(q, Date(x)) = p
    BY <1>2 DEF KeyMinutes
  <2>2. PICK w \in Divisor(rules, created, t, q) : x \in Int /\ w.room = r /\ w.day = Date(x) /\ Within(w, x)
    BY <2>1, DivisorMinutes
  <2>3. QED
    BY <2>1, <2>2 DEF KeyWindows
<1>3. ASSUME x \in Int, NEW w \in KeyWindows(created, t, q, key), Within(w, x)
      PROVE  x \in KeyMinutes(created, t, q, key)
  <2>1. w \in Divisor(rules, created, t, q) /\ w.room = r /\ Period(q, w.day) = p
    BY DEF KeyWindows
  <2>2. Date(x) = w.day
    BY <1>3, <2>1, DivisorWindow
  <2>3. x \in OpenMinutes(created, q, t, r)
    BY <1>3, <2>1, <2>2, DivisorMinutes
  <2>4. QED
    BY <1>1, <2>1, <2>2, <2>3 DEF KeyMinutes
<1>4. QED
  BY <1>2, <1>3

\* The divisor of a row is the number of its open minutes.
LEMMA AvailableCounts ==
    ASSUME NEW t, NEW q, NEW created, NEW bookings, ReportOn(t, q, created, bookings),
           NEW r \in Scope(q), NEW p
    PROVE  /\ Total(KeyWindows(created, t, q, <<r, p>>)) = Cardinality(KeyMinutes(created, t, q, <<r, p>>))
           /\ IsFiniteSet(KeyMinutes(created, t, q, <<r, p>>))
<1> DEFINE S == KeyWindows(created, t, q, <<r, p>>)
           share == [w \in S |-> w.from..(w.to - 1)]
<1>1. IsFiniteSet(S)
  BY DivisorFinite, FS_Subset DEF KeyWindows
<1>2. ASSUME NEW w \in S
      PROVE  /\ IsFiniteSet(share[w]) /\ Length(w) = Cardinality(share[w])
             /\ \A x : x \in share[w] <=> x \in Int /\ Within(w, x)
  <2>1. w \in Divisor(rules, created, t, q)
    BY DEF KeyWindows
  <2>2. PICK a \in Int, b \in Int : a = w.from /\ b = w.to /\ a < b
    BY <2>1, DivisorWindow
  <2>3. share[w] = a..(b - 1)
    BY <2>2
  <2>4. IsFiniteSet(a..(b - 1)) /\ Cardinality(a..(b - 1)) = b - a
    BY <2>2, RangeCount
  <2>5. \A x : x \in a..(b - 1) <=> x \in Int /\ a <= x /\ x < b
    OBVIOUS
  <2>6. QED
    BY <2>2, <2>3, <2>4, <2>5 DEF Length, Within
<1> HIDE DEF S, share
<1>3. Parted(S, share)
  <2>1. ASSUME NEW v \in S, NEW w \in S, NEW x \in share[v] \cap share[w] PROVE v = w
    <3>1. x \in Int /\ Within(v, x) /\ Within(w, x)
      BY <1>2
    <3>2. QED
      BY <3>1, KeyWindowsApart DEF S
  <2>2. QED
    BY <1>1, <1>2, <2>1 DEF Parted
<1>4. Joined(share, S) = KeyMinutes(created, t, q, <<r, p>>)
  <2>1. ASSUME NEW x PROVE x \in Joined(share, S) <=> x \in KeyMinutes(created, t, q, <<r, p>>)
    <3>1. x \in Joined(share, S) <=> x \in Int /\ \E w \in S : Within(w, x)
      BY <1>2 DEF Joined
    <3>2. QED
      BY <3>1, KeyMinutesAre DEF S
  <2>2. QED
    BY <2>1
<1>5. Total(S) = Cardinality(Joined(share, S)) /\ IsFiniteSet(Joined(share, S))
  BY <1>2, <1>3, LengthsCount, JoinedFinite
<1>6. QED
  BY <1>4, <1>5 DEF S

----------------------------------------------------------------------------
(* Reports: used time *)

\* The cuts of a row: its used meetings with its windows.
KeyCuts(created, bookings, t, q, key) ==
    {x \in With(bookings, Used) \X KeyWindows(created, t, q, key) :
        x[1].room = x[2].room /\ Overlap(x[1], x[2])}

\* A cut has the minutes common to the meeting and the window.
LEMMA CutMinutes ==
    ASSUME NEW b, NEW w, b.from \in Int, b.to \in Int, w.from \in Int, w.to \in Int,
           b.from < b.to, w.from < w.to, Overlap(b, w), NEW c, c = Cut(b, w)
    PROVE  /\ c.from \in Int /\ c.to \in Int /\ c.from < c.to
           /\ \A x \in Int : Within(c, x) <=> Within(b, x) /\ Within(w, x)
<1>1. PICK f \in Int, g \in Int, h \in Int, i \in Int : f = b.from /\ g = b.to /\ h = w.from /\ i = w.to
  OBVIOUS
<1>2. PICK u : u = Later(f, h)
  OBVIOUS
<1>3. PICK v : v = Earlier(g, i)
  OBVIOUS
<1>4. c = [from |-> u, to |-> v]
  BY <1>1, <1>2, <1>3 DEF Cut, Later, Earlier
<1>5. u \in Int /\ \A x \in Int : u <= x <=> f <= x /\ h <= x
  BY <1>2, MaxMin
<1>6. v \in Int /\ \A x \in Int : x < v <=> x < g /\ x < i
  BY <1>3, MaxMin
<1>7. f < g /\ h < i /\ f < i /\ h < g
  BY <1>1 DEF Overlap
<1>8. u = f \/ u = h
  <2>1. u <= f \/ u <= h
    BY <1>5
  <2>2. f <= u /\ h <= u
    BY <1>5
  <2>3. QED
    BY <1>5, <2>1, <2>2
<1>9. u < v
  BY <1>5, <1>6, <1>7, <1>8
<1>10. c.from = u /\ c.to = v
  BY <1>4
<1>11. \A x \in Int : Within(c, x) <=> u <= x /\ x < v
  BY <1>10 DEF Within
<1>12. \A x \in Int : Within(b, x) /\ Within(w, x) <=> f <= x /\ x < g /\ h <= x /\ x < i
  BY <1>1 DEF Within
<1>13. QED
  BY <1>5, <1>6, <1>9, <1>10, <1>11, <1>12

\* The used time of a row is the number of its open minutes in a meeting.
LEMMA UsedCounts ==
    ASSUME NEW t, NEW q, NEW created, NEW bookings, ReportOn(t, q, created, bookings),
           NEW r \in Scope(q), NEW p
    PROVE  /\ MapThenSumSet(LAMBDA x : Length(Cut(x[1], x[2])), KeyCuts(created, bookings, t, q, <<r, p>>)) =
                Cardinality(MetMinutes(bookings, KeyMinutes(created, t, q, <<r, p>>), r))
           /\ IsFiniteSet(MetMinutes(bookings, KeyMinutes(created, t, q, <<r, p>>), r))
<1> DEFINE S == KeyCuts(created, bookings, t, q, <<r, p>>)
           share == [x \in S |-> Cut(x[1], x[2]).from..(Cut(x[1], x[2]).to - 1)]
           met == MetMinutes(bookings, KeyMinutes(created, t, q, <<r, p>>), r)
<1>0. \A b \in bookings : b.room \in Rooms /\ b.from \in Int /\ b.to \in Int /\ b.from < b.to
  BY DEF ReportOn
<1>1. IsFiniteSet(S)
  <2>1. IsFiniteSet(With(bookings, Used))
    BY FS_Subset DEF ReportOn, With
  <2>2. IsFiniteSet(KeyWindows(created, t, q, <<r, p>>))
    BY DivisorFinite, FS_Subset DEF KeyWindows
  <2>3. IsFiniteSet(With(bookings, Used) \X KeyWindows(created, t, q, <<r, p>>))
    BY <2>1, <2>2, FS_Product
  <2>4. QED
    BY <2>3, FS_Subset DEF KeyCuts
<1>2. ASSUME NEW e \in S
      PROVE  /\ e[1] \in With(bookings, Used) /\ e[1] \in bookings
             /\ e[2] \in KeyWindows(created, t, q, <<r, p>>)
             /\ e = <<e[1], e[2]>> /\ e[1].room = r /\ e[2].room = r /\ Overlap(e[1], e[2])
  BY DEF KeyCuts, KeyWindows, With
<1>3. ASSUME NEW w \in KeyWindows(created, t, q, <<r, p>>)
      PROVE  w.from \in Int /\ w.to \in Int /\ w.from < w.to /\ w.room = r
  <2>1. w \in Divisor(rules, created, t, q) /\ w.room = r
    BY DEF KeyWindows
  <2>2. QED
    BY <2>1, DivisorWindow
<1>4. ASSUME NEW e \in S
      PROVE  /\ IsFiniteSet(share[e]) /\ Length(Cut(e[1], e[2])) = Cardinality(share[e])
             /\ \A x : x \in share[e] <=> x \in Int /\ Within(e[1], x) /\ Within(e[2], x)
  <2>1. PICK b, w, c : b = e[1] /\ w = e[2] /\ c = Cut(e[1], e[2])
    OBVIOUS
  <2>2. b.from \in Int /\ b.to \in Int /\ b.from < b.to
    BY <1>0, <1>2, <2>1
  <2>3. w.from \in Int /\ w.to \in Int /\ w.from < w.to
    BY <1>2, <1>3, <2>1
  <2>4. /\ c.from \in Int /\ c.to \in Int /\ c.from < c.to
        /\ \A x \in Int : Within(c, x) <=> Within(b, x) /\ Within(w, x)
    BY <1>2, <2>1, <2>2, <2>3, CutMinutes
  <2>5. PICK u \in Int, v \in Int : u = c.from /\ v = c.to /\ u < v
    BY <2>4
  <2>6. share[e] = u..(v - 1)
    BY <2>1, <2>5
  <2>7. IsFiniteSet(u..(v - 1)) /\ Cardinality(u..(v - 1)) = v - u
    BY <2>5, RangeCount
  <2>8. \A x : x \in u..(v - 1) <=> x \in Int /\ u <= x /\ x < v
    OBVIOUS
  <2>9. \A x \in Int : u <= x /\ x < v <=> Within(c, x)
    BY <2>5 DEF Within
  <2>10. Length(Cut(e[1], e[2])) = v - u
    BY <2>1, <2>5 DEF Length
  <2> HIDE DEF share
  <2>11. \A x : x \in share[e] <=> x \in Int /\ Within(b, x) /\ Within(w, x)
    BY <2>4, <2>6, <2>8, <2>9
  <2>12. QED
    BY <2>1, <2>6, <2>7, <2>10, <2>11
<1> HIDE DEF S, share, met
<1>5. Parted(S, share)
  <2>1. ASSUME NEW d \in S, NEW e \in S, NEW x \in share[d] \cap share[e] PROVE d = e
    <3>1. x \in Int /\ Within(d[1], x) /\ Within(d[2], x) /\ Within(e[1], x) /\ Within(e[2], x)
      BY <1>4
    <3>2. d[2] \in KeyWindows(created, t, q, <<r, p>>) /\ e[2] \in KeyWindows(created, t, q, <<r, p>>)
      BY <1>2
    <3>3. d[2] = e[2]
      BY <3>1, <3>2, KeyWindowsApart
    <3>4. PICK a, b : a = d[1] /\ b = e[1]
      OBVIOUS
    <3>5. a \in With(bookings, Used) /\ b \in With(bookings, Used) /\ a.room = b.room
      BY <1>2, <3>4
    <3>6. Overlap(a, b)
      <4>1. PICK f \in Int, g \in Int, h \in Int, i \in Int : f = a.from /\ g = a.to /\ h = b.from /\ i = b.to
        BY <1>0, <1>2, <3>4
      <4>2. f <= x /\ x < g /\ h <= x /\ x < i
        BY <3>1, <3>4, <4>1 DEF Within
      <4>3. f < i /\ h < g
        BY <3>1, <4>2
      <4>4. QED
        BY <4>1, <4>3 DEF Overlap
    <3>7. a = b
      BY <3>5, <3>6 DEF ReportOn
    <3>8. QED
      BY <1>2, <3>3, <3>4, <3>7
  <2>2. QED
    BY <1>1, <1>4, <2>1 DEF Parted
<1>6. Joined(share, S) = met
  <2>1. ASSUME NEW x PROVE x \in Joined(share, S) <=> x \in met
    <3>1. x \in Joined(share, S) <=> x \in Int /\ \E e \in S : Within(e[1], x) /\ Within(e[2], x)
      BY <1>4 DEF Joined
    <3>2. x \in met <=> /\ x \in Int /\ \E w \in KeyWindows(created, t, q, <<r, p>>) : Within(w, x)
                        /\ \E b \in With(bookings, Used) : b.room = r /\ Within(b, x)
      BY KeyMinutesAre DEF met, MetMinutes, Within
    <3>3. ASSUME x \in Int, NEW e \in S, Within(e[1], x), Within(e[2], x) PROVE x \in met
      BY <1>2, <3>2, <3>3
    <3>4. ASSUME x \in met PROVE x \in Int /\ \E e \in S : Within(e[1], x) /\ Within(e[2], x)
      <4>1. PICK w \in KeyWindows(created, t, q, <<r, p>>) : x \in Int /\ Within(w, x)
        BY <3>2, <3>4
      <4>2. PICK b \in With(bookings, Used) : b.room = r /\ Within(b, x)
        BY <3>2, <3>4
      <4>3. b \in bookings
        BY DEF With
      <4>4. PICK f \in Int, g \in Int, h \in Int, i \in Int : f = b.from /\ g = b.to /\ h = w.from /\ i = w.to
        BY <1>0, <1>3, <4>3
      <4>5. f <= x /\ x < g /\ h <= x /\ x < i
        BY <4>1, <4>2, <4>4 DEF Within
      <4>6. f < i /\ h < g
        BY <4>1, <4>5
      <4>7. Overlap(b, w) /\ w.room = r
        BY <1>3, <4>4, <4>6 DEF Overlap
      <4>8. <<b, w>> \in S
        BY <4>2, <4>7 DEF S, KeyCuts
      <4>9. QED
        BY <4>1, <4>2, <4>8
    <3>5. QED
      BY <3>1, <3>3, <3>4
  <2>2. QED
    BY <2>1
<1>7. /\ MapThenSumSet(LAMBDA x : Length(Cut(x[1], x[2])), S) = Cardinality(Joined(share, S))
      /\ IsFiniteSet(Joined(share, S))
  BY <1>4, <1>5, CutsCount, JoinedFinite
<1>8. QED
  BY <1>6, <1>7 DEF S, met

----------------------------------------------------------------------------
(* Reports: what the rows share out *)

\* Every booking with each of its minutes.
Spent(S) == UNION {{b} \X (b.from..(b.to - 1)) : b \in S}

\* A set paired with one element is as large.
LEMMA PairsCount ==
    ASSUME NEW a, NEW S, IsFiniteSet(S)
    PROVE  IsFiniteSet({a} \X S) /\ Cardinality({a} \X S) = Cardinality(S)
<1>1. IsFiniteSet({a}) /\ Cardinality({a}) = 1
  BY FS_Singleton
<1>2. Cardinality(S) \in Nat
  BY FS_CardinalityType
<1>3. IsFiniteSet({a} \X S) /\ Cardinality({a} \X S) = Cardinality({a}) * Cardinality(S)
  BY <1>1, FS_Product
<1>4. QED
  BY <1>1, <1>2, <1>3

\* The total of bookings is the number of their minutes.
LEMMA TotalSpent ==
    ASSUME NEW S, IsFiniteSet(S), \A b \in S : b.from \in Int /\ b.to \in Int /\ b.from < b.to
    PROVE  Total(S) = Cardinality(Spent(S)) /\ IsFiniteSet(Spent(S))
<1> DEFINE share == [b \in S |-> {b} \X (b.from..(b.to - 1))]
<1>1. ASSUME NEW b \in S
      PROVE  IsFiniteSet(share[b]) /\ Length(b) = Cardinality(share[b])
  <2>1. PICK f \in Int, g \in Int : f = b.from /\ g = b.to /\ f < g
    OBVIOUS
  <2>2. IsFiniteSet(f..(g - 1)) /\ Cardinality(f..(g - 1)) = g - f
    BY <2>1, RangeCount
  <2>3. share[b] = {b} \X (f..(g - 1))
    BY <2>1
  <2>4. IsFiniteSet({b} \X (f..(g - 1))) /\ Cardinality({b} \X (f..(g - 1))) = g - f
    BY <2>2, PairsCount
  <2>5. Length(b) = g - f
    BY <2>1 DEF Length
  <2>6. QED
    BY <2>3, <2>4, <2>5
<1>2. \A a, b \in S : a # b => share[a] \cap share[b] = {}
  OBVIOUS
<1>3. Joined(share, S) = Spent(S)
  BY DEF Joined, Spent
<1> HIDE DEF share
<1>4. Parted(S, share)
  BY <1>1, <1>2 DEF Parted
<1>5. QED
  BY <1>1, <1>3, <1>4, LengthsCount, JoinedFinite

\* Each row counts the elements of U that are its own, and no element is nobody's.
Theirs(U, of, key) == {e \in U : of[e] = key}
CountsTheirs(rows, U, of, at, field) ==
    /\ IsFiniteSet(rows) /\ IsFiniteSet(U)
    /\ \A row \in rows : row[field] = Cardinality(Theirs(U, of, at[row]))
    /\ \A a, b \in rows : at[a] = at[b] => a = b
    /\ \A e \in U : \E row \in rows : at[row] = of[e]
\* A field of such rows adds up to the number of elements.
LEMMA RowsCount ==
    ASSUME NEW rows, NEW U, NEW of, NEW at, NEW field, CountsTheirs(rows, U, of, at, field)
    PROVE  Sum_(rows, field) = Cardinality(U) /\ OutcomeTotal(rows, field) = Cardinality(U)
<1> DEFINE share == [row \in rows |-> {e \in U : of[e] = at[row]}]
<1>1. \A row \in rows : share[row] \subseteq U
  OBVIOUS
<1>2. \A row \in rows : IsFiniteSet(share[row])
  BY <1>1, FS_Subset DEF CountsTheirs
<1>3. \A a, b \in rows : a # b => share[a] \cap share[b] = {}
  BY DEF CountsTheirs
<1>4. Joined(share, rows) = U
  BY DEF Joined, CountsTheirs
<1>5. \A row \in rows : row[field] = Cardinality(share[row])
  BY DEF CountsTheirs, Theirs
<1> HIDE DEF share
<1>6. Parted(rows, share)
  BY <1>2, <1>3 DEF Parted, CountsTheirs
<1>7. QED
  BY <1>4, <1>5, <1>6, FieldsCount


\* A room and a minute it was open, or in a meeting.
OpenPairs(created, t, q) == UNION {{r} \X OpenMinutes(created, q, t, r) : r \in Scope(q)}
MetPairs(created, bookings, t, q) ==
    UNION {{r} \X MetMinutes(bookings, OpenMinutes(created, q, t, r), r) : r \in Scope(q)}
Blocked == Used \cup {"CONFIRMED"}

\* The bookings in range are those whose day is asked about.
LEMMA InRangeFacts ==
    ASSUME NEW t, NEW q, NEW created, NEW bookings, ReportOn(t, q, created, bookings)
    PROVE  /\ IsFiniteSet(InRange(q, bookings))
           /\ \A b \in bookings :
                b \in InRange(q, bookings) <=> b.room \in Scope(q) /\ Date(b.from) \in q.from..q.to
           /\ \A b \in InRange(q, bookings) : b \in bookings
<1>1. \A b \in bookings : b.from \in Int
  BY DEF ReportOn
<1>2. q.from \in Int /\ q.to \in Int
  BY DEF ReportOn
<1>3. \A b \in bookings :
        Instant(q.from, 0) <= b.from /\ b.from < Instant(q.to + 1, 0) <=> Date(b.from) \in q.from..q.to
  BY <1>1, <1>2, QueryRange
<1>4. IsFiniteSet(bookings)
  BY DEF ReportOn
<1>5. IsFiniteSet(InRange(q, bookings))
  BY <1>4, FS_Subset DEF InRange
<1>6. QED
  BY <1>3, <1>5 DEF InRange

\* There are finitely many minutes to count.
LEMMA OpenFinite ==
    ASSUME NEW t, NEW q, NEW created, NEW bookings, ReportOn(t, q, created, bookings)
    PROVE  /\ \A r \in Scope(q) : IsFiniteSet(OpenMinutes(created, q, t, r))
           /\ IsFiniteSet(OpenPairs(created, t, q)) /\ IsFiniteSet(MetPairs(created, bookings, t, q))
<1>1. PICK lo \in Int, hi \in Int : lo = Instant(q.from, 0) /\ hi = Instant(q.to + 1, 0)
  <2>1. 0 \in 0..(DayLen - 1) /\ q.to + 1 \in Int /\ q.from \in Int
    BY WindowAssumption DEF ReportOn
  <2>2. QED
    BY <2>1, PartsOf
<1>2. IsFiniteSet(lo..(hi - 1))
  <2>1. hi - 1 \in Int
    BY <1>1
  <2>2. QED
    BY <2>1, FS_Interval
<1>3. \A r : OpenMinutes(created, q, t, r) \subseteq lo..(hi - 1)
  BY <1>1 DEF OpenMinutes
<1>4. \A r : IsFiniteSet(OpenMinutes(created, q, t, r))
  BY <1>2, <1>3, FS_Subset
<1>5. IsFiniteSet(Scope(q))
  BY PickerAssumption, FS_Subset DEF Scope
<1>6. IsFiniteSet(Scope(q) \X (lo..(hi - 1)))
  BY <1>2, <1>5, FS_Product
<1>7. OpenPairs(created, t, q) \subseteq Scope(q) \X (lo..(hi - 1))
  BY <1>3 DEF OpenPairs
<1>8. MetPairs(created, bookings, t, q) \subseteq OpenPairs(created, t, q)
  BY DEF OpenPairs, MetPairs, MetMinutes
<1>9. IsFiniteSet(OpenPairs(created, t, q))
  BY <1>6, <1>7, FS_Subset
<1>10. QED
  BY <1>4, <1>8, <1>9, FS_Subset

\* The keys of the rows: of rooms in scope and periods of the days asked about, and there is one for
\* each window and booking.
LEMMA KeysFacts ==
    ASSUME NEW t, NEW q, NEW created, NEW bookings, ReportOn(t, q, created, bookings),
           NEW K, K = Keys(rules, created, bookings, t, q)
    PROVE  /\ IsFiniteSet(K)
           /\ \A key \in K : \E r \in Scope(q), d \in q.from..q.to : key = <<r, Period(q, d)>>
           /\ \A r \in Scope(q) : \A x \in OpenMinutes(created, q, t, r) : <<r, Period(q, Date(x))>> \in K
           /\ \A b \in InRange(q, bookings) : <<b.room, Period(q, Date(b.from))>> \in K
<1> DEFINE D == Divisor(rules, created, t, q)
           B == InRange(q, bookings)
           ofD == [w \in D |-> <<w.room, Period(q, w.day)>>]
           ofB == [b \in B |-> <<b.room, Period(q, Date(b.from))>>]
           KD == {ofD[w] : w \in D}
           KB == {ofB[b] : b \in B}
<1>1. \A b \in B : b.room \in Scope(q) /\ Date(b.from) \in q.from..q.to
  BY InRangeFacts
<1>2. \A w \in D : w.room \in Scope(q) /\ w.day \in q.from..q.to
  BY DivisorWindow
<1>3. \A r \in Scope(q) : \A x \in OpenMinutes(created, q, t, r) : \E w \in D : w.room = r /\ w.day = Date(x)
  BY DivisorMinutes
<1>4. CASE q.by = "month"
  <2>1. K = KD \cup KB
    BY <1>4 DEF Keys
  <2>2. IsFiniteSet(KD)
    <3>1. ofD \in Surjection(D, KD)
      BY DEF Surjection
    <3>2. QED
      BY <3>1, DivisorFinite, FS_Surjection
  <2>3. IsFiniteSet(KB)
    <3>1. ofB \in Surjection(B, KB)
      BY DEF Surjection
    <3>2. IsFiniteSet(B)
      BY InRangeFacts
    <3>3. QED
      BY <3>1, <3>2, FS_Surjection
  <2>4. IsFiniteSet(K)
    <3> HIDE DEF KD, KB
    <3>1. QED
      BY <2>1, <2>2, <2>3, FS_Union
  <2>5. \A key \in K : \E r \in Scope(q), d \in q.from..q.to : key = <<r, Period(q, d)>>
    BY <1>1, <1>2, <2>1
  <2>6. \A r \in Scope(q) : \A x \in OpenMinutes(created, q, t, r) : <<r, Period(q, Date(x))>> \in K
    BY <1>3, <2>1
  <2>7. \A b \in B : <<b.room, Period(q, Date(b.from))>> \in K
    BY <2>1
  <2>8. QED
    BY <2>4, <2>5, <2>6, <2>7
<1>5. CASE q.by # "month"
  <2> DEFINE f == [r \in Scope(q) |-> <<r, AllTime>>]
             T == {f[r] : r \in Scope(q)}
  <2>1. K = T
    BY <1>5 DEF Keys
  <2>2. \A d : Period(q, d) = AllTime
    BY <1>5 DEF Period
  <2>3. IsFiniteSet(Scope(q))
    BY PickerAssumption, FS_Subset DEF Scope
  <2>4. f \in Surjection(Scope(q), T)
    BY DEF Surjection
  <2>5. IsFiniteSet(T)
    BY <2>3, <2>4, FS_Surjection
  <2>6. q.from \in q.from..q.to
    BY DEF ReportOn
  <2>7. \A r \in Scope(q) : <<r, AllTime>> \in T
    OBVIOUS
  <2>8. \A key \in T : \E r \in Scope(q) : key = <<r, AllTime>>
    OBVIOUS
  <2> HIDE DEF T
  <2>9. QED
    BY <1>1, <2>1, <2>2, <2>5, <2>6, <2>7, <2>8
<1>6. QED
  BY <1>4, <1>5

----------------------------------------------------------------------------
(* Reports: sums over the rows *)

\* Each figure of a row is the number of something.
LEMMA UtilizationRowIs ==
    ASSUME NEW t, NEW q, NEW created, NEW bookings, ReportOn(t, q, created, bookings),
           NEW r \in Scope(q), NEW p, NEW row, row = UtilizationRow(rules, created, bookings, t, q, <<r, p>>)
    PROVE  /\ row.key = <<r, p>>
           /\ row.available = Cardinality(KeyMinutes(created, t, q, <<r, p>>))
           /\ row.used = Cardinality(MetMinutes(bookings, KeyMinutes(created, t, q, <<r, p>>), r))
           /\ row.booked = Cardinality(Spent(With(KeyBookings(bookings, q, <<r, p>>), Blocked)))
           /\ row.completed = Cardinality(With(KeyBookings(bookings, q, <<r, p>>), {"COMPLETED"}))
           /\ row.cancelled = Cardinality(With(KeyBookings(bookings, q, <<r, p>>), {"CANCELLED"}))
           /\ row.released = Cardinality(With(KeyBookings(bookings, q, <<r, p>>), {"AUTO_RELEASED"}))
<1> DEFINE key == <<r, p>>
           here == KeyBookings(bookings, q, key)
           cuts == KeyCuts(created, bookings, t, q, key)
<1>1. row = [key       |-> key,
             available |-> Total(KeyWindows(created, t, q, key)),
             used      |-> MapThenSumSet(LAMBDA x : Length(Cut(x[1], x[2])), cuts),
             booked    |-> Total(With(here, Blocked)),
             completed |-> Cardinality(With(here, {"COMPLETED"})),
             cancelled |-> Cardinality(With(here, {"CANCELLED"})),
             released  |-> Cardinality(With(here, {"AUTO_RELEASED"}))]
  BY DEF UtilizationRow, KeyWindows, KeyBookings, KeyCuts, Blocked
<1>2. Total(KeyWindows(created, t, q, key)) = Cardinality(KeyMinutes(created, t, q, key))
  BY AvailableCounts
<1>3. MapThenSumSet(LAMBDA x : Length(Cut(x[1], x[2])), cuts) =
        Cardinality(MetMinutes(bookings, KeyMinutes(created, t, q, key), r))
  BY UsedCounts
<1>4. Total(With(here, Blocked)) = Cardinality(Spent(With(here, Blocked)))
  <2>1. IsFiniteSet(InRange(q, bookings)) /\ \A b \in InRange(q, bookings) : b \in bookings
    BY InRangeFacts
  <2>2. With(here, Blocked) \subseteq InRange(q, bookings)
    BY DEF With, KeyBookings
  <2>3. IsFiniteSet(With(here, Blocked))
    BY <2>1, <2>2, FS_Subset
  <2>4. \A b \in With(here, Blocked) : b.from \in Int /\ b.to \in Int /\ b.from < b.to
    BY <2>1, <2>2 DEF ReportOn
  <2>5. QED
    BY <2>3, <2>4, TotalSpent
<1> HIDE DEF key, here, cuts
<1>5. QED
  BY <1>1, <1>2, <1>3, <1>4 DEF key, here

\* The sums over the rows, whatever they are grouped by.
LEMMA UtilizationSums ==
    ASSUME NEW t, NEW q, NEW created, NEW bookings, ReportOn(t, q, created, bookings),
           NEW rows, rows = Utilization(rules, created, bookings, t, q)
    PROVE  /\ Sum_(rows, "available") = Cardinality(OpenPairs(created, t, q))
           /\ Sum_(rows, "used") = Cardinality(MetPairs(created, bookings, t, q))
           /\ Sum_(rows, "booked") = Cardinality(Spent(With(InRange(q, bookings), Blocked)))
           /\ Sum_(rows, "completed") = Cardinality(With(InRange(q, bookings), {"COMPLETED"}))
           /\ Sum_(rows, "cancelled") = Cardinality(With(InRange(q, bookings), {"CANCELLED"}))
           /\ Sum_(rows, "released") = Cardinality(With(InRange(q, bookings), {"AUTO_RELEASED"}))
<1> DEFINE K == Keys(rules, created, bookings, t, q)
           Row(key) == UtilizationRow(rules, created, bookings, t, q, key)
           make == [key \in K |-> Row(key)]
           at == [row \in rows |-> row.key]
           B == InRange(q, bookings)
           Periods == {Period(q, d) : d \in q.from..q.to}
           ofPair(U) == [e \in U |-> <<e[1], Period(q, Date(e[2]))>>]
           ofSpent(U) == [e \in U |-> <<e[1].room, Period(q, Date(e[1].from))>>]
           ofBooking(U) == [b \in U |-> <<b.room, Period(q, Date(b.from))>>]
<1>1. /\ IsFiniteSet(K)
      /\ \A key \in K : \E r \in Scope(q), d \in q.from..q.to : key = <<r, Period(q, d)>>
      /\ \A r \in Scope(q) : \A x \in OpenMinutes(created, q, t, r) : <<r, Period(q, Date(x))>> \in K
      /\ \A b \in B : <<b.room, Period(q, Date(b.from))>> \in K
  BY KeysFacts
<1>2. rows = {make[key] : key \in K}
  BY DEF Utilization
<1>3. IsFiniteSet(rows)
  <2>1. make \in Surjection(K, rows)
    BY <1>2 DEF Surjection
  <2>2. QED
    BY <1>1, <2>1, FS_Surjection
<1>4. \A key \in K : Row(key).key = key
  BY DEF UtilizationRow
<1>5. \A row \in rows : row.key \in K /\ row = Row(row.key) /\ at[row] = row.key
  BY <1>2, <1>4
<1>6. \A key \in K : \E row \in rows : at[row] = key
  BY <1>2, <1>4
<1>7. \A a, b \in rows : at[a] = at[b] => a = b
  BY <1>5
<1>8. IsFiniteSet(B) /\ \A b \in B : b \in bookings
  BY InRangeFacts
<1> HIDE DEF K, Row, make, at, B
<1>9. ASSUME NEW row \in rows
      PROVE  \E r \in Scope(q), p \in Periods :
               at[row] = <<r, p>> /\ row = UtilizationRow(rules, created, bookings, t, q, <<r, p>>)
  <2>1. row.key \in K /\ row = Row(row.key) /\ at[row] = row.key
    BY <1>5
  <2>2. PICK r \in Scope(q), d \in q.from..q.to : row.key = <<r, Period(q, d)>>
    BY <1>1, <2>1
  <2>3. Period(q, d) \in Periods
    OBVIOUS
  <2>4. row = UtilizationRow(rules, created, bookings, t, q, row.key)
    BY <2>1 DEF Row
  <2>5. row = UtilizationRow(rules, created, bookings, t, q, <<r, Period(q, d)>>)
    BY <2>2, <2>4
  <2> HIDE DEF Periods
  <2>6. QED
    BY <2>1, <2>2, <2>3, <2>5
<1>10. Sum_(rows, "available") = Cardinality(OpenPairs(created, t, q))
  <2> DEFINE U == OpenPairs(created, t, q)
             of == ofPair(U)
  <2>1. IsFiniteSet(U)
    BY OpenFinite
  <2>0. PICK field : field = "available"
    OBVIOUS
  <2>2. ASSUME NEW row \in rows PROVE row[field] = Cardinality(Theirs(U, of, at[row]))
    <3>1. PICK r \in Scope(q), p \in Periods :
            at[row] = <<r, p>> /\ row = UtilizationRow(rules, created, bookings, t, q, <<r, p>>)
      BY <1>9
    <3>2. row.available = Cardinality(KeyMinutes(created, t, q, <<r, p>>))
      BY <3>1, UtilizationRowIs
    <3>3. Theirs(U, of, at[row]) = {r} \X KeyMinutes(created, t, q, <<r, p>>)
      <4>1. \A e \in U : of[e] = <<e[1], Period(q, Date(e[2]))>>
        OBVIOUS
      <4> HIDE DEF of
      <4>2. QED
        BY <3>1, <4>1 DEF OpenPairs, KeyMinutes, Theirs
    <3>4. IsFiniteSet(KeyMinutes(created, t, q, <<r, p>>))
      BY AvailableCounts
    <3>5. PICK S : S = KeyMinutes(created, t, q, <<r, p>>)
      OBVIOUS
    <3>6. Cardinality({r} \X S) = Cardinality(S)
      BY <3>4, <3>5, PairsCount
    <3>7. row[field] = row.available
      BY <2>0
    <3>8. QED
      BY <3>2, <3>3, <3>5, <3>6, <3>7
  <2>3. \A e \in U : \E row \in rows : at[row] = of[e]
    <3>1. \A e \in U : e[1] \in Scope(q) /\ e[2] \in OpenMinutes(created, q, t, e[1])
      BY DEF OpenPairs
    <3>2. \A e \in U : of[e] \in K
      BY <1>1, <3>1
    <3> HIDE DEF U, of
    <3>3. QED
      BY <1>6, <3>2
  <2> HIDE DEF U, of
  <2>4. Sum_(rows, field) = Cardinality(U)
    <3>1. CountsTheirs(rows, U, of, at, field)
      BY <1>3, <1>7, <2>1, <2>2, <2>3 DEF CountsTheirs
    <3>2. QED
      BY <3>1, RowsCount
  <2>5. QED
    BY <2>0, <2>4 DEF U
<1>11. Sum_(rows, "used") = Cardinality(MetPairs(created, bookings, t, q))
  <2> DEFINE U == MetPairs(created, bookings, t, q)
             of == ofPair(U)
  <2>1. IsFiniteSet(U)
    BY OpenFinite
  <2>0. PICK field : field = "used"
    OBVIOUS
  <2>2. ASSUME NEW row \in rows PROVE row[field] = Cardinality(Theirs(U, of, at[row]))
    <3>1. PICK r \in Scope(q), p \in Periods :
            at[row] = <<r, p>> /\ row = UtilizationRow(rules, created, bookings, t, q, <<r, p>>)
      BY <1>9
    <3> DEFINE met == MetMinutes(bookings, KeyMinutes(created, t, q, <<r, p>>), r)
    <3>2. row.used = Cardinality(met)
      BY <3>1, UtilizationRowIs
    <3>3. Theirs(U, of, at[row]) = {r} \X met
      <4>1. \A e \in U : of[e] = <<e[1], Period(q, Date(e[2]))>>
        OBVIOUS
      <4> HIDE DEF of
      <4>2. QED
        BY <3>1, <4>1 DEF MetPairs, MetMinutes, KeyMinutes, Theirs
    <3>4. IsFiniteSet(met)
      BY UsedCounts
    <3> HIDE DEF met
    <3>5. PICK S : S = met
      OBVIOUS
    <3>6. Cardinality({r} \X S) = Cardinality(S)
      BY <3>4, <3>5, PairsCount
    <3>7. row[field] = row.used
      BY <2>0
    <3>8. QED
      BY <3>2, <3>3, <3>5, <3>6, <3>7
  <2>3. \A e \in U : \E row \in rows : at[row] = of[e]
    <3>1. \A e \in U : e[1] \in Scope(q) /\ e[2] \in OpenMinutes(created, q, t, e[1])
      BY DEF MetPairs, MetMinutes
    <3>2. \A e \in U : of[e] \in K
      BY <1>1, <3>1
    <3> HIDE DEF U, of
    <3>3. QED
      BY <1>6, <3>2
  <2> HIDE DEF U, of
  <2>4. Sum_(rows, field) = Cardinality(U)
    <3>1. CountsTheirs(rows, U, of, at, field)
      BY <1>3, <1>7, <2>1, <2>2, <2>3 DEF CountsTheirs
    <3>2. QED
      BY <3>1, RowsCount
  <2>5. QED
    BY <2>0, <2>4 DEF U
<1>12. Sum_(rows, "booked") = Cardinality(Spent(With(B, Blocked)))
  <2> DEFINE U == Spent(With(B, Blocked))
             of == ofSpent(U)
  <2>1. IsFiniteSet(U)
    <3>1. IsFiniteSet(With(B, Blocked))
      BY <1>8, FS_Subset DEF With
    <3>2. \A b \in With(B, Blocked) : b.from \in Int /\ b.to \in Int /\ b.from < b.to
      BY <1>8 DEF With, ReportOn
    <3>3. QED
      BY <3>1, <3>2, TotalSpent
  <2>0. PICK field : field = "booked"
    OBVIOUS
  <2>2. ASSUME NEW row \in rows PROVE row[field] = Cardinality(Theirs(U, of, at[row]))
    <3>1. PICK r \in Scope(q), p \in Periods :
            at[row] = <<r, p>> /\ row = UtilizationRow(rules, created, bookings, t, q, <<r, p>>)
      BY <1>9
    <3>2. row.booked = Cardinality(Spent(With(KeyBookings(bookings, q, <<r, p>>), Blocked)))
      BY <3>1, UtilizationRowIs
    <3>3. Theirs(U, of, at[row]) = Spent(With(KeyBookings(bookings, q, <<r, p>>), Blocked))
      <4>1. \A e \in U : of[e] = <<e[1].room, Period(q, Date(e[1].from))>>
        OBVIOUS
      <4> HIDE DEF of
      <4>2. QED
        BY <3>1, <4>1 DEF Spent, With, KeyBookings, B, Theirs
    <3>4. QED
      BY <2>0, <3>2, <3>3
  <2>3. \A e \in U : \E row \in rows : at[row] = of[e]
    <3>1. \A e \in U : e[1] \in B
      BY DEF Spent, With
    <3>2. \A e \in U : of[e] \in K
      BY <1>1, <3>1
    <3> HIDE DEF U, of
    <3>3. QED
      BY <1>6, <3>2
  <2> HIDE DEF U, of
  <2>4. Sum_(rows, field) = Cardinality(U)
    <3>1. CountsTheirs(rows, U, of, at, field)
      BY <1>3, <1>7, <2>1, <2>2, <2>3 DEF CountsTheirs
    <3>2. QED
      BY <3>1, RowsCount
  <2>5. QED
    BY <2>0, <2>4 DEF U
<1>13. ASSUME NEW status, NEW field,
              \A row \in rows : row[field] = Cardinality(With(KeyBookings(bookings, q, at[row]), {status}))
       PROVE  Sum_(rows, field) = Cardinality(With(B, {status}))
  <2> DEFINE U == With(B, {status})
             of == ofBooking(U)
  <2>1. IsFiniteSet(U)
    BY <1>8, FS_Subset DEF With
  <2>2. ASSUME NEW row \in rows PROVE row[field] = Cardinality(Theirs(U, of, at[row]))
    <3>1. Theirs(U, of, at[row]) = With(KeyBookings(bookings, q, at[row]), {status})
      BY DEF With, KeyBookings, B, Theirs
    <3>2. QED
      BY <1>13, <3>1
  <2>3. \A e \in U : \E row \in rows : at[row] = of[e]
    <3>1. \A e \in U : e \in B
      BY DEF With
    <3>2. \A e \in U : of[e] \in K
      BY <1>1, <3>1
    <3> HIDE DEF U, of
    <3>3. QED
      BY <1>6, <3>2
  <2> HIDE DEF U, of
  <2>4. Sum_(rows, field) = Cardinality(U)
    <3>1. CountsTheirs(rows, U, of, at, field)
      BY <1>3, <1>7, <2>1, <2>2, <2>3 DEF CountsTheirs
    <3>2. QED
      BY <3>1, RowsCount
  <2>5. QED
    BY <2>4 DEF U
<1>14. ASSUME NEW row \in rows
       PROVE  /\ row.completed = Cardinality(With(KeyBookings(bookings, q, at[row]), {"COMPLETED"}))
              /\ row.cancelled = Cardinality(With(KeyBookings(bookings, q, at[row]), {"CANCELLED"}))
              /\ row.released = Cardinality(With(KeyBookings(bookings, q, at[row]), {"AUTO_RELEASED"}))
  <2>1. PICK r \in Scope(q), p \in Periods :
          at[row] = <<r, p>> /\ row = UtilizationRow(rules, created, bookings, t, q, <<r, p>>)
    BY <1>9
  <2>2. /\ row.completed = Cardinality(With(KeyBookings(bookings, q, <<r, p>>), {"COMPLETED"}))
        /\ row.cancelled = Cardinality(With(KeyBookings(bookings, q, <<r, p>>), {"CANCELLED"}))
        /\ row.released = Cardinality(With(KeyBookings(bookings, q, <<r, p>>), {"AUTO_RELEASED"}))
    BY <2>1, UtilizationRowIs
  <2>3. QED
    BY <2>1, <2>2
<1>15. Sum_(rows, "completed") = Cardinality(With(B, {"COMPLETED"}))
  <2>1. PICK field : field = "completed"
    OBVIOUS
  <2>2. PICK status : status = "COMPLETED"
    OBVIOUS
  <2>3. \A row \in rows : row[field] = Cardinality(With(KeyBookings(bookings, q, at[row]), {status}))
    BY <1>14, <2>1, <2>2
  <2>4. Sum_(rows, field) = Cardinality(With(B, {status}))
    BY <1>13, <2>3
  <2>5. QED
    BY <2>1, <2>2, <2>4
<1>16. Sum_(rows, "cancelled") = Cardinality(With(B, {"CANCELLED"}))
  <2>1. PICK field : field = "cancelled"
    OBVIOUS
  <2>2. PICK status : status = "CANCELLED"
    OBVIOUS
  <2>3. \A row \in rows : row[field] = Cardinality(With(KeyBookings(bookings, q, at[row]), {status}))
    BY <1>14, <2>1, <2>2
  <2>4. Sum_(rows, field) = Cardinality(With(B, {status}))
    BY <1>13, <2>3
  <2>5. QED
    BY <2>1, <2>2, <2>4
<1>17. Sum_(rows, "released") = Cardinality(With(B, {"AUTO_RELEASED"}))
  <2>1. PICK field : field = "released"
    OBVIOUS
  <2>2. PICK status : status = "AUTO_RELEASED"
    OBVIOUS
  <2>3. \A row \in rows : row[field] = Cardinality(With(KeyBookings(bookings, q, at[row]), {status}))
    BY <1>14, <2>1, <2>2
  <2>4. Sum_(rows, field) = Cardinality(With(B, {status}))
    BY <1>13, <2>3
  <2>5. QED
    BY <2>1, <2>2, <2>4
<1>18. QED
  BY <1>10, <1>11, <1>12, <1>15, <1>16, <1>17 DEF B

----------------------------------------------------------------------------
(* Reports: day rows and the heatmap *)

\* The totals of the day rows.
LEMMA OutcomeSums ==
    ASSUME NEW t, NEW q, NEW created, NEW bookings, ReportOn(t, q, created, bookings),
           NEW days, days = Outcomes(bookings, q), NEW B, B = InRange(q, bookings)
    PROVE  /\ OutcomeTotal(days, "created") = Cardinality(B)
           /\ OutcomeTotal(days, "completed") = Cardinality(With(B, {"COMPLETED"}))
           /\ OutcomeTotal(days, "byOwner") = Cardinality(CancelledFor(B, ByOwner))
           /\ OutcomeTotal(days, "byAdmin") = Cardinality(CancelledFor(B, ByAdmin))
           /\ OutcomeTotal(days, "released") = Cardinality(With(B, {"AUTO_RELEASED"}))
<1> DEFINE make == [b \in B |-> OutcomeDay(B, Date(b.from))]
           at == [row \in days |-> row.date]
           of == [b \in B |-> Date(b.from)]
<1>1. IsFiniteSet(B)
  BY InRangeFacts
<1>2. days = {make[b] : b \in B}
  BY DEF Outcomes
<1>3. IsFiniteSet(days)
  <2>1. make \in Surjection(B, days)
    BY <1>2 DEF Surjection
  <2>2. QED
    BY <1>1, <2>1, FS_Surjection
<1>4. \A d : OutcomeDay(B, d).date = d
  BY DEF OutcomeDay
<1>5. \A row \in days : row = OutcomeDay(B, at[row])
  BY <1>2, <1>4
<1>6. \A b \in B : \E row \in days : at[row] = of[b]
  BY <1>2, <1>4
<1>7. \A b \in B : of[b] = Date(b.from)
  OBVIOUS
<1> HIDE DEF make, at, of
<1>8. \A a, b \in days : at[a] = at[b] => a = b
  BY <1>5
<1>9. ASSUME NEW field, NEW U \in SUBSET B,
             \A row \in days : row[field] = Cardinality(Theirs(U, of, at[row]))
      PROVE  OutcomeTotal(days, field) = Cardinality(U)
  <2>1. IsFiniteSet(U)
    BY <1>1, FS_Subset
  <2>2. \A e \in U : \E row \in days : at[row] = of[e]
    BY <1>6
  <2>3. CountsTheirs(days, U, of, at, field)
    BY <1>3, <1>8, <1>9, <2>1, <2>2 DEF CountsTheirs
  <2>4. QED
    BY <2>3, RowsCount
<1>10. ASSUME NEW row \in days
       PROVE  /\ row.created = Cardinality(Theirs(B, of, at[row]))
              /\ row.completed = Cardinality(Theirs(With(B, {"COMPLETED"}), of, at[row]))
              /\ row.byOwner = Cardinality(Theirs(CancelledFor(B, ByOwner), of, at[row]))
              /\ row.byAdmin = Cardinality(Theirs(CancelledFor(B, ByAdmin), of, at[row]))
              /\ row.released = Cardinality(Theirs(With(B, {"AUTO_RELEASED"}), of, at[row]))
  <2> DEFINE here == {b \in B : Date(b.from) = at[row]}
  <2>1. row = [date |-> at[row], created |-> Cardinality(here),
               completed |-> Cardinality(With(here, {"COMPLETED"})),
               byOwner |-> Cardinality(CancelledFor(here, ByOwner)),
               byAdmin |-> Cardinality(CancelledFor(here, ByAdmin)),
               released |-> Cardinality(With(here, {"AUTO_RELEASED"}))]
    BY <1>5 DEF OutcomeDay
  <2>2. here = Theirs(B, of, at[row])
    BY <1>7 DEF Theirs
  <2>3. \A s : With(here, s) = Theirs(With(B, s), of, at[row])
    BY <1>7 DEF With, Theirs
  <2>4. \A s : CancelledFor(here, s) = Theirs(CancelledFor(B, s), of, at[row])
    BY <1>7 DEF CancelledFor, With, Theirs
  <2> HIDE DEF here
  <2>5. /\ row.created = Cardinality(here)
        /\ row.completed = Cardinality(With(here, {"COMPLETED"}))
        /\ row.byOwner = Cardinality(CancelledFor(here, ByOwner))
        /\ row.byAdmin = Cardinality(CancelledFor(here, ByAdmin))
        /\ row.released = Cardinality(With(here, {"AUTO_RELEASED"}))
    BY <2>1
  <2>6. /\ With(here, {"COMPLETED"}) = Theirs(With(B, {"COMPLETED"}), of, at[row])
        /\ With(here, {"AUTO_RELEASED"}) = Theirs(With(B, {"AUTO_RELEASED"}), of, at[row])
    BY <2>3
  <2>7. /\ CancelledFor(here, ByOwner) = Theirs(CancelledFor(B, ByOwner), of, at[row])
        /\ CancelledFor(here, ByAdmin) = Theirs(CancelledFor(B, ByAdmin), of, at[row])
    BY <2>4
  <2>8. QED
    BY <2>2, <2>5, <2>6, <2>7
<1>11. OutcomeTotal(days, "created") = Cardinality(B)
  <2>1. PICK field : field = "created"
    OBVIOUS
  <2>2. \A row \in days : row[field] = Cardinality(Theirs(B, of, at[row]))
    BY <1>10, <2>1
  <2>3. OutcomeTotal(days, field) = Cardinality(B)
    BY <1>9, <2>2
  <2>4. QED
    BY <2>1, <2>3
<1>12. OutcomeTotal(days, "completed") = Cardinality(With(B, {"COMPLETED"}))
  <2>1. PICK field, U : field = "completed" /\ U = With(B, {"COMPLETED"})
    OBVIOUS
  <2>2. \A row \in days : row[field] = Cardinality(Theirs(U, of, at[row]))
    BY <1>10, <2>1
  <2>3. U \in SUBSET B
    BY <2>1 DEF With
  <2>4. OutcomeTotal(days, field) = Cardinality(U)
    BY <1>9, <2>2, <2>3
  <2>5. QED
    BY <2>1, <2>4
<1>13. OutcomeTotal(days, "byOwner") = Cardinality(CancelledFor(B, ByOwner))
  <2>1. PICK field, U : field = "byOwner" /\ U = CancelledFor(B, ByOwner)
    OBVIOUS
  <2>2. \A row \in days : row[field] = Cardinality(Theirs(U, of, at[row]))
    BY <1>10, <2>1
  <2>3. U \in SUBSET B
    BY <2>1 DEF CancelledFor, With
  <2>4. OutcomeTotal(days, field) = Cardinality(U)
    BY <1>9, <2>2, <2>3
  <2>5. QED
    BY <2>1, <2>4
<1>14. OutcomeTotal(days, "byAdmin") = Cardinality(CancelledFor(B, ByAdmin))
  <2>1. PICK field, U : field = "byAdmin" /\ U = CancelledFor(B, ByAdmin)
    OBVIOUS
  <2>2. \A row \in days : row[field] = Cardinality(Theirs(U, of, at[row]))
    BY <1>10, <2>1
  <2>3. U \in SUBSET B
    BY <2>1 DEF CancelledFor, With
  <2>4. OutcomeTotal(days, field) = Cardinality(U)
    BY <1>9, <2>2, <2>3
  <2>5. QED
    BY <2>1, <2>4
<1>15. OutcomeTotal(days, "released") = Cardinality(With(B, {"AUTO_RELEASED"}))
  <2>1. PICK field, U : field = "released" /\ U = With(B, {"AUTO_RELEASED"})
    OBVIOUS
  <2>2. \A row \in days : row[field] = Cardinality(Theirs(U, of, at[row]))
    BY <1>10, <2>1
  <2>3. U \in SUBSET B
    BY <2>1 DEF With
  <2>4. OutcomeTotal(days, field) = Cardinality(U)
    BY <1>9, <2>2, <2>3
  <2>5. QED
    BY <2>1, <2>4
<1>16. QED
  BY <1>11, <1>12, <1>13, <1>14, <1>15

\* Every cancellation in range is on one of the two sides.
LEMMA CancelledBy ==
    ASSUME NEW t, NEW q, NEW created, NEW bookings, ReportOn(t, q, created, bookings),
           NEW B, B = InRange(q, bookings)
    PROVE  Cardinality(CancelledFor(B, ByOwner)) + Cardinality(CancelledFor(B, ByAdmin)) =
             Cardinality(With(B, {"CANCELLED"}))
<1> DEFINE X == CancelledFor(B, ByOwner)
           Y == CancelledFor(B, ByAdmin)
<1>1. IsFiniteSet(B) /\ B \subseteq bookings
  BY InRangeFacts
<1>2. IsFiniteSet(X) /\ IsFiniteSet(Y)
  BY <1>1, FS_Subset DEF CancelledFor, With
<1>3. \A b \in With(B, {"CANCELLED"}) : b.by \in ByOwner \cup ByAdmin
  BY <1>1 DEF ReportOn, With
<1>4. X \cup Y = With(B, {"CANCELLED"})
  BY <1>3 DEF CancelledFor
<1>5. X \cap Y = {}
  BY DEF CancelledFor, ByOwner, ByAdmin
<1> HIDE DEF X, Y
<1>6. Cardinality(X \cup Y) = Cardinality(X) + Cardinality(Y) - Cardinality(X \cap Y)
  BY <1>2, FS_Union
<1>7. Cardinality(X \cap Y) = 0 /\ Cardinality(X) \in Nat /\ Cardinality(Y) \in Nat
  BY <1>2, <1>5, FS_EmptySet, FS_CardinalityType
<1>8. Cardinality(X \cup Y) = Cardinality(X) + Cardinality(Y)
  BY <1>6, <1>7
<1>9. QED
  BY <1>4, <1>8 DEF X, Y


\* The cells of the heatmap: any of them add up to a number, all of them to the minutes of the used meetings.
LEMMA HeatmapSums ==
    ASSUME NEW t, NEW q, NEW created, NEW bookings, ReportOn(t, q, created, bookings),
           NEW cells, cells = Heatmap(bookings, q), NEW R, R = With(InRange(q, bookings), Used)
    PROVE  /\ Sum_(cells, "used") = Cardinality(Spent(R)) /\ IsFiniteSet(Spent(R)) /\ IsFiniteSet(cells)
           /\ \A T \in SUBSET cells : Sum_(T, "used") \in Int
           /\ cells = {} => Sum_(cells, "used") = 0
<1> DEFINE In(c) == {b \in R : Cell(b) = c}
           Row(c) == [cell |-> c, bookings |-> Cardinality(In(c)), used |-> Total(In(c))]
           make == [b \in R |-> Row(Cell(b))]
           at == [row \in cells |-> row.cell]
           U == Spent(R)
           of == [e \in U |-> Cell(e[1])]
           share == [row \in cells |-> {e \in U : of[e] = at[row]}]
<1>1. /\ R \in SUBSET InRange(q, bookings) /\ InRange(q, bookings) \subseteq bookings
      /\ IsFiniteSet(InRange(q, bookings))
  BY InRangeFacts DEF With
<1>2. IsFiniteSet(R) /\ \A b \in R : b.from \in Int /\ b.to \in Int /\ b.from < b.to
  <2>1. IsFiniteSet(R)
    BY <1>1, FS_Subset
  <2>2. QED
    BY <1>1, <2>1 DEF ReportOn
<1>3. IsFiniteSet(U)
  BY <1>2, TotalSpent
<1>4a. cells = {Row(c) : c \in {Cell(b) : b \in R}}
  BY DEF Heatmap
<1>4b. \A c : Row(c).cell = c
  OBVIOUS
<1> HIDE DEF Row
<1>4. cells = {make[b] : b \in R}
  BY <1>4a
<1>5. IsFiniteSet(cells)
  <2>1. make \in Surjection(R, cells)
    BY <1>4 DEF Surjection
  <2>2. QED
    BY <1>2, <2>1, FS_Surjection
<1>6. \A row \in cells : row = Row(at[row])
  BY <1>4a, <1>4b
<1>7. \A b \in R : \E row \in cells : at[row] = Cell(b)
  BY <1>4a, <1>4b
<1>8. \A e \in U : of[e] = Cell(e[1]) /\ e[1] \in R
  BY DEF Spent
<1> HIDE DEF make, at, of
<1>9. ASSUME NEW row \in cells PROVE row.used = Cardinality(share[row]) /\ IsFiniteSet(share[row])
  <2>1. row.used = Total(In(at[row]))
    BY <1>6 DEF Row
  <2>2. In(at[row]) \in SUBSET R
    OBVIOUS
  <2>3. IsFiniteSet(In(at[row]))
    BY <1>2, <2>2, FS_Subset
  <2>4. Total(In(at[row])) = Cardinality(Spent(In(at[row])))
    <3>1. PICK S : S = In(at[row])
      OBVIOUS
    <3>2. \A b \in S : b.from \in Int /\ b.to \in Int /\ b.from < b.to
      BY <1>2, <3>1
    <3> HIDE DEF In
    <3>3. QED
      BY <2>3, <3>1, <3>2, TotalSpent
  <2>5. Spent(In(at[row])) = {e \in U : of[e] = at[row]}
    BY <1>8 DEF Spent
  <2>6. share[row] = {e \in U : of[e] = at[row]}
    OBVIOUS
  <2>7. IsFiniteSet({e \in U : of[e] = at[row]})
    BY <1>3, FS_Subset
  <2> HIDE DEF share, In
  <2>8. QED
    BY <2>1, <2>4, <2>5, <2>6, <2>7
<1>10. \A a, b \in cells : a # b => share[a] \cap share[b] = {}
  BY <1>6
<1>11. Joined(share, cells) = U
  BY <1>7, <1>8 DEF Joined
<1> HIDE DEF share, U, Row, In
<1>12. PICK field : field = "used"
  OBVIOUS
<1>13. ASSUME NEW T \in SUBSET cells
       PROVE  Sum_(T, field) = Cardinality(Joined(share, T)) /\ IsFiniteSet(Joined(share, T))
  <2>1. IsFiniteSet(T)
    BY <1>5, FS_Subset
  <2>2. Parted(T, share)
    BY <1>9, <1>10, <2>1 DEF Parted
  <2>3. \A row \in T : row[field] = Cardinality(share[row])
    BY <1>9, <1>12
  <2>4. QED
    BY <2>2, <2>3, FieldsCount, JoinedFinite
<1>14. \A T \in SUBSET cells : Sum_(T, field) \in Int
  BY <1>13, FS_CardinalityType
<1>15. Sum_(cells, field) = Cardinality(U)
  BY <1>11, <1>13
<1>16. ASSUME cells = {} PROVE Sum_(cells, field) = 0
  <2>1. Joined(share, cells) = {}
    BY <1>16 DEF Joined
  <2>2. QED
    BY <1>13, <2>1, FS_EmptySet
<1>17. QED
  BY <1>3, <1>5, <1>12, <1>14, <1>15, <1>16 DEF U

\* The hour with the most is there when any cell is.
LEMMA PeakIs ==
    ASSUME NEW t, NEW q, NEW created, NEW bookings, ReportOn(t, q, created, bookings),
           NEW cells, cells = Heatmap(bookings, q), cells # {}
    PROVE  Peak(cells) # {}
<1> DEFINE f == [x \in cells |-> HourTotal(cells, x.cell[2])]
           S == {f[x] : x \in cells}
<1>1. \A x \in cells : f[x] \in Int
  <2>1. \A h : {x \in cells : x.cell[2] = h} \in SUBSET cells
    OBVIOUS
  <2>2. \A h : HourTotal(cells, h) \in Int
    BY <2>1, HeatmapSums DEF HourTotal
  <2>3. QED
    BY <2>2
<1>2. IsFiniteSet(S)
  <2>1. f \in Surjection(cells, S)
    BY DEF Surjection
  <2>2. IsFiniteSet(cells)
    BY HeatmapSums
  <2>3. QED
    BY <2>1, <2>2, FS_Surjection
<1>3. PICK s \in S : \A r \in S : r <= s
  <2>1. S \subseteq Int /\ S # {}
    BY <1>1
  <2> HIDE DEF S
  <2>2. QED
    BY <1>2, <2>1, Largest
<1>4. PICK y \in cells : \A x \in cells : f[x] <= f[y]
  BY <1>3
<1>5. \A x \in cells : HourTotal(cells, x.cell[2]) <= HourTotal(cells, y.cell[2])
  BY <1>4
<1>6. y.cell[2] \in Peak(cells)
  BY <1>5 DEF Peak
<1>7. QED
  BY <1>6

----------------------------------------------------------------------------
(* Reports: what they count *)

\* The hour a meeting starts in is charged with at least the minutes the building was open.
LEMMA MetAtMostSpent ==
    ASSUME NEW t, NEW q, NEW created, NEW bookings, ReportOn(t, q, created, bookings),
           NEW R, R = With(InRange(q, bookings), Used)
    PROVE  Cardinality(MetPairs(created, bookings, t, q)) <= Cardinality(Spent(R))
<1> DEFINE M == MetPairs(created, bookings, t, q)
           of == [e \in M |-> CHOOSE b \in R : b.room = e[1] /\ Within(b, e[2])]
           f == [e \in M |-> <<of[e], e[2]>>]
<1>1. ASSUME NEW e \in M
      PROVE  e = <<e[1], e[2]>> /\ e[2] \in Int /\ \E b \in R : b.room = e[1] /\ Within(b, e[2])
  <2>0. PICK r \in Scope(q) : e \in {r} \X MetMinutes(bookings, OpenMinutes(created, q, t, r), r)
    BY DEF MetPairs
  <2>1. PICK x \in MetMinutes(bookings, OpenMinutes(created, q, t, r), r) : e = <<r, x>>
    BY <2>0
  <2>2. PICK b \in With(bookings, Used) : b.room = r /\ Within(b, x)
    BY <2>1 DEF MetMinutes, Within
  <2>3. x \in OpenMinutes(created, q, t, r)
    BY DEF MetMinutes
  <2>4. PICK w \in Divisor(rules, created, t, q) : x \in Int /\ w.room = r /\ w.day = Date(x) /\ Within(w, x)
    BY <2>3, DivisorMinutes
  <2>5. w.day \in q.from..q.to
    BY DivisorWindow
  <2>6. b \in bookings
    BY DEF With
  <2>7. PICK g \in Int, h \in Int : g = b.from /\ h = b.to /\ Date(g) = Date(h)
    BY <2>6 DEF ReportOn
  <2>8. g <= x /\ x <= h
    BY <2>2, <2>4, <2>7 DEF Within
  <2>9. Date(g) <= Date(x) /\ Date(x) <= Date(h)
    BY <2>4, <2>7, <2>8, InOrder
  <2>10. Date(g) \in Int /\ Date(h) \in Int /\ Date(x) \in Int
    BY <2>4, PartsRange
  <2>11. Date(b.from) = Date(x)
    BY <2>7, <2>9, <2>10
  <2>12. b \in InRange(q, bookings)
    BY <2>2, <2>4, <2>5, <2>6, <2>11, InRangeFacts
  <2>13. b \in R
    BY <2>2, <2>12 DEF With
  <2>14. QED
    BY <2>1, <2>2, <2>4, <2>13
<1>2. ASSUME NEW e \in M
      PROVE  of[e] \in R /\ of[e].room = e[1] /\ Within(of[e], e[2])
  BY <1>1
<1>3. ASSUME NEW e \in M PROVE f[e] \in Spent(R)
  <2>1. PICK b, x : b = of[e] /\ x = e[2]
    OBVIOUS
  <2>2. b \in R /\ Within(b, x) /\ x \in Int
    BY <1>1, <1>2, <2>1
  <2>3. b \in bookings
    BY <2>2, InRangeFacts DEF With
  <2>4. PICK g \in Int, h \in Int : g = b.from /\ h = b.to
    BY <2>3 DEF ReportOn
  <2>5. x \in g..(h - 1)
    BY <2>2, <2>4 DEF Within
  <2>6. <<b, x>> \in {b} \X (b.from..(b.to - 1))
    BY <2>4, <2>5
  <2>7. <<b, x>> \in Spent(R)
    BY <2>2, <2>6 DEF Spent
  <2>8. QED
    BY <2>1, <2>7
<1>4. ASSUME NEW d \in M, NEW e \in M, f[d] = f[e] PROVE d = e
  <2>1. f[d] = <<of[d], d[2]>> /\ f[e] = <<of[e], e[2]>>
    OBVIOUS
  <2> HIDE DEF f, of
  <2>2. of[d] = of[e] /\ d[2] = e[2]
    <3>1. PICK a, b, x, y : a = of[d] /\ b = of[e] /\ x = d[2] /\ y = e[2]
      OBVIOUS
    <3>2. <<a, x>> = <<b, y>>
      BY <1>4, <2>1, <3>1
    <3>3. a = b /\ x = y
      BY <3>2
    <3>4. QED
      BY <3>1, <3>3
  <2>3. d[1] = e[1]
    BY <1>2, <2>2
  <2>4. QED
    BY <1>1, <2>2, <2>3
<1>5. f \in [M -> Spent(R)]
  BY <1>3
<1> HIDE DEF f, of, M
<1>6. f \in Injection(M, Spent(R))
  BY <1>4, <1>5 DEF Injection, IsInjective
<1>7. IsFiniteSet(Spent(R))
  BY HeatmapSums
<1>8. QED
  BY <1>6, <1>7, FS_Injection DEF M

\* ReportsCountMinutes for one row and for one report.
RowRight(row, created, bookings, t, q) ==
    LET here == {x \in OpenMinutes(created, q, t, row.key[1]) :
                   row.key[2] \in {AllTime, Date(x) \div MonthLen}} IN
    /\ row.available = Cardinality(here)
    /\ row.used = Cardinality(MetMinutes(bookings, here, row.key[1]))
ReportRight(created, bookings, t, q, months, total, days, cells) ==
    /\ \A row \in months \cup total : RowRight(row, created, bookings, t, q)
    /\ \A field \in {"available", "used", "booked", "completed", "cancelled", "released"} :
         Sum_(months, field) = Sum_(total, field)
    /\ OutcomeTotal(days, "created") = Cardinality(InRange(q, bookings))
    /\ OutcomeTotal(days, "completed") = Sum_(total, "completed")
    /\ OutcomeTotal(days, "released") = Sum_(total, "released")
    /\ OutcomeTotal(days, "byOwner") + OutcomeTotal(days, "byAdmin") = Sum_(total, "cancelled")
    /\ Sum_(total, "used") <= Sum_(cells, "used")
    /\ Sum_(cells, "used") > 0 => Peak(cells) # {}

\* The rows of a report over all minutes in question.
LEMMA RowsHonest ==
    ASSUME NEW t, NEW q, NEW created, NEW bookings, ReportOn(t, q, created, bookings),
           NEW row \in Utilization(rules, created, bookings, t, q)
    PROVE  RowRight(row, created, bookings, t, q)
<1> DEFINE here == {x \in OpenMinutes(created, q, t, row.key[1]) :
                      row.key[2] \in {AllTime, Date(x) \div MonthLen}}
<1>1. PICK key \in Keys(rules, created, bookings, t, q) :
        row = UtilizationRow(rules, created, bookings, t, q, key)
  BY DEF Utilization
<1>2. PICK r \in Scope(q), d \in q.from..q.to : key = <<r, Period(q, d)>>
  BY <1>1, KeysFacts
<1>3. PICK p : p = Period(q, d)
  OBVIOUS
<1>4. /\ row.key = <<r, p>>
      /\ row.available = Cardinality(KeyMinutes(created, t, q, <<r, p>>))
      /\ row.used = Cardinality(MetMinutes(bookings, KeyMinutes(created, t, q, <<r, p>>), r))
  BY <1>1, <1>2, <1>3, UtilizationRowIs
<1>5. row.key[1] = r /\ row.key[2] = p
  BY <1>4
<1>6. \A x : Period(q, Date(x)) = p <=> p \in {AllTime, Date(x) \div MonthLen}
  <2>1. CASE q.by = "month"
    <3>1. d \in Nat /\ d \in Int /\ MonthLen \in Nat \ {0}
      BY ReportsAssumption DEF ReportOn
    <3>2. PICK z \in Int : z = 0 /\ MonthLen * z <= d
      BY <3>1
    <3>3. 0 <= d \div MonthLen /\ d \div MonthLen \in Int
      <4>1. z <= d \div MonthLen
        BY <3>1, <3>2, DivAtLeast
      <4>2. d \div MonthLen \in Int
        BY <3>1, DivMod
      <4>3. QED
        BY <3>2, <4>1, <4>2
    <3>4. p = d \div MonthLen
      BY <1>3, <2>1 DEF Period
    <3>5. p # AllTime
      BY <3>3, <3>4 DEF AllTime
    <3>6. QED
      BY <2>1, <3>5 DEF Period
  <2>2. CASE q.by # "month"
    BY <1>3, <2>2 DEF Period
  <2>3. QED
    BY <2>1, <2>2
<1>7. here = KeyMinutes(created, t, q, <<r, p>>)
  <2>1. here = {x \in OpenMinutes(created, q, t, r) : p \in {AllTime, Date(x) \div MonthLen}}
    BY <1>5
  <2>2. KeyMinutes(created, t, q, <<r, p>>) = {x \in OpenMinutes(created, q, t, r) : Period(q, Date(x)) = p}
    BY DEF KeyMinutes
  <2>3. QED
    BY <1>6, <2>1, <2>2
<1>8. RowRight(row, created, bookings, t, q) <=>
        row.available = Cardinality(here) /\ row.used = Cardinality(MetMinutes(bookings, here, row.key[1]))
  BY DEF RowRight
<1> HIDE DEF here
<1>9. QED
  BY <1>4, <1>5, <1>7, <1>8


\* What the calendar of a state may have become by t is something to report on.
LEMMA HistoryIs ==
    ASSUME PickerType, NoClash, NEW t \in ReportTimes, NEW history \in Histories(t),
           NEW q, q.from \in Nat, q.to \in Nat, q.from <= q.to,
           NEW c \in Creations, NEW created, created = [r \in Rooms |-> c],
           NEW bookings, bookings = {history[m] : m \in Meetings}
    PROVE  ReportOn(t, q, created, bookings)
<1>1. PICK f \in {g \in [Meetings -> UNION {Statuses(m, t) : m \in Meetings}] :
                   \A m \in Meetings : g[m] \in Statuses(m, t)},
           r \in ByOwner \cup ByAdmin :
        history = [m \in Meetings |-> [room |-> m.room, from |-> m.from, to |-> m.to, status |-> f[m],
                                       by |-> IF f[m] = "CANCELLED" THEN r ELSE "-"]]
  BY DEF Histories
<1>2. ASSUME NEW m \in Meetings
      PROVE  /\ history[m].room = m.room /\ history[m].from = m.from /\ history[m].to = m.to
             /\ history[m].status = f[m] /\ (f[m] = "CANCELLED" => history[m].by \in ByOwner \cup ByAdmin)
             /\ f[m] \in Statuses(m, t)
  BY <1>1
<1>3. rules \in RuleSets /\ t \in Int /\ \A r1 \in Rooms : created[r1] \in Int
  BY PickerAssumption DEF PickerType
<1>4. IsFiniteSet(bookings)
  <2>1. history \in Surjection(Meetings, bookings)
    BY <1>1 DEF Surjection
  <2>2. IsFiniteSet(Meetings)
    BY PickerAssumption
  <2>3. QED
    BY <2>1, <2>2, FS_Surjection
<1>5. ASSUME NEW b \in bookings
      PROVE  /\ b.room \in Rooms /\ b.from \in Int /\ b.to \in Int /\ b.from < b.to /\ Date(b.from) = Date(b.to)
             /\ b.status = "CANCELLED" => b.by \in ByOwner \cup ByAdmin
  <2>1. PICK m \in Meetings : b = history[m]
    OBVIOUS
  <2>2. m \in AnyMeeting
    BY DEF AnyMeeting
  <2>3. QED
    BY <1>2, <2>1, <2>2, MeetingFacts
<1>6. ASSUME NEW m \in Meetings, history[m].status \in Used PROVE m \in busy
  BY <1>2, <1>6 DEF Statuses, Used
<1>7. ASSUME NEW a \in With(bookings, Used), NEW b \in With(bookings, Used), a # b, a.room = b.room
      PROVE  ~Overlap(a, b)
  <2>1. PICK m \in Meetings, n \in Meetings : a = history[m] /\ b = history[n]
    BY DEF With
  <2>2. m \in busy /\ n \in busy
    BY <1>6, <2>1 DEF With
  <2>3. m # n /\ m.room = n.room
    BY <1>2, <1>7, <2>1
  <2>4. ~Overlap(m, n)
    BY <2>2, <2>3 DEF NoClash
  <2>5. QED
    BY <1>2, <2>1, <2>4 DEF Overlap
<1>8. \A b \in With(bookings, {"CANCELLED"}) : b.by \in ByOwner \cup ByAdmin
  BY <1>5 DEF With
<1>9. QED
  BY <1>3, <1>4, <1>5, <1>7, <1>8 DEF ReportOn

\* Every report there may be is right.
LEMMA ReportHonest ==
    ASSUME PickerType, NoClash, NEW t \in ReportTimes, NEW q \in Queries, NEW c \in Creations,
           NEW history \in Histories(t), NEW created, created = [r \in Rooms |-> c],
           NEW bookings, bookings = {history[m] : m \in Meetings},
           NEW months, months = Utilization(rules, created, bookings, t, q),
           NEW total, total = Utilization(rules, created, bookings, t, [q EXCEPT !.by = "room"]),
           NEW days, days = Outcomes(bookings, q),
           NEW cells, cells = Heatmap(bookings, q)
    PROVE  ReportRight(created, bookings, t, q, months, total, days, cells)
<1>1. PICK rooms : rooms = [q EXCEPT !.by = "room"]
  OBVIOUS
<1>2. /\ q.from \in Nat /\ q.to \in Nat /\ q.from <= q.to
      /\ rooms.from = q.from /\ rooms.to = q.to /\ rooms.room = q.room
  <2>1. q \in [from : Dates, to : Dates, room : {AllRooms, Home}, by : {"month"}] /\ Answerable(q)
    BY DEF Queries
  <2>2. Dates \subseteq Nat
    BY PickerAssumption
  <2>3. QED
    BY <1>1, <2>1, <2>2 DEF Answerable
<1>3. ReportOn(t, q, created, bookings) /\ ReportOn(t, rooms, created, bookings)
  BY <1>2, HistoryIs
<1>4. total = Utilization(rules, created, bookings, t, rooms)
  BY <1>1
<1>5. Scope(rooms) = Scope(q) /\ \A r : OpenMinutes(created, rooms, t, r) = OpenMinutes(created, q, t, r)
  BY <1>2 DEF Scope, OpenMinutes
<1>6. InRange(rooms, bookings) = InRange(q, bookings)
  BY <1>2, <1>5 DEF InRange
<1>7. /\ OpenPairs(created, t, rooms) = OpenPairs(created, t, q)
      /\ MetPairs(created, bookings, t, rooms) = MetPairs(created, bookings, t, q)
  BY <1>5 DEF OpenPairs, MetPairs
<1>8. ASSUME NEW row \in months \cup total PROVE RowRight(row, created, bookings, t, q)
  <2>1. CASE row \in months
    BY <1>3, <2>1, RowsHonest
  <2>2. CASE row \in total
    <3>1. RowRight(row, created, bookings, t, rooms)
      BY <1>3, <1>4, <2>2, RowsHonest
    <3>2. QED
      BY <1>5, <3>1 DEF RowRight
  <2>3. QED
    BY <2>1, <2>2
<1> DEFINE B == InRange(q, bookings)
           Sums(rows) ==
             /\ Sum_(rows, "available") = Cardinality(OpenPairs(created, t, q))
             /\ Sum_(rows, "used") = Cardinality(MetPairs(created, bookings, t, q))
             /\ Sum_(rows, "booked") = Cardinality(Spent(With(B, Blocked)))
             /\ Sum_(rows, "completed") = Cardinality(With(B, {"COMPLETED"}))
             /\ Sum_(rows, "cancelled") = Cardinality(With(B, {"CANCELLED"}))
             /\ Sum_(rows, "released") = Cardinality(With(B, {"AUTO_RELEASED"}))
<1>9. Sums(months)
  BY <1>3, UtilizationSums
<1>10. Sums(total)
  <2>1. /\ Sum_(total, "available") = Cardinality(OpenPairs(created, t, rooms))
        /\ Sum_(total, "used") = Cardinality(MetPairs(created, bookings, t, rooms))
        /\ Sum_(total, "booked") = Cardinality(Spent(With(InRange(rooms, bookings), Blocked)))
        /\ Sum_(total, "completed") = Cardinality(With(InRange(rooms, bookings), {"COMPLETED"}))
        /\ Sum_(total, "cancelled") = Cardinality(With(InRange(rooms, bookings), {"CANCELLED"}))
        /\ Sum_(total, "released") = Cardinality(With(InRange(rooms, bookings), {"AUTO_RELEASED"}))
    BY <1>3, <1>4, UtilizationSums
  <2>2. QED
    BY <1>6, <1>7, <2>1
<1>11. /\ OutcomeTotal(days, "created") = Cardinality(B)
       /\ OutcomeTotal(days, "completed") = Cardinality(With(B, {"COMPLETED"}))
       /\ OutcomeTotal(days, "byOwner") = Cardinality(CancelledFor(B, ByOwner))
       /\ OutcomeTotal(days, "byAdmin") = Cardinality(CancelledFor(B, ByAdmin))
       /\ OutcomeTotal(days, "released") = Cardinality(With(B, {"AUTO_RELEASED"}))
  BY <1>3, OutcomeSums
<1>12. Cardinality(CancelledFor(B, ByOwner)) + Cardinality(CancelledFor(B, ByAdmin)) =
         Cardinality(With(B, {"CANCELLED"}))
  BY <1>3, CancelledBy
<1>13. Sum_(cells, "used") = Cardinality(Spent(With(B, Used))) /\ (cells = {} => Sum_(cells, "used") = 0)
  BY <1>3, HeatmapSums
<1>14. Sum_(total, "used") <= Sum_(cells, "used")
  BY <1>3, <1>10, <1>13, MetAtMostSpent
<1>15. Sum_(cells, "used") > 0 => Peak(cells) # {}
  <2>1. CASE cells = {}
    <3>1. Sum_(cells, "used") = 0
      BY <1>13, <2>1
    <3>2. QED
      BY <3>1
  <2>2. CASE cells # {}
    BY <1>3, <2>2, PeakIs
  <2>3. QED
    BY <2>1, <2>2
<1>16. \A field \in {"available", "used", "booked", "completed", "cancelled", "released"} :
         Sum_(months, field) = Sum_(total, field)
  BY <1>9, <1>10
<1>17. OutcomeTotal(days, "byOwner") + OutcomeTotal(days, "byAdmin") = Sum_(total, "cancelled")
  BY <1>10, <1>11, <1>12
<1>18. /\ OutcomeTotal(days, "completed") = Sum_(total, "completed")
       /\ OutcomeTotal(days, "released") = Sum_(total, "released")
  BY <1>10, <1>11
<1>19. QED
  BY <1>8, <1>11, <1>14, <1>15, <1>16, <1>17, <1>18 DEF ReportRight

\* The property in a state of the right type whose meetings are apart.
LEMMA ReportsCountMinutesState == PickerType /\ NoClash => ReportsCountMinutes
<1> SUFFICES ASSUME PickerType, NoClash PROVE ReportsCountMinutes
  OBVIOUS
<1>1. ASSUME NEW t \in ReportTimes, NEW q \in Queries, NEW c \in Creations, NEW history \in Histories(t)
      PROVE  LET created == [r \in Rooms |-> c]
                 bookings == {history[m] : m \in Meetings} IN
             ReportRight(created, bookings, t, q,
                         Utilization(rules, created, bookings, t, q),
                         Utilization(rules, created, bookings, t, [q EXCEPT !.by = "room"]),
                         Outcomes(bookings, q), Heatmap(bookings, q))
  BY ReportHonest
<1>2. QED
  BY <1>1 DEF ReportsCountMinutes, ReportRight, RowRight

\* The reports count what happened and agree with each other.
THEOREM ReportsTrue == Spec => []ReportsCountMinutes
<1>1. PickerType /\ NoClash => ReportsCountMinutes
  BY ReportsCountMinutesState
<1>2. QED
  BY <1>1, NoClashes, PTL
=============================================================================
