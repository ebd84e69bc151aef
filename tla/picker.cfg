\* Two rooms, two days, three sets of rules, four meetings of other people.
SPECIFICATION Spec
CONSTANTS
  Rooms = {"r1", "r2"}
  DayLen = 12
  Offset = 4
  Week = 2
  Dates = {0, 1}
  Meetings <- MCMeetings
  Own <- MCOwn
  RuleSets <- MCRuleSets
  Kinds = {"room", "day", "move"}
  MaxNow = 1
  MonthLen = 1
  HourLen = 2
  MaxSpan = 2
  ReportTimes = {1, 3, 14, 20}
  Creations <- MCCreations
INVARIANTS OfferedIsAccepted MinuteByMinute AvailabilityHonest ReportsCountMinutes
