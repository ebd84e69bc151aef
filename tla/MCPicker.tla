------------------------------ MODULE MCPicker ------------------------------
EXTENDS Picker, TLC
\* A unit is half an hour of a twelve-unit day; the offset is a multiple of every step.
Hours(a, b) == [isOpen |-> TRUE, open |-> a, close |-> b]
Closed == [isOpen |-> FALSE, open |-> 0, close |-> 0]
Rule(step, max, buffer, hours, holidays) ==
    [step |-> step, min |-> 2, max |-> max, buffer |-> buffer, lead |-> 1, advance |-> 10,
     hours |-> hours, holidays |-> holidays]
MCRuleSets ==
    { Rule(1, 3, 0, (0 :> Hours(4, 9) @@ 1 :> Hours(5, 8)), {}),
      Rule(2, 0, 0, (0 :> Hours(4, 9) @@ 1 :> Hours(2, 10)), {1}),
      Rule(1, 0, 1, (0 :> Hours(5, 9) @@ 1 :> Closed), {}) }
\* Minutes of the building: 6-8, 8-9 of day 0 and 5-7 of day 1, offset 4.
MCOwn == [room |-> "r1", from |-> 2, to |-> 4]
MCMeetings ==
    {MCOwn, [room |-> "r1", from |-> 4, to |-> 5], [room |-> "r2", from |-> 3, to |-> 5],
     [room |-> "r1", from |-> 13, to |-> 15]}
\* The rooms are older than the calendar, or made within the first or the second day.
MCCreations == {-8, 2, 13}
=============================================================================
