----------------------------- MODULE RoomCalendar -----------------------------
(***************************************************************************)
(* What the booking transactions promise their users, with no transaction  *)
(* in sight: a calendar of rooms.  An entry takes a window at once and     *)
(* keeps it, moves to another at once, or gives it up for good; at every   *)
(* moment the entries of a room are apart by the configured gap.           *)
(* (docs/spec/sections/05-data-model.md 5.5: a booking holds its slot from *)
(* the commit, never lets go of the old slot before it has the new one,    *)
(* and is never reopened.)                                                 *)
(***************************************************************************)
EXTENDS Integers

CONSTANTS Ids, Rooms, Gap

VARIABLES phase,   \* "free" (never used), "held" or "over"
          slot     \* the window an entry holds

calendar == <<phase, slot>>

Held == {i \in Ids : phase[i] = "held"}

Apart(s, t) == s.room # t.room \/ s.end + Gap <= t.start \/ t.end + Gap <= s.start

AllApart == \A i, j \in Held : i # j => Apart(slot[i], slot[j])

Init ==
    /\ phase \in [Ids -> {"free", "held"}]
    /\ AllApart

\* Only the entries in S change.
Only(S) == \A i \in Ids \ S : phase'[i] = phase[i] /\ slot'[i] = slot[i]

Claim(i) == phase[i] = "free" /\ phase'[i] = "held" /\ Only({i}) /\ AllApart'
Move(i)  == phase[i] = "held" /\ phase'[i] = "held" /\ Only({i}) /\ AllApart'

\* A cascade or a sweep ends several entries in one step.
Vacate ==
    \E S \in SUBSET Held : /\ \A i \in S : phase'[i] = "over"
                           /\ Only(S)

Next == Vacate \/ \E i \in Ids : Claim(i) \/ Move(i)

Spec == Init /\ [][Next]_calendar
=============================================================================
