----------------------------- MODULE MCBookingTx -----------------------------
(* Small instances of BookingTx for TLC: the seeded rows, the windows clients ask for and the  *)
(* guest lists they send.  The .cfg files pick one of each and the operations of the run.      *)
EXTENDS BookingRules, TLC

CONSTANTS u1, u2, u3, r1, r2, b1, b2, b3

At_(r, s, e) == [room |-> r, start |-> s, end |-> e]
Seed_(i, o, s, g) == [id |-> i, owner |-> o, slot |-> s, guests |-> g]

NoSeed == {}
\* One meeting ahead.
SeedOne == {Seed_(b1, u2, At_(r1, 2, 4), {})}
\* One meeting ahead with a guest, the admin, at which the check-in window opens at once.
SeedGuest == {Seed_(b1, u2, At_(r1, 2, 4), {u1})}
\* A meeting that can be checked in at once.
SeedSoon == {Seed_(b1, u2, At_(r1, 1, 2), {})}

SpansOne   == {<<1, 2>>}
SpansTwo   == {<<1, 3>>, <<4, 5>>}
SpansNext    == {<<2, 3>>}
SpansLater   == {<<3, 4>>}
SpansShift == {<<2, 4>>, <<3, 5>>}

SpansGap == {<<2, 4>>, <<4, 5>>}

NoGuests == {{}}
Guest    == {{}, {u1}}

\* Requests are interchangeable: nothing is chosen among them.
RequestSymmetry == Permutations(Requests)
=============================================================================
