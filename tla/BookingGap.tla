------------------------------ MODULE BookingGap ------------------------------
(***************************************************************************)
(* Why the gap between two bookings of a room is kept although no          *)
(* constraint of the database knows it: the inductive invariant behind     *)
(* BufferKept.  What a writer has probed stays true until it writes,       *)
(* because whoever could make it false needs a room lock the writer holds. *)
(***************************************************************************)
EXTENDS BookingCalendar

PastRooms == {"decide", "select", "write"}
Writing(q, op) == At(q, "write", op)

\* lockRooms gives a room to one transaction at a time, and a writer past it holds its rooms.
RoomLocks ==
    /\ \A p, q \in Requests : p # q => req[p].rooms \cap req[q].rooms = {}
    /\ \A q \in Requests : req[q].pc \in PastRooms => req[q].rooms = NeededRooms(req[q])

\* FOR UPDATE gives a row to one transaction at a time; a move holds its row when it writes.
RowLocks ==
    /\ \A p, q \in Requests : p # q /\ req[p].row /\ req[q].row => req[p].id # req[q].id
    /\ \A q \in Requests : req[q].row => req[q].op \in {"patch", "demo"}
    /\ \A q \in Requests : Writing(q, "patch") \/ Writing(q, "demo") => req[q].row

Named == {"patch", "demo", "attendees", "checkin", "cancel"}

\* A request about a booking is about one that exists.
RowsExist ==
    \A q \in Requests : req[q].op \in Named => booking[req[q].id].status # "NONE"

\* As long as the version a client quotes is current, the head its handler has read is too.
HeadsFresh ==
    \A q \in Requests :
       LET r == req[q]  b == booking[r.id] IN
       r.op \in {"patch", "demo"} /\ r.pc # "done" =>
         /\ r.ver <= b.version
         /\ r.ver = b.version /\ (r.op = "patch" \/ r.pc # "head") => r.head = b.slot

\* The slot a writer is about to take is still clear, and in a room whose lock it holds.  A QR
\* check-in takes the slot its row has already: nobody moves the row, whatever else happens to it.
Probed ==
    \A q \in Requests :
       LET r == req[q]  b == booking[r.id] IN
       /\ Writing(q, "create") => BufferClear(NoId, r.to)
       /\ Writing(q, "patch") /\ Moved(r) => BufferClear(r.id, r.to)
       /\ Writing(q, "demo") => /\ BufferClear(r.id, r.to)
                                /\ r.to.room = r.head.room /\ r.to.room = b.slot.room
                                /\ b.status = "CONFIRMED"
       /\ Writing(q, "qr") => /\ BufferClear(r.id, b.slot)
                              /\ b.slot.room = r.to.room
                              /\ b.status # "NONE"

\* The inductive invariant: BufferKept and what the writers rely on to keep it.
GapInvariant == BufferKept /\ RoomLocks /\ RowLocks /\ RowsExist /\ HeadsFresh /\ Probed

\* Only what this instance issues is ever under way.
OnlyOps == \A q \in Requests : req[q].op \in Ops \cup {"-"}
=============================================================================
