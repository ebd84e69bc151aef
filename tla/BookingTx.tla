------------------------------ MODULE BookingTx ------------------------------
(***************************************************************************)
(* The transactions that write bookings, run concurrently against one      *)
(* PostgreSQL database (apps/api/src/modules/bookings/service.ts,          *)
(* modules/users/service.ts deactivateUser, modules/rooms/admin.ts PATCH,  *)
(* jobs/sweep.ts).                                                         *)
(*                                                                         *)
(* A request is a process. It walks the steps every writer walks:          *)
(*   pre-read outside the transaction -> idempotency lock -> user rows ->  *)
(*   room advisory locks -> decision time and probes -> guarded write.     *)
(* Each step that can block, or that reads what a later step relies on, is *)
(* an action of its own; the write and the COMMIT are one action, because  *)
(* no other transaction sees an uncommitted row and the row locks that     *)
(* matter are held explicitly.  A set of locks is taken in one action when *)
(* all of it is free: lockRooms takes them one at a time in a fixed order, *)
(* which only allows fewer interleavings.                                  *)
(*                                                                         *)
(* Time is an integer clock; starts and ends lie on it, so `now' also      *)
(* passes through every boundary instant exactly.                          *)
(***************************************************************************)
EXTENDS Integers, Sequences, FiniteSets

CONSTANTS
    Users,        \* user rows; a user's e-mail address is the user
    Admins,       \* the users whose role is ADMIN
    Rooms,
    Ids,          \* primary keys of the bookings table
    NoId,         \* excludeBookingId omitted
    Keys,         \* Idempotency-Key values
    Requests,     \* HTTP requests, each handled once
    Ops,          \* the operations this instance issues
    Spans,        \* <<start, end>> windows clients ask for
    GuestLists,   \* attendee lists clients send
    Seed,         \* bookings committed before the first step
    MaxTime,      \* bound: the clock stops here
    Buffer, MinLead, OpenBefore, Grace, ReminderBefore, SlotStep, DbStep, \* settings
    AutoRelease   \* settings.auto_release_enabled

NoKey == "no key"                                \* the key of a seeded row
Never == -1

ASSUME NamesAssumption ==
    /\ Users # {} /\ Rooms # {} /\ Ids # {} /\ Admins \subseteq Users
    /\ NoId \notin Ids /\ NoKey \notin Keys
ASSUME InputsAssumption ==
    /\ Spans \subseteq {w \in Nat \X Nat : w[1] < w[2]}
    /\ GuestLists \subseteq SUBSET Users
ASSUME SettingsAssumption ==
    /\ {MaxTime, Buffer, MinLead, OpenBefore, Grace, ReminderBefore} \subseteq Nat
    /\ {SlotStep, DbStep} \subseteq Nat \ {0}
    /\ AutoRelease \in BOOLEAN

Live     == {"CONFIRMED", "CHECKED_IN"}
Terminal == {"COMPLETED", "CANCELLED", "AUTO_RELEASED"}
Status   == Live \cup Terminal \cup {"NONE"}     \* NONE: no row with this id

Slot    == [room : Rooms, start : Int, end : Int]
SeedRow == [id : Ids, owner : Users, slot : Slot, guests : SUBSET Users]
Booking == [slot : Slot, owner : Users, creator : Users, key : Keys \cup {NoKey},
            status : Status, version : Nat, guests : SUBSET Users,
            confirmedAt : Nat, method : {"-", "SELF", "QR", "ADMIN"}, by : Users]

\* The seeded rows have distinct ids and keep the gap in their rooms.
ASSUME SeedAssumption ==
    /\ Seed \subseteq SeedRow
    /\ \A s \in Seed : s.slot.start < s.slot.end
    /\ \A s, t \in Seed : s # t =>
         /\ s.id # t.id
         /\ s.slot.room = t.slot.room =>
              s.slot.end + Buffer <= t.slot.start \/ t.slot.end + Buffer <= s.slot.start

AnyRoom == CHOOSE r \in Rooms : TRUE
AnyUser == CHOOSE u \in Users : TRUE
AnyId   == CHOOSE i \in Ids : TRUE
NoSlot  == [room |-> AnyRoom, start |-> 0, end |-> 0]
NoRow   == [slot |-> NoSlot, owner |-> AnyUser, creator |-> AnyUser, key |-> NoKey,
            status |-> "NONE", version |-> 0, guests |-> {}, confirmedAt |-> 0,
            method |-> "-", by |-> AnyUser]

----------------------------------------------------------------------------
(* Windows *)

\* tstzrange(start_at, end_at, '[)') && ... in the same room.
Clash(s, t) == s.room = t.room /\ s.start < t.end /\ t.start < s.end

\* Deviation: the gap is only kept after a meeting.
WidenAfter(s) == [s EXCEPT !.end = @ + Buffer]
\* occupancyRange: the window widened by the gap on both sides.
Widen(s) == [s EXCEPT !.start = @ - Buffer, !.end = @ + Buffer]

Earlier(a, b) == IF a <= b THEN a ELSE b

\* LEAST(end_at, start_at + grace): the self check-in deadline and the release instant.
Deadline(s) == Earlier(s.end, s.start + Grace)

OpenForSelf(s, t)  == t >= s.start - OpenBefore /\ t < Deadline(s)
OpenForAdmin(s, t) == t >= s.start - OpenBefore /\ t < s.end

\* demoCheckinReadyStart: the latest start on the configured grid that makes self check-in
\* legal at t, or else the latest one on the database's own grid.
OnGrid(t, step)        == ((t + OpenBefore) \div step) * step
Eligible(t, len, step) == OnGrid(t, step) > t - Earlier(len, Grace)
DemoStart(t, len)      == IF Eligible(t, len, SlotStep) THEN OnGrid(t, SlotStep)
                                                        ELSE OnGrid(t, DbStep)

----------------------------------------------------------------------------
VARIABLES
    now,         \* the database clock
    booking,     \* committed rows of bookings and booking_attendees
    disabledAt,  \* users.disabled_at, Never for an ACTIVE user
    roomOn,      \* rooms.active
    outbox,      \* rows of notifications, as enqueued
    trail,       \* audit actions written for each booking, oldest first
    req,         \* the requests
    sweep        \* the booking.sweep round

vars == <<now, booking, disabledAt, roomOn, outbox, trail, req, sweep>>
table == <<booking, outbox, trail>>

Active(u) == disabledAt[u] = Never

AllOps == {"create", "patch", "demo", "attendees", "cancel", "checkin", "qr",
           "deactivate", "room"}
Templates == {"confirmed", "rescheduled", "cancelled", "auto_released",
              "auto_released_admin", "reminder"}
Events == {"create", "update", "reschedule", "demo_shift", "checkin", "cancel",
           "auto_release", "complete"}
Mail == [id : Ids, tpl : Templates, key : Nat, to : Users, slot : Slot]

Codes == {"-", "ok", "replay", "already", "refused", "SLOT_UNAVAILABLE",
          "VERSION_CONFLICT", "INVALID_STATUS_TRANSITION", "aborted"}
Pcs == {"idle", "validate", "idem", "head", "users", "resolve", "rooms", "decide",
        "select", "write", "done"}
Request ==
    [op : AllOps \cup {"-"}, pc : Pcs, actor : Users, owner : Users, id : Ids,
     key : Keys \cup {NoKey}, ver : Nat, asked : SUBSET {"room", "time"}, to : Slot,
     guests : SUBSET Users, head : Slot, method : {"-", "SELF", "ADMIN"},
     need : SUBSET Rooms, rooms : SUBSET Rooms, share : SUBSET Users,
     excl : SUBSET Users, row : BOOLEAN, at : Nat,
     again : BOOLEAN, code : Codes]
NoRequest ==
    [op |-> "-", pc |-> "idle", actor |-> AnyUser, owner |-> AnyUser, id |-> AnyId,
     key |-> NoKey, ver |-> 0, asked |-> {}, to |-> NoSlot, guests |-> {},
     head |-> NoSlot, method |-> "-", need |-> {}, rooms |-> {}, share |-> {},
     excl |-> {}, row |-> FALSE, at |-> 0,
     again |-> FALSE, code |-> "-"]

TypeOK ==
    /\ now \in Nat
    /\ booking \in [Ids -> Booking]
    /\ disabledAt \in [Users -> Nat \cup {Never}]
    /\ roomOn \in [Rooms -> BOOLEAN]
    /\ outbox \in SUBSET Mail
    /\ trail \in [Ids -> Seq(Events)]
    /\ req \in [Requests -> Request]
    /\ sweep \in [on : BOOLEAN, at : Nat]

----------------------------------------------------------------------------
(* What the statements read *)

Holds(i) == booking[i].status \in Live

\* Deviation: the key is looked up whoever sent it.
PriorAnyCreator(a, k) == {i \in Ids : booking[i].status # "NONE" /\ booking[i].key = k}
\* SELECT id FROM bookings WHERE created_by = a AND idempotency_key = k.
Prior(a, k) == {i \in Ids : /\ booking[i].status # "NONE"
                            /\ booking[i].creator = a /\ booking[i].key = k}
PriorId(a, k) == CHOOSE i \in Prior(a, k) : TRUE

\* bookings_no_overlap_confirmed: row i may hold slot s.
ExcludeOK(i, s) == \A j \in Ids \ {i} : Holds(j) => ~Clash(booking[j].slot, s)

\* assertBufferClear: no holding booking other than i inside the widened window.
BufferClear(i, s) ==
    Buffer > 0 => \A j \in Ids \ {i} : Holds(j) => ~Clash(booking[j].slot, Widen(s))

FreeId == CHOOSE i \in Ids : booking[i].status = "NONE"

\* The guard PATCH and PUT attendees share: owner before the start, admin before the end.
Editable(b, a, t) ==
    /\ b.status = "CONFIRMED"
    /\ (a \in Admins /\ b.slot.end > t) \/ (b.owner = a /\ b.slot.start > t)

Cancellable(b, a, t) ==
    /\ b.slot.end > t
    /\ b.status = "CONFIRMED" \/ (a \in Admins /\ b.status = "CHECKED_IN")
    /\ b.owner = a \/ a \in Admins

Involved(b, u) == u = b.owner \/ u \in b.guests

\* Deviation: an administrator is offered the administrator's window, a participant or not.
CanRoleFirst(b, a, t) ==
    (IF Editable(b, a, t) THEN {"edit"} ELSE {}) \cup (IF Cancellable(b, a, t) THEN {"cancel"} ELSE {})
    \cup (IF b.status = "CONFIRMED" /\ OpenForAdmin(b.slot, t) THEN {"checkin"} ELSE {})
\* can of GET /bookings/:id: what the pages offer the viewer, by rules written a second time.
Can(b, a, t) ==
    LET confirmed == b.status = "CONFIRMED"
        edit == confirmed /\ ((a \in Admins /\ t < b.slot.end) \/ (a = b.owner /\ t < b.slot.start))
        cancel == t < b.slot.end /\ ((a = b.owner /\ confirmed) \/ (a \in Admins /\ b.status \in Live))
        open == t >= b.slot.start - OpenBefore
        checkin == confirmed /\ open /\ IF Involved(b, a) THEN t < Deadline(b.slot)
                                       ELSE a \in Admins /\ t < b.slot.end IN
    {x \in {"edit", "cancel", "checkin"} :
        CASE x = "edit" -> edit [] x = "cancel" -> cancel [] OTHER -> checkin}

----------------------------------------------------------------------------
(* Locks.  Held ones are recorded in req; all fall at COMMIT or ROLLBACK,   *)
(* when the request's record is reset.                                      *)

Others(q) == Requests \ {q}

NoLock(q, x) == TRUE                               \* deviation: the lock is not taken

\* pg_advisory_xact_lock(hashtext(actor || ':' || key)), held from the second step to the last.
Keyed(q) == req[q].op = "create" /\ req[q].pc \in {"users", "rooms", "decide", "write"}
KeyFree(q, a, k) == \A p \in Others(q) : ~ (Keyed(p) /\ req[p].actor = a /\ req[p].key = k)

\* FOR SHARE on users waits for FOR UPDATE holders; FOR UPDATE waits for both.
ShareFree(q, us) == \A p \in Others(q) : req[p].excl \cap us = {}
ExclFree(q, us)  == \A p \in Others(q) : (req[p].excl \cup req[p].share) \cap us = {}

\* pg_advisory_xact_lock('users:last-admin')
LastAdminFree(q) ==
    \A p \in Others(q) : ~ (req[p].op = "deactivate" /\ req[p].excl # {})

\* lockRooms
RoomsFree(q, rs) == \A p \in Others(q) : req[p].rooms \cap rs = {}

\* SELECT ... FROM bookings ... FOR UPDATE, held from the re-read to the write.
RowFree(q, i) == \A p \in Others(q) : ~ (req[p].row /\ req[p].id = i)

----------------------------------------------------------------------------
(* Steps shared by the handlers *)

At(q, pc, op) == req[q].pc = pc /\ req[q].op = op

Idle(q, op) == req[q].pc = "idle" /\ op \in Ops

Becomes(q, r) == req' = [req EXCEPT ![q] = r]

\* Deviation: the answer is out but the transaction is left open.
ReplyOpen(q, code, i) ==
    Becomes(q, [req[q] EXCEPT !.pc = "done", !.id = i, !.code = code])
\* The response is out, the transaction is over and its locks are gone.
Reply(q, code, i) ==
    Becomes(q, [NoRequest EXCEPT
              !.op = req[q].op, !.pc = "done", !.actor = req[q].actor, !.key = req[q].key,
              !.id = i, !.code = code])

Unwritten == UNCHANGED <<now, booking, disabledAt, roomOn, outbox, trail, sweep>>
Refuse(q, code) == Reply(q, code, req[q].id) /\ Unwritten

\* notifications_dedupe: ON CONFLICT DO NOTHING.
Enqueue(mails) ==
    outbox \cup {m \in mails : \A n \in outbox :
                     <<n.id, n.tpl, n.to, n.key>> # <<m.id, m.tpl, m.to, m.key>>}
MailTo(us, i, tpl, key, s) ==
    {[id |-> i, tpl |-> tpl, key |-> key, to |-> u, slot |-> s] : u \in us}

Audit(i, action) == [trail EXCEPT ![i] = Append(@, action)]

----------------------------------------------------------------------------
(* POST /bookings *)

AskedSlot(r, w) == [room |-> r, start |-> w[1], end |-> w[2]]

\* findPriorBookingId answers a retry at once.
AskCreate(a, o, k, to, g) ==
    IF Prior(a, k) # {}
      THEN [NoRequest EXCEPT !.op = "create", !.pc = "done", !.actor = a, !.key = k,
                             !.id = PriorId(a, k), !.code = "replay"]
      ELSE [NoRequest EXCEPT !.op = "create", !.pc = "validate", !.actor = a, !.owner = o,
                             !.key = k, !.to = to, !.guests = g]

\* The route up to its first read.
SubmitCreate(q) ==
    /\ Idle(q, "create")
    /\ \E a \in Users, o \in Users, k \in Keys, r \in Rooms, w \in Spans, g \in GuestLists :
         /\ Active(a)
         /\ o = a \/ a \in Admins
         /\ Becomes(q, AskCreate(a, o, k, AskedSlot(r, w), g))
    /\ Unwritten

SlotValid(s) == roomOn[s.room] /\ s.start >= now + MinLead

\* Deviation: the route answers a failed validation without looking for a prior booking again.
ValidateOnce(q) ==
    /\ At(q, "validate", "create")
    /\ IF SlotValid(req[q].to)
         THEN Becomes(q, [req[q] EXCEPT !.pc = "idem"])
         ELSE Reply(q, "refused", req[q].id)
    /\ Unwritten

\* The fail-fast room read and validateSlot; on an error the prior booking wins.
Validate(q) ==
    LET r == req[q] IN
    /\ At(q, "validate", "create")
    /\ IF SlotValid(r.to) THEN Becomes(q, [req[q] EXCEPT !.pc = "idem"])
       ELSE IF Prior(r.actor, r.key) # {} THEN Reply(q, "replay", PriorId(r.actor, r.key))
       ELSE Reply(q, "refused", req[q].id)
    /\ Unwritten

\* Step (0): the key's advisory lock, then the prior SELECT inside the transaction.
LockKey(q) ==
    LET r == req[q] IN
    /\ At(q, "idem", "create")
    /\ KeyFree(q, r.actor, r.key)
    /\ IF Prior(r.actor, r.key) # {} THEN Reply(q, "replay", PriorId(r.actor, r.key))
       ELSE Becomes(q, [req[q] EXCEPT !.pc = "users"])
    /\ Unwritten

\* Deviation: the room is not read again under its lock.
DecideCreateBlind(q) ==
    /\ At(q, "decide", "create")
    /\ IF BufferClear(NoId, req[q].to)
         THEN Becomes(q, [req[q] EXCEPT !.at = now, !.pc = "write"])
         ELSE Reply(q, "SLOT_UNAVAILABLE", req[q].id)
    /\ Unwritten
\* The room's lock is held: the room FOR SHARE, the gap, the decision time.
DecideCreate(q) ==
    /\ At(q, "decide", "create")
    /\ IF roomOn[req[q].to.room]
         THEN IF BufferClear(NoId, req[q].to)
                THEN Becomes(q, [req[q] EXCEPT !.at = now, !.pc = "write"])
                ELSE Reply(q, "SLOT_UNAVAILABLE", req[q].id)
         ELSE Reply(q, "refused", req[q].id)
    /\ Unwritten

\* The INSERT, with both constraints; attendees, booking.confirmed and the audit row.
WriteCreate(q) ==
    LET r == req[q]  i == FreeId IN
    /\ At(q, "write", "create")
    /\ IF Prior(r.actor, r.key) # {}
         THEN Reply(q, "replay", PriorId(r.actor, r.key)) /\ UNCHANGED table
       ELSE IF ~ExcludeOK(NoId, r.to) THEN Reply(q, "SLOT_UNAVAILABLE", r.id) /\ UNCHANGED table
       ELSE /\ i \in Ids /\ booking[i].status = "NONE"      \* bound: an id is left
            /\ booking' = [booking EXCEPT ![i] =
                  [slot |-> r.to, owner |-> r.owner, creator |-> r.actor, key |-> r.key,
                   status |-> "CONFIRMED", version |-> 1, guests |-> r.guests,
                   confirmedAt |-> r.at, method |-> "-", by |-> AnyUser]]
            /\ outbox' = Enqueue(MailTo({r.owner} \cup r.guests, i, "confirmed", 1, r.to))
            /\ trail' = Audit(i, "create")
            /\ Reply(q, "ok", i)
    /\ UNCHANGED <<now, disabledAt, roomOn, sweep>>

----------------------------------------------------------------------------
(* PATCH /bookings/:id *)

\* What the body leaves out is filled in from the head the route has read.
Target(b, asked, r, w) ==
    [room  |-> IF "room" \in asked THEN r ELSE b.slot.room,
     start |-> IF "time" \in asked THEN w[1] ELSE b.slot.start,
     end   |-> IF "time" \in asked THEN w[2] ELSE b.slot.end]

AskPatch(a, i, v, asked, to) ==
    [NoRequest EXCEPT !.op = "patch", !.pc = "users", !.actor = a, !.owner = booking[i].owner,
                      !.id = i, !.ver = v, !.asked = asked, !.to = to, !.head = booking[i].slot]

\* The route: head read from the pool, authorisation, validation if the slot moves.
SubmitPatch(q) ==
    /\ Idle(q, "patch")
    /\ \E a \in Users, i \in Ids, r \in Rooms, w \in Spans, asked \in SUBSET {"room", "time"} :
         LET b == booking[i]  to == Target(b, asked, r, w) IN
         /\ Active(a)
         /\ b.status # "NONE"
         /\ b.owner = a \/ a \in Admins
         /\ to # b.slot => to.start >= now + MinLead
         /\ \E v \in 1..b.version :
              Becomes(q, AskPatch(a, i, v, asked, to))
    /\ Unwritten

Moved(r) == r.to # r.head

\* Both rooms locked: the row FOR UPDATE, the target room's state, the gap, the decision time.
DecidePatch(q) ==
    LET r == req[q] IN
    /\ At(q, "decide", "patch")
    /\ RowFree(q, r.id)
    /\ IF ~roomOn[r.to.room] THEN Reply(q, "refused", r.id)
       ELSE IF Moved(r) /\ ~BufferClear(r.id, r.to) THEN Reply(q, "SLOT_UNAVAILABLE", r.id)
       ELSE Becomes(q, [req[q] EXCEPT !.row = TRUE, !.at = now, !.pc = "write"])
    /\ Unwritten

VersionUnchecked(q) == TRUE                        \* deviation: last writer wins
VersionMatches(q) == booking[req[q].id].version = req[q].ver

WritePatch(q) ==
    LET r == req[q]  b == booking[r.id] IN
    /\ At(q, "write", "patch")
    /\ IF ~VersionMatches(q) THEN Reply(q, "VERSION_CONFLICT", r.id) /\ UNCHANGED table
       ELSE IF ~Editable(b, r.actor, r.at)
         THEN Reply(q, "INVALID_STATUS_TRANSITION", r.id) /\ UNCHANGED table
       ELSE IF ~ExcludeOK(r.id, r.to) THEN Reply(q, "SLOT_UNAVAILABLE", r.id) /\ UNCHANGED table
       ELSE /\ booking' = [booking EXCEPT ![r.id] = [b EXCEPT !.slot = r.to, !.version = @ + 1,
                  !.confirmedAt = IF Moved(r) THEN r.at ELSE @]]
            /\ outbox' = IF Moved(r)
                 THEN Enqueue(MailTo({b.owner} \cup b.guests, r.id, "rescheduled",
                                     b.version + 1, r.to))
                 ELSE outbox
            /\ trail' = Audit(r.id, IF Moved(r) THEN "reschedule" ELSE "update")
            /\ Reply(q, "ok", r.id)
    /\ UNCHANGED <<now, disabledAt, roomOn, sweep>>

----------------------------------------------------------------------------
(* Operations on one booking whose head is read inside the transaction:     *)
(* PUT attendees, POST check-in, POST demo-check-in-ready.                  *)

SubmitAttendees(q) ==
    /\ Idle(q, "attendees")
    /\ \E a \in Users, i \in Ids, g \in GuestLists :
         /\ Active(a) /\ booking[i].status # "NONE"
         /\ booking[i].owner = a \/ a \in Admins
         /\ \E v \in 1..booking[i].version :
              Becomes(q, [NoRequest EXCEPT !.op = "attendees", !.pc = "head",
                        !.actor = a, !.id = i, !.ver = v, !.guests = g])
    /\ Unwritten

\* The route picks the method from what it reads before the transaction.
SubmitCheckin(q) ==
    /\ Idle(q, "checkin")
    /\ \E a \in Users, i \in Ids :
         /\ Active(a) /\ booking[i].status # "NONE"
         /\ Involved(booking[i], a) \/ a \in Admins
         /\ Becomes(q, [NoRequest EXCEPT !.op = "checkin", !.pc = "head",
                      !.actor = a, !.id = i,
                      !.method = IF Involved(booking[i], a) THEN "SELF" ELSE "ADMIN"])
    /\ Unwritten

SubmitDemo(q) ==
    /\ Idle(q, "demo")
    /\ \E a \in Users, i \in Ids :
         /\ Active(a) /\ booking[i].status # "NONE"
         /\ \E v \in 1..booking[i].version :
              Becomes(q, [NoRequest EXCEPT !.op = "demo", !.pc = "head",
                        !.actor = a, !.id = i, !.ver = v])
    /\ Unwritten

\* loadHeadInTx
ReadHead(q) ==
    /\ req[q].pc = "head"
    /\ Becomes(q, [req[q] EXCEPT !.pc = "users", !.owner = booking[req[q].id].owner,
                          !.head = booking[req[q].id].slot])
    /\ Unwritten

\* The diff drives the mail: an invitation for who is new, a cancellation for who is gone.
WriteAttendees(q) ==
    LET r == req[q]  b == booking[r.id] IN
    /\ At(q, "write", "attendees")
    /\ RowFree(q, r.id)
    /\ IF ~VersionMatches(q) THEN Reply(q, "VERSION_CONFLICT", r.id) /\ UNCHANGED table
       ELSE IF ~Editable(b, r.actor, r.at)
         THEN Reply(q, "INVALID_STATUS_TRANSITION", r.id) /\ UNCHANGED table
       ELSE /\ booking' = [booking EXCEPT ![r.id] =
                  [b EXCEPT !.guests = r.guests, !.version = @ + 1]]
            /\ outbox' = Enqueue(
                 MailTo(r.guests \ b.guests, r.id, "confirmed", b.version + 1, r.head) \cup
                 MailTo(b.guests \ r.guests, r.id, "cancelled", b.version + 1, r.head))
            /\ trail' = Audit(r.id, "update")
            /\ Reply(q, "ok", r.id)
    /\ UNCHANGED <<now, disabledAt, roomOn, sweep>>

CheckIn(i, a, how) ==
    [booking EXCEPT ![i] = [booking[i] EXCEPT !.status = "CHECKED_IN", !.version = @ + 1,
                                              !.method = how, !.by = a]]

\* Deviation: the UPDATE tests the window and not the status.
WriteCheckinAnyStatus(q) ==
    LET r == req[q]  b == booking[r.id] IN
    /\ At(q, "write", "checkin")
    /\ RowFree(q, r.id)
    /\ IF OpenForSelf(b.slot, r.at)
         THEN booking' = CheckIn(r.id, r.actor, r.method) /\ trail' = Audit(r.id, "checkin")
              /\ Reply(q, "ok", r.id)
         ELSE Reply(q, "refused", r.id) /\ UNCHANGED <<booking, trail>>
    /\ UNCHANGED <<now, disabledAt, roomOn, outbox, sweep>>
\* The guarded UPDATE of checkInById, status included: a row that left CONFIRMED is not touched.
WriteCheckin(q) ==
    LET r == req[q]  b == booking[r.id]
        open == IF r.method = "ADMIN" THEN OpenForAdmin(b.slot, r.at)
                                      ELSE OpenForSelf(b.slot, r.at) IN
    /\ At(q, "write", "checkin")
    /\ RowFree(q, r.id)
    /\ IF b.status = "CONFIRMED" /\ open
         THEN /\ booking' = CheckIn(r.id, r.actor, r.method)
              /\ trail' = Audit(r.id, "checkin")
              /\ Reply(q, "ok", r.id)
              /\ UNCHANGED outbox
         ELSE /\ Reply(q, IF b.status = "CHECKED_IN" THEN "already" ELSE "refused", r.id)
              /\ UNCHANGED table
    /\ UNCHANGED <<now, disabledAt, roomOn, sweep>>

\* The demo shift re-reads the row FOR UPDATE, then probes the gap at the new window.
DecideDemo(q) ==
    LET r == req[q]
        b == booking[r.id]
        len == b.slot.end - b.slot.start
        start == DemoStart(now, len)
        to == [b.slot EXCEPT !.start = start, !.end = start + len] IN
    /\ At(q, "decide", "demo")
    /\ RowFree(q, r.id)
    /\ IF ~VersionMatches(q) THEN Reply(q, "VERSION_CONFLICT", r.id)
       ELSE IF ~roomOn[b.slot.room] THEN Reply(q, "refused", r.id)
       ELSE IF b.status # "CONFIRMED" \/ b.slot.start <= now
         THEN Reply(q, "INVALID_STATUS_TRANSITION", r.id)
       ELSE IF ~(Eligible(now, len, SlotStep) \/ Eligible(now, len, DbStep))
         THEN Reply(q, "refused", r.id)
       ELSE IF ~BufferClear(r.id, to) THEN Reply(q, "SLOT_UNAVAILABLE", r.id)
       ELSE Becomes(q, [req[q] EXCEPT !.row = TRUE, !.at = now, !.to = to,
                               !.pc = "write"])
    /\ Unwritten

\* No mail: the demo never writes to the outbox.
WriteDemo(q) ==
    LET r == req[q] IN
    /\ At(q, "write", "demo")
    /\ IF ~ExcludeOK(r.id, r.to) THEN Reply(q, "SLOT_UNAVAILABLE", r.id) /\ UNCHANGED table
       ELSE /\ booking' = [booking EXCEPT ![r.id] =
                  [booking[r.id] EXCEPT !.slot = r.to, !.version = @ + 1, !.confirmedAt = r.at]]
            /\ trail' = Audit(r.id, "demo_shift")
            /\ Reply(q, "ok", r.id)
            /\ UNCHANGED outbox
    /\ UNCHANGED <<now, disabledAt, roomOn, sweep>>

----------------------------------------------------------------------------
(* POST /bookings/:id/cancel.  The head is read from the pool, before the   *)
(* transaction, and never again.                                            *)

SubmitCancel(q) ==
    /\ Idle(q, "cancel")
    /\ \E a \in Users, i \in Ids :
         LET b == booking[i] IN
         /\ Active(a) /\ b.status # "NONE"
         /\ b.owner = a \/ a \in Admins
         /\ Becomes(q, [NoRequest EXCEPT !.op = "cancel", !.actor = a, !.id = i,
                !.pc    = IF b.status \in Live THEN "users" ELSE "done",
                !.code  = CASE b.status \in Live      -> "-"
                            [] b.status = "CANCELLED" -> "already"
                            [] OTHER                  -> "INVALID_STATUS_TRANSITION",
                !.owner = b.owner, !.head = b.slot])
    /\ Unwritten

\* An owner's cancellation is not mailed to the owner.  The mail's window is the head's.
WriteCancel(q) ==
    LET r == req[q]  b == booking[r.id] IN
    /\ At(q, "write", "cancel")
    /\ RowFree(q, r.id)
    /\ IF Cancellable(b, r.actor, r.at)
         THEN /\ booking' = [booking EXCEPT ![r.id] =
                    [b EXCEPT !.status = "CANCELLED", !.version = @ + 1]]
              /\ outbox' = Enqueue(MailTo(
                   IF r.owner = r.actor THEN b.guests ELSE {r.owner} \cup b.guests,
                   r.id, "cancelled", b.version + 1, r.head))
              /\ trail' = Audit(r.id, "cancel")
              /\ Reply(q, "ok", r.id)
         ELSE /\ Reply(q, IF b.status = "CANCELLED" THEN "already"
                                                    ELSE "INVALID_STATUS_TRANSITION", r.id)
              /\ UNCHANGED table
    /\ UNCHANGED <<now, disabledAt, roomOn, sweep>>

----------------------------------------------------------------------------
(* POST /checkin/rooms/:room_code *)

SubmitQr(q) ==
    /\ Idle(q, "qr")
    /\ \E a \in Users, r \in Rooms :
         /\ Active(a) /\ roomOn[r]
         /\ Becomes(q, [NoRequest EXCEPT !.op = "qr", !.pc = "users",
                      !.actor = a, !.owner = a, !.to.room = r])
    /\ Unwritten

\* ORDER BY start_at LIMIT 1
First(i, S) == \A j \in S : booking[i].slot.start <= booking[j].slot.start

\* The UPDATE's subquery, run once on the statement's snapshot: the scanner's earliest open
\* booking in the room.  With none, the diagnostics answer.
SelectQr(q) ==
    LET r == req[q]
        mine(i) == booking[i].slot.room = r.to.room /\ Involved(booking[i], r.actor)
        open == {i \in Ids : /\ mine(i) /\ booking[i].status = "CONFIRMED"
                             /\ OpenForSelf(booking[i].slot, r.at)}
        used == {i \in Ids : /\ mine(i) /\ booking[i].status = "CHECKED_IN"
                             /\ OpenForAdmin(booking[i].slot, r.at)} IN
    /\ At(q, "select", "qr")
    /\ IF open # {}
         THEN \E i \in open :
                First(i, open) /\ Becomes(q, [r EXCEPT !.id = i, !.pc = "write"])
         ELSE \/ \E i \in used : First(i, used) /\ Reply(q, "already", i)
              \/ used = {} /\ Reply(q, "refused", r.id)
    /\ Unwritten

\* The outer UPDATE waits for the row and re-checks only its own predicate, b.id = <id>:
\* READ COMMITTED does not run the subquery again.
WriteQr(q) ==
    LET r == req[q] IN
    /\ At(q, "write", "qr")
    /\ RowFree(q, r.id)
    /\ IF ExcludeOK(r.id, booking[r.id].slot)
         THEN /\ booking' = CheckIn(r.id, r.actor, "QR")
              /\ trail' = Audit(r.id, "checkin")
              /\ Reply(q, "ok", r.id)
              /\ UNCHANGED outbox
         ELSE Reply(q, "refused", r.id) /\ UNCHANGED table
    /\ UNCHANGED <<now, disabledAt, roomOn, sweep>>

----------------------------------------------------------------------------
(* POST /admin/users/:id/deactivate *)

SubmitDeactivate(q) ==
    /\ Idle(q, "deactivate")
    /\ \E a \in Admins : \E u \in Users \ {a} :
         /\ Active(a)
         /\ Becomes(q, [NoRequest EXCEPT !.op = "deactivate", !.pc = "users",
                      !.actor = a, !.owner = u])
    /\ Unwritten

LockTarget(q) ==
    LET u == req[q].owner IN
    /\ At(q, "users", "deactivate")
    /\ LastAdminFree(q) /\ ExclFree(q, {u})
    /\ IF ~Active(u) THEN Reply(q, "already", req[q].id)
       ELSE IF u \in Admins /\ \A a \in Admins \ {u} : ~Active(a) THEN Reply(q, "refused", req[q].id)
       ELSE Becomes(q, [req[q] EXCEPT !.excl = {u}, !.pc = "resolve"])
    /\ Unwritten

\* The target's live bookings that start after t.
Doomed(u, t) == {i \in Ids : Holds(i) /\ booking[i].owner = u /\ booking[i].slot.start > t}

\* The room set, read under the user lock.
ResolveRooms(q) ==
    /\ At(q, "resolve", "deactivate")
    /\ Becomes(q, [req[q] EXCEPT !.need = {booking[i].slot.room : i \in Doomed(req[q].owner, now)},
                          !.pc = "rooms"])
    /\ Unwritten

WriteDeactivate(q) ==
    LET r == req[q]  doomed == Doomed(r.owner, r.at) IN
    /\ At(q, "write", "deactivate")
    /\ \A i \in doomed : RowFree(q, i)
    /\ disabledAt' = [disabledAt EXCEPT ![r.owner] = r.at]
    /\ booking' = [i \in Ids |-> IF i \in doomed
                     THEN [booking[i] EXCEPT !.status = "CANCELLED", !.version = @ + 1]
                     ELSE booking[i]]
    /\ outbox' = Enqueue(UNION {MailTo({r.owner} \cup booking[i].guests, i, "cancelled",
                                       booking[i].version + 1, booking[i].slot) : i \in doomed})
    /\ trail' = [i \in Ids |-> IF i \in doomed THEN Append(trail[i], "cancel") ELSE trail[i]]
    /\ Reply(q, "ok", r.id)
    /\ UNCHANGED <<now, roomOn, sweep>>

----------------------------------------------------------------------------
(* PATCH /admin/rooms/:id with {active} *)

SubmitRoom(q) ==
    /\ Idle(q, "room")
    /\ \E a \in Admins, r \in Rooms :
         /\ Active(a)
         /\ Becomes(q, [NoRequest EXCEPT !.op = "room", !.pc = "rooms",
                      !.actor = a, !.to.room = r])
    /\ Unwritten

\* Bookings already made in the room are left alone.
WriteRoom(q) ==
    /\ At(q, "decide", "room")
    /\ \E on \in BOOLEAN : roomOn' = [roomOn EXCEPT ![req[q].to.room] = on]
    /\ Reply(q, "ok", req[q].id)
    /\ UNCHANGED <<now, booking, disabledAt, outbox, trail, sweep>>

----------------------------------------------------------------------------
(* The lock steps of every booking writer *)

NeedsActiveOwner == {"create", "patch", "attendees"}

\* lockUsersActive.  A disabled owner refuses edits; a cancellation only needs the owner's
\* address, and check-in neither; the demo shift is the owner's alone.
LockUsers(q) ==
    LET r == req[q]  us == {r.actor, r.owner} IN
    /\ r.pc = "users" /\ r.op # "deactivate"
    /\ ShareFree(q, us)
    /\ IF \/ ~Active(r.actor)
          \/ r.op \in NeedsActiveOwner /\ ~Active(r.owner)
          \/ r.op = "demo" /\ r.owner # r.actor
         THEN Reply(q, "refused", r.id)
         ELSE Becomes(q, [req[q] EXCEPT !.pc = "rooms",
                !.share = IF r.op = "cancel" THEN us ELSE {u \in us : Active(u)}])
    /\ Unwritten

NeededRooms(r) == CASE r.op \in {"create", "qr", "room"} -> {r.to.room}
                    [] r.op = "patch"                    -> {r.head.room, r.to.room}
                    [] r.op = "deactivate"               -> r.need
                    [] OTHER                             -> {r.head.room}

LockRooms(q) ==
    /\ req[q].pc = "rooms"
    /\ RoomsFree(q, NeededRooms(req[q]))
    /\ Becomes(q, [req[q] EXCEPT !.rooms = NeededRooms(req[q]), !.pc = "decide"])
    /\ Unwritten

\* decisionTime, for the writers that probe nothing before their guarded write.
DecisionTime(q) ==
    /\ req[q].pc = "decide"
    /\ req[q].op \in {"attendees", "checkin", "cancel", "qr", "deactivate"}
    /\ Becomes(q, [req[q] EXCEPT !.at = now,
                                 !.pc = IF req[q].op = "qr" THEN "select" ELSE "write"])
    /\ Unwritten

FirstStep(op) == CASE op = "create"                          -> "idem"
                   [] op \in {"attendees", "checkin", "demo"} -> "head"
                   [] op = "room"                            -> "rooms"
                   [] OTHER                                  -> "users"

\* withTx: any failure of a statement or of the connection rolls back.  After a deadlock or a
\* serialization failure the transaction is run once more, from its first statement.
Abort(q) ==
    /\ "abort" \in Ops
    /\ req[q].pc \notin {"idle", "validate", "done"}
    /\ \/ Refuse(q, "aborted")
       \/ /\ ~req[q].again
          /\ Becomes(q, [req[q] EXCEPT !.pc = FirstStep(req[q].op), !.again = TRUE,
                 !.rooms = {}, !.share = {}, !.excl = {}, !.row = FALSE,
                 !.need = {}, !.at = 0])
          /\ Unwritten

----------------------------------------------------------------------------
(* The booking.sweep round and the clock *)

\* BEGIN fixes now() for the round.
SweepBegin ==
    /\ "sweep" \in Ops
    /\ ~sweep.on
    /\ sweep' = [on |-> TRUE, at |-> now]
    /\ UNCHANGED <<now, booking, disabledAt, roomOn, outbox, trail, req>>

DueForRelease(t) ==
    {i \in Ids : AutoRelease /\ booking[i].status = "CONFIRMED" /\ Deadline(booking[i].slot) <= t}
\* Deviation: only what nobody checked in to is completed.
EndedUnused(t) == {i \in Ids : booking[i].status = "CONFIRMED" /\ booking[i].slot.end <= t}
Ended(t) == {i \in Ids : Holds(i) /\ booking[i].slot.end <= t}

\* Release, then complete what is left, then remind.  The row locks of API transactions are
\* waited for; no room lock is taken.
SweepRun ==
    LET t == sweep.at
        released  == DueForRelease(t)
        completed == Ended(t) \ released
        reminded  == {i \in Ids \ (released \cup completed) :
                        /\ booking[i].status = "CONFIRMED"
                        /\ booking[i].slot.start > t
                        /\ booking[i].slot.start <= t + ReminderBefore}
        mails(i)  == MailTo({booking[i].owner} \cup booking[i].guests, i, "auto_released",
                            booking[i].version + 1, booking[i].slot) \cup
                     MailTo({a \in Admins : Active(a)}, i, "auto_released_admin",
                            booking[i].version + 1, booking[i].slot)
        remind(i) == MailTo({booking[i].owner}, i, "reminder", booking[i].slot.start,
                            booking[i].slot) IN
    /\ sweep.on
    /\ \A i \in released \cup completed : \A q \in Requests : ~ (req[q].row /\ req[q].id = i)
    /\ booking' = [i \in Ids |->
         CASE i \in released  -> [booking[i] EXCEPT !.status = "AUTO_RELEASED", !.version = @ + 1]
           [] i \in completed -> [booking[i] EXCEPT !.status = "COMPLETED", !.version = @ + 1]
           [] OTHER           -> booking[i]]
    /\ outbox' = Enqueue(UNION ({mails(i) : i \in released} \cup {remind(i) : i \in reminded}))
    /\ trail' = [i \in Ids |-> CASE i \in released  -> Append(trail[i], "auto_release")
                                 [] i \in completed -> Append(trail[i], "complete")
                                 [] OTHER           -> trail[i]]
    /\ sweep' = [on |-> FALSE, at |-> 0]
    /\ UNCHANGED <<now, disabledAt, roomOn, req>>

\* The round fails: its transaction is rolled back and nothing remembers it.
SweepLost ==
    /\ "abort" \in Ops
    /\ sweep.on
    /\ sweep' = [on |-> FALSE, at |-> 0]
    /\ UNCHANGED <<now, booking, disabledAt, roomOn, outbox, trail, req>>

Tick ==
    /\ now < MaxTime
    /\ now' = now + 1
    /\ UNCHANGED <<booking, disabledAt, roomOn, outbox, trail, req, sweep>>

\* Every request answered and the clock at its bound: the instance is over.
Over ==
    /\ now = MaxTime
    /\ \A q \in Requests : req[q].pc = "done"
    /\ UNCHANGED vars

----------------------------------------------------------------------------
Row(s) == [NoRow EXCEPT !.slot = s.slot, !.owner = s.owner, !.creator = s.owner,
                        !.status = "CONFIRMED", !.version = 1, !.guests = s.guests]
Seeded(i) == {s \in Seed : s.id = i}

Init ==
    /\ now = 0
    /\ booking = [i \in Ids |-> IF Seeded(i) = {} THEN NoRow
                                ELSE Row(CHOOSE s \in Seed : s.id = i)]
    /\ disabledAt = [u \in Users |-> Never]
    /\ roomOn = [r \in Rooms |-> TRUE]
    /\ outbox = UNION {MailTo({s.owner} \cup s.guests, s.id, "confirmed", 1, s.slot) : s \in Seed}
    /\ trail = [i \in Ids |-> IF Seeded(i) = {} THEN <<>> ELSE <<"create">>]
    /\ req = [q \in Requests |-> NoRequest]
    /\ sweep = [on |-> FALSE, at |-> 0]

Submit(q) ==
    \/ SubmitCreate(q) \/ SubmitPatch(q) \/ SubmitAttendees(q) \/ SubmitCheckin(q)
    \/ SubmitDemo(q) \/ SubmitCancel(q) \/ SubmitQr(q) \/ SubmitDeactivate(q) \/ SubmitRoom(q)
Prepare(q) ==
    \/ Validate(q) \/ LockKey(q) \/ ReadHead(q) \/ LockUsers(q) \/ LockTarget(q)
    \/ ResolveRooms(q) \/ LockRooms(q)
    \/ DecideCreate(q) \/ DecidePatch(q) \/ DecideDemo(q) \/ DecisionTime(q) \/ SelectQr(q)
Write(q) ==
    \/ WriteCreate(q) \/ WritePatch(q) \/ WriteAttendees(q) \/ WriteCheckin(q) \/ WriteDemo(q)
    \/ WriteCancel(q) \/ WriteQr(q) \/ WriteDeactivate(q) \/ WriteRoom(q)

Next ==
    \/ \E q \in Requests : Submit(q) \/ Prepare(q) \/ Write(q) \/ Abort(q)
    \/ SweepBegin \/ SweepRun \/ SweepLost \/ Tick \/ Over

Spec == Init /\ [][Next]_vars

\* The event loop runs every request to its end, the scheduler begins every round and runs it, and
\* time passes.  A round may fail, but not each of the infinitely many.  Nothing makes a client send
\* a request.
FairSpec ==
    /\ Spec
    /\ WF_vars(Tick) /\ WF_vars(SweepBegin) /\ SF_vars(SweepRun)
    /\ \A q \in Requests : WF_vars(Prepare(q) \/ Write(q))

----------------------------------------------------------------------------
(* Properties of the state *)

\* Two live bookings of a room never overlap, whatever transactions race for the slot: the
\* promise of the probes, the room lock and the exclusion constraint together (service.ts
\* createBooking, updateBooking, shiftBookingToDemoCheckin, checkInByRoom).
NoOverlap ==
    \A i, j \in Ids : i # j /\ Holds(i) /\ Holds(j) => ~Clash(booking[i].slot, booking[j].slot)

\* Live bookings of a room keep the configured gap.  No constraint of the database says so:
\* only assertBufferClear, run while the room's advisory lock is held, does.
BufferKept ==
    \A i, j \in Ids :
       i # j /\ Holds(i) /\ Holds(j) => ~Clash(booking[i].slot, Widen(booking[j].slot))

\* A disabled user holds no booking that was still to start when the account was disabled:
\* the cascade and the writers that race it (a create on behalf, a reschedule) meet at the
\* user row (users/service.ts deactivateUser, service.ts lockUsersActive).
DisabledOwnerHoldsNothing ==
    \A i \in Ids : Holds(i) /\ ~Active(booking[i].owner) =>
        booking[i].slot.start <= disabledAt[booking[i].owner]

\* An actor's Idempotency-Key names at most one booking, cancelled ones included, and a replay
\* answers with that booking (createBooking step 0, findPriorBookingId).
OneBookingPerKey ==
    /\ \A i, j \in Ids :
         /\ i # j /\ booking[i].status # "NONE" /\ booking[j].status # "NONE"
         /\ booking[i].key # NoKey
         => <<booking[i].creator, booking[i].key>> # <<booking[j].creator, booking[j].key>>
    /\ \A q \in Requests : req[q].code \in {"replay", "ok"} /\ req[q].op = "create" =>
         <<booking[req[q].id].creator, booking[req[q].id].key>> = <<req[q].actor, req[q].key>>

CalendarMail == {"confirmed", "rescheduled", "cancelled", "auto_released"}
Newest(i, u) ==
    {m \in outbox : /\ m.id = i /\ m.to = u /\ m.tpl \in CalendarMail
                    /\ \A n \in outbox : n.id = i /\ n.to = u /\ n.tpl \in CalendarMail
                                           => n.key <= m.key}

\* What the newest mail tells person u of booking i is how things stand.
Converged(i, u) ==
    LET b == booking[i]  newest == Newest(i, u) IN
    /\ Holds(i) /\ Involved(b, u) =>
         \E m \in newest : m.tpl \in {"confirmed", "rescheduled"} /\ m.slot = b.slot
    /\ Holds(i) /\ ~Involved(b, u) => \A m \in newest : m.tpl = "cancelled"
    /\ b.status \in {"CANCELLED", "AUTO_RELEASED"} /\ u # b.owner =>
         \A m \in newest : m.tpl \in {"cancelled", "auto_released"}

\* Applied in the order of their versions, the calendar mails of a booking leave every person
\* it concerns with the truth: the window it holds while it is live, nothing for a guest who
\* was taken off, nothing for a guest once it is cancelled or released.  An owner who cancels
\* gets no mail (emails of createBooking, updateBooking, replaceAttendees, cancelBooking,
\* deactivateUser and the sweep).
CalendarsConverge == \A i \in Ids, u \in Users : Converged(i, u)

\* What may follow what in the life of a booking.
Follows == [create |-> "edit", update |-> "edit", reschedule |-> "edit", demo_shift |-> "edit",
            checkin |-> "in", cancel |-> "over", auto_release |-> "over", complete |-> "over"]
MayFollow(a, b) ==
    \/ Follows[a] = "edit" /\ b # "create"
    \/ Follows[a] = "in" /\ b \in {"cancel", "complete"}

\* The history the audit rows tell is a legal life, with one row per version: it starts with
\* create, is edited only until the check-in, is checked in at most once and ends at most once
\* (every writer's status guard, against every other writer and the sweep).
LegalHistory ==
    \A i \in Ids :
       /\ Len(trail[i]) = booking[i].version
       /\ \A n \in 2..Len(trail[i]) : MayFollow(trail[i][n - 1], trail[i][n])

----------------------------------------------------------------------------
(* Properties of the steps *)

Answered(q, op) == req[q].op = op /\ req[q].pc # "done" /\ req'[q].pc = "done"
Committed(q, op) == Answered(q, op) /\ req'[q].code = "ok"

\* No create is answered with an error while a booking of its key stands committed, whatever the
\* clock, the room's state and the account have become meanwhile (routes.ts POST /, "prefer the
\* replay over surfacing a 4xx the original create never saw").  A failing database is the exception.
NoErrorAfterCommit ==
    [][\A q \in Requests :
         Answered(q, "create") /\ req'[q].code \notin {"ok", "replay", "aborted"}
           => Prior(req[q].actor, req[q].key) = {}]_vars

\* A PATCH changes what its body asked for and leaves the rest as the last writer left it,
\* although it writes every column from a head read before its locks (routes.ts PATCH,
\* updateBooking's version guard).
NoLostEdit ==
    [][\A q \in Requests :
         Committed(q, "patch") =>
           LET old == booking[req[q].id].slot  new == booking'[req[q].id].slot IN
           /\ "room" \notin req[q].asked => new.room = old.room
           /\ "time" \notin req[q].asked => new.start = old.start /\ new.end = old.end]_vars

\* A booking never enters a room that is switched off at that moment: the fail-fast read of the
\* route is not what decides (readRoomForShare under the lock, rooms/admin.ts PATCH).
InactiveRoomNeverEntered ==
    [][\A i \in Ids :
         /\ booking'[i].status \in Live
         /\ ~Holds(i) \/ booking'[i].slot.room # booking[i].slot.room
         => roomOn[booking'[i].slot.room]]_vars

Offers == [patch |-> "edit", attendees |-> "edit", cancel |-> "cancel", checkin |-> "checkin"]
\* The page's `can' is honest: a write that commits was offered by the row as it stood at the
\* decision, and one refused for the status or the window was not, although the detail endpoint
\* and the guarded statements write these rules twice.  (A check-in whose method was chosen
\* before its booking's guests changed is judged by the old membership: the last conjunct.)
CanIsHonest ==
    [][\A q \in Requests :
         LET r == req[q]  b == booking[r.id]  offered == Offers[r.op] \in Can(b, r.actor, r.at) IN
         /\ r.op \in DOMAIN Offers /\ Answered(q, r.op) /\ r.pc = "write"
         /\ r.op = "checkin" => (r.method = "SELF") = Involved(b, r.actor)
         => /\ req'[q].code = "ok" => offered
            /\ req'[q].code \in {"INVALID_STATUS_TRANSITION", "already", "refused"} => ~offered]_vars

\* COMPLETED, CANCELLED and AUTO_RELEASED are final (05-data-model.md 5.5).
TerminalIsFinal ==
    [][\A i \in Ids : booking[i].status \in Terminal => booking'[i].status = booking[i].status]_vars

----------------------------------------------------------------------------
(* Liveness *)

\* Every booking is over some day: released, completed or cancelled, even if rounds of the sweep
\* fail or have to wait for the row and even if nobody calls again (jobs/sweep.ts steps 1 and 2).
EventuallyOver == \A i \in Ids : Holds(i) ~> ~Holds(i)

\* Every request that was sent is answered: whoever commits, is refused, fails or starts again gives
\* back the locks another waits for (lib/tx.ts).  A transaction's rooms are one step here, so this
\* says nothing of the order among them.
EveryRequestAnswered == \A q \in Requests : req[q].pc \notin {"idle", "done"} ~> req[q].pc = "done"
=============================================================================
