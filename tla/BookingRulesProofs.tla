-------------------------- MODULE BookingRulesProofs --------------------------
(***************************************************************************)
(* The rules of a booking hold for every value of the constants: one       *)
(* booking per key, no lost edit, a legal history, no booking left to a    *)
(* disabled owner, none put into a room that is off, and calendars that    *)
(* end at the truth.                                                       *)
(*                                                                         *)
(* Two lemmas carry the proofs.  Walk (BookingTxProofs) says what a step   *)
(* makes of the requests; Life says what it makes of one booking, its      *)
(* audit rows and its calendar mails.                                      *)
(***************************************************************************)
EXTENDS BookingRules, BookingTxProofs

----------------------------------------------------------------------------
(* The life of one booking *)

\* The calendar mails of booking i that a step adds are those in K.
Posted(i, K) ==
    \A m \in Mail : m.id = i /\ m.tpl \in CalendarMail => (m \in outbox' <=> m \in outbox \cup K)

Unmailed(i) == Posted(i, {})
Still(i)    == booking'[i] = booking[i] /\ trail'[i] = trail[i] /\ Unmailed(i)
\* One new version, with one audit row, of a booking that was there.
Grown(i, event) ==
    LET b == booking[i]  c == booking'[i] IN
    /\ b.status # "NONE"
    /\ c.version = b.version + 1 /\ trail'[i] = Append(trail[i], event)
    /\ c.owner = b.owner /\ c.creator = b.creator /\ c.key = b.key
Turned(i, from, to) == booking[i].status \in from /\ booking'[i].status = to
SameSlot(i)   == booking'[i].slot = booking[i].slot
SameGuests(i) == booking'[i].guests = booking[i].guests
People(i)     == {booking[i].owner} \cup booking[i].guests

Born(q, i) ==
    LET r == req[q]  c == booking'[i] IN
    /\ At(q, "write", "create") /\ Prior(r.actor, r.key) = {}
    /\ i = FreeId /\ booking[i].status = "NONE"
    /\ c.status = "CONFIRMED" /\ c.version = 1 /\ c.slot = r.to /\ c.guests = r.guests
    /\ c.owner = r.owner /\ c.creator = r.actor /\ c.key = r.key
    /\ trail'[i] = Append(trail[i], "create")
    /\ Posted(i, MailTo({r.owner} \cup r.guests, i, "confirmed", 1, r.to))
    /\ req'[q].pc = "done" /\ req'[q].id = i
RescheduledTo(q, i) ==
    /\ At(q, "write", "patch") /\ req[q].id = i /\ booking'[i].slot = req[q].to
    /\ Grown(i, "reschedule") /\ Turned(i, {"CONFIRMED"}, "CONFIRMED") /\ SameGuests(i)
    /\ Posted(i, MailTo(People(i), i, "rescheduled", booking[i].version + 1, booking'[i].slot))
Shifted(q, i) ==
    /\ At(q, "write", "demo") /\ req[q].id = i /\ booking'[i].slot = req[q].to
    /\ Grown(i, "demo_shift") /\ Turned(i, {"CONFIRMED"}, "CONFIRMED") /\ SameGuests(i)
    /\ Unmailed(i)
Updated(i) ==
    /\ Grown(i, "update") /\ Turned(i, {"CONFIRMED"}, "CONFIRMED") /\ SameSlot(i) /\ SameGuests(i)
    /\ Unmailed(i)
Invited(q, i) ==
    LET old == booking[i].guests  new == booking'[i].guests  v == booking[i].version + 1 IN
    /\ At(q, "write", "attendees")
    /\ Grown(i, "update") /\ Turned(i, {"CONFIRMED"}, "CONFIRMED") /\ SameSlot(i)
    /\ Posted(i, MailTo(new \ old, i, "confirmed", v, booking[i].slot) \cup
                 MailTo(old \ new, i, "cancelled", v, booking[i].slot))
CheckedIn(i) ==
    /\ Grown(i, "checkin") /\ Turned(i, {"CONFIRMED"}, "CHECKED_IN")
    /\ SameSlot(i) /\ SameGuests(i) /\ Unmailed(i)
Scanned(q, i) ==
    /\ At(q, "write", "qr")
    /\ Grown(i, "checkin") /\ booking'[i].status = "CHECKED_IN"
    /\ SameSlot(i) /\ SameGuests(i) /\ Unmailed(i)
Cancelled(i) ==
    /\ Grown(i, "cancel") /\ Turned(i, Live, "CANCELLED") /\ SameSlot(i) /\ SameGuests(i)
    /\ \E us \in SUBSET Users, s \in Slot :
         /\ booking[i].guests \subseteq us
         /\ Posted(i, MailTo(us, i, "cancelled", booking[i].version + 1, s))
Released(i) ==
    /\ Grown(i, "auto_release") /\ Turned(i, {"CONFIRMED"}, "AUTO_RELEASED")
    /\ SameSlot(i) /\ SameGuests(i)
    /\ Posted(i, MailTo(People(i), i, "auto_released", booking[i].version + 1, booking[i].slot))
Completed(i) ==
    /\ Grown(i, "complete") /\ Turned(i, Live, "COMPLETED") /\ SameSlot(i) /\ SameGuests(i)
    /\ Unmailed(i)

Lives(i) ==
    \/ Still(i) \/ Updated(i) \/ CheckedIn(i) \/ Cancelled(i) \/ Released(i) \/ Completed(i)
    \/ \E q \in Requests : \/ Born(q, i) \/ RescheduledTo(q, i) \/ Shifted(q, i)
                           \/ Invited(q, i) \/ Scanned(q, i)

LEMMA MailToIs ==
  ASSUME NEW us, NEW i, NEW tpl, NEW key, NEW s, NEW m
  PROVE  m \in MailTo(us, i, tpl, key, s) <=>
           \E u \in us : m = [id |-> i, tpl |-> tpl, key |-> key, to |-> u, slot |-> s]
  BY DEF MailTo

LEMMA MailToFields ==
  ASSUME NEW us, NEW i, NEW tpl, NEW key, NEW s, NEW m \in MailTo(us, i, tpl, key, s)
  PROVE  m.id = i /\ m.tpl = tpl /\ m.key = key /\ m.to \in us /\ m.slot = s
  BY DEF MailTo

\* Mail of a version that is new is not lost to the dedupe key.
LEMMA EnqueuePosts ==
  ASSUME TypeOK, MailsDated, NEW i \in Ids, NEW mails, NEW K,
         outbox' = Enqueue(mails),
         \A m \in Mail : m.id = i /\ m.tpl \in CalendarMail => (m \in mails <=> m \in K),
         booking[i].status = "NONE" \/ \A m \in K : m.key = booking[i].version + 1
  PROVE  Posted(i, K)
  <1> SUFFICES ASSUME NEW m \in Mail, m.id = i, m.tpl \in CalendarMail, m \in K
               PROVE  m \in Enqueue(mails)
    BY DEF Posted, Enqueue
  <1>1. ASSUME NEW n \in outbox, <<n.id, n.tpl, n.to, n.key>> = <<m.id, m.tpl, m.to, m.key>>
        PROVE  FALSE
    <2>1. n.id = i /\ n.tpl \in CalendarMail /\ n.key = m.key
      BY <1>1
    <2>2. booking[i].status # "NONE" /\ n.key <= booking[i].version
      BY <2>1 DEF MailsDated
    <2>3. booking[i].version \in Nat /\ n.key = booking[i].version + 1
      BY <2>1, <2>2, RowType
    <2> QED BY <2>2, <2>3
  <1> QED BY <1>1 DEF Enqueue

LEMMA NothingPosted == ASSUME NEW i, UNCHANGED outbox PROVE Unmailed(i)
  BY DEF Unmailed, Posted

LEMMA OthersStill ==
  ASSUME TypeOK, MailsDated, NEW i \in Ids, NEW j \in Ids \ {i}, NEW row, NEW event, NEW mails,
         booking' = [booking EXCEPT ![i] = row], trail' = Audit(i, event),
         outbox' = Enqueue(mails), \A m \in mails : m.id = i
  PROVE  Still(j)
  <1>1. booking'[j] = booking[j] /\ trail'[j] = trail[j]
    BY DEF TypeOK, Audit
  <1>2. Posted(j, {})
    <2>1. \A m \in Mail : m.id = j /\ m.tpl \in CalendarMail => (m \in mails <=> m \in {})
      OBVIOUS
    <2> QED BY <2>1, EnqueuePosts
  <1> QED BY <1>1, <1>2 DEF Still, Unmailed

LEMMA OthersQuiet ==
  ASSUME TypeOK, NEW i \in Ids, NEW j \in Ids, i # j, NEW row, NEW event,
         booking' = [booking EXCEPT ![i] = row], trail' = Audit(i, event), UNCHANGED outbox
  PROVE  Still(j)
  BY NothingPosted DEF TypeOK, Audit, Still

LEMMA TableQuiet ==
  ASSUME NEW q \in Requests, Submit(q) \/ Prepare(q) \/ Abort(q)
  PROVE  UNCHANGED <<booking, outbox, trail, disabledAt, roomOn>>
  <1>1. CASE Submit(q)
    BY <1>1 DEF Submit, SubmitCreate, SubmitPatch, SubmitAttendees, SubmitCheckin, SubmitDemo,
                SubmitCancel, SubmitQr, SubmitDeactivate, SubmitRoom, Unwritten
  <1>2. CASE Prepare(q)
    BY <1>2 DEF Prepare, Validate, LockKey, ReadHead, LockUsers, LockTarget, ResolveRooms,
                LockRooms, DecideCreate, DecidePatch, DecideDemo, DecisionTime, SelectQr,
                Unwritten, Refuse
  <1>3. CASE Abort(q)
    BY <1>3 DEF Abort, Refuse, Unwritten
  <1> QED BY <1>1, <1>2, <1>3

LEMMA RowGrows ==
  ASSUME TypeOK, NEW i \in Ids, NEW row, NEW event,
         booking' = [booking EXCEPT ![i] = row], trail' = Audit(i, event),
         booking[i].status # "NONE", row.version = booking[i].version + 1,
         row.owner = booking[i].owner, row.creator = booking[i].creator, row.key = booking[i].key
  PROVE  booking'[i] = row /\ Grown(i, event)
  <1>1. booking'[i] = row /\ trail'[i] = Append(trail[i], event)
    BY DEF TypeOK, Audit
  <1> QED BY <1>1 DEF Grown

LEMMA NoMail == Enqueue({}) = outbox
  BY DEF Enqueue

LEMMA TableStill ==
  ASSUME UNCHANGED table, NEW j PROVE Still(j)
  BY NothingPosted DEF table, Still

LEMMA CreateLives ==
  ASSUME TypeOK, MailsDated, NEW q \in Requests, WriteCreate(q), NEW j \in Ids
  PROVE  Still(j) \/ Born(q, j)
  <1> DEFINE r == req[q]
             i == FreeId
             row == [slot |-> r.to, owner |-> r.owner, creator |-> r.actor, key |-> r.key,
                     status |-> "CONFIRMED", version |-> 1, guests |-> r.guests,
                     confirmedAt |-> r.at, method |-> "-", by |-> AnyUser]
             mails == MailTo({r.owner} \cup r.guests, i, "confirmed", 1, r.to)
  <1>1. At(q, "write", "create")
    BY DEF WriteCreate
  <1>2. CASE UNCHANGED table
    BY <1>2, TableStill
  <1>3. CASE /\ Prior(r.actor, r.key) = {}
             /\ i \in Ids /\ booking[i].status = "NONE"
             /\ booking' = [booking EXCEPT ![i] = row]
             /\ outbox' = Enqueue(mails)
             /\ trail' = Audit(i, "create")
             /\ Reply(q, "ok", i)
    <2>1. \A m \in mails : m.id = i
      BY MailToFields
    <2>2. /\ row.slot = r.to /\ row.owner = r.owner /\ row.creator = r.actor /\ row.key = r.key
          /\ row.status = "CONFIRMED" /\ row.version = 1 /\ row.guests = r.guests
      OBVIOUS
    <2>3. req'[q].pc = "done" /\ req'[q].id = i
      <3>1. r.pc \notin {"idle", "done"}
        BY <1>1 DEF At
      <3> QED BY <1>3, <3>1, ReplyAnswers DEF Answers
    <2>4. Posted(i, mails)
      BY <1>3, EnqueuePosts
    <2> HIDE DEF i, row
    <2>5. booking' = [booking EXCEPT ![i] = row] /\ i \in Ids
      BY <1>3
    <2>6. booking'[i] = row /\ trail'[i] = Append(trail[i], "create")
      BY <1>3, <2>5 DEF TypeOK, Audit
    <2>7. CASE j = i
      BY <1>1, <1>3, <2>2, <2>3, <2>4, <2>6, <2>7 DEF Born, i
    <2>8. CASE j # i
      BY <1>3, <2>1, <2>5, <2>8, OthersStill
    <2> QED BY <2>7, <2>8
  <1> QED BY <1>2, <1>3 DEF WriteCreate

LEMMA PatchLives ==
  ASSUME TypeOK, GapInvariant, MailsDated, NEW q \in Requests, WritePatch(q), NEW j \in Ids
  PROVE  Still(j) \/ Updated(j) \/ RescheduledTo(q, j)
  <1> DEFINE r == req[q]
             b == booking[r.id]
             row == [b EXCEPT !.slot = r.to, !.version = @ + 1,
                              !.confirmedAt = IF Moved(r) THEN r.at ELSE @]
             event == IF Moved(r) THEN "reschedule" ELSE "update"
             mails == IF Moved(r)
                        THEN MailTo({b.owner} \cup b.guests, r.id, "rescheduled",
                                    b.version + 1, r.to)
                        ELSE {}
  <1>1. /\ At(q, "write", "patch") /\ r.op = "patch" /\ r.pc = "write"
        /\ r.id \in Ids /\ b \in Booking
    BY RequestType, RowType DEF WritePatch, At
  <1>2. CASE UNCHANGED table
    BY <1>2, TableStill
  <1>3. CASE /\ VersionMatches(q) /\ Editable(b, r.actor, r.at)
             /\ booking' = [booking EXCEPT ![r.id] = row]
             /\ outbox' = Enqueue(mails)
             /\ trail' = Audit(r.id, event)
    <2>1. /\ row.slot = r.to /\ row.status = b.status /\ row.version = b.version + 1
          /\ row.owner = b.owner /\ row.creator = b.creator /\ row.key = b.key
          /\ row.guests = b.guests
      BY <1>1 DEF Booking
    <2>2. b.status = "CONFIRMED" /\ r.head = b.slot
      BY <1>1, <1>3, FitsNow DEF Editable, Fits, FreshIn, VersionMatches
    <2>3. \A m \in mails : m.id = r.id /\ m.key = b.version + 1
      BY MailToFields
    <2> HIDE DEF row, event
    <2>4. booking'[r.id] = row /\ Grown(r.id, event)
      BY <1>1, <1>3, <2>1, <2>2, RowGrows
    <2>5. Turned(r.id, {"CONFIRMED"}, "CONFIRMED") /\ SameGuests(r.id)
      BY <2>1, <2>2, <2>4 DEF Turned, SameGuests
    <2>6. Posted(r.id, mails)
      <3> HIDE DEF mails
      <3> QED BY <1>1, <1>3, <2>3, EnqueuePosts
    <2>7. CASE j = r.id /\ Moved(r)
      <3>1. mails = MailTo(People(r.id), r.id, "rescheduled", b.version + 1, booking'[r.id].slot)
        BY <2>1, <2>4, <2>7 DEF People
      <3> QED BY <1>1, <2>1, <2>4, <2>5, <2>6, <2>7, <3>1 DEF RescheduledTo, event
    <2>8. CASE j = r.id /\ ~Moved(r)
      <3>1. SameSlot(r.id)
        BY <2>1, <2>2, <2>4, <2>8 DEF SameSlot, Moved
      <3> QED BY <2>4, <2>5, <2>6, <2>8, <3>1 DEF Updated, Unmailed, event
    <2>9. CASE j # r.id
      <3> HIDE DEF mails
      <3> QED BY <1>1, <1>3, <2>3, <2>9, OthersStill
    <2> QED BY <2>7, <2>8, <2>9
  <1>4. ASSUME VersionMatches(q), Editable(b, r.actor, r.at), ~UNCHANGED table
        PROVE  /\ booking' = [booking EXCEPT ![r.id] = row]
               /\ outbox' = Enqueue(mails)
               /\ trail' = Audit(r.id, event)
    <2>1. CASE Moved(r)
      BY <1>4, <2>1 DEF WritePatch
    <2>2. CASE ~Moved(r)
      <3>1. outbox' = outbox /\ mails = {}
        BY <1>4, <2>2 DEF WritePatch
      <3> QED BY <1>4, <2>2, <3>1, NoMail DEF WritePatch
    <2> QED BY <2>1, <2>2
  <1>5. CASE ~UNCHANGED table
    <2>1. VersionMatches(q) /\ Editable(b, r.actor, r.at)
      BY <1>5 DEF WritePatch
    <2> QED BY <1>3, <1>4, <1>5, <2>1
  <1> QED BY <1>2, <1>5

LEMMA DemoLives ==
  ASSUME TypeOK, GapInvariant, MailsDated, NEW q \in Requests, WriteDemo(q), NEW j \in Ids
  PROVE  Still(j) \/ Shifted(q, j)
  <1> DEFINE r == req[q]
             b == booking[r.id]
             row == [b EXCEPT !.slot = r.to, !.version = @ + 1, !.confirmedAt = r.at]
  <1>1. /\ At(q, "write", "demo") /\ r.op = "demo" /\ r.pc = "write"
        /\ r.id \in Ids /\ b \in Booking
    BY RequestType, RowType DEF WriteDemo, At
  <1>2. CASE UNCHANGED table
    BY <1>2, TableStill
  <1>3. CASE /\ booking' = [booking EXCEPT ![r.id] = row] /\ UNCHANGED outbox
             /\ trail' = Audit(r.id, "demo_shift")
    <2>1. /\ row.slot = r.to /\ row.status = b.status /\ row.version = b.version + 1
          /\ row.owner = b.owner /\ row.creator = b.creator /\ row.key = b.key
          /\ row.guests = b.guests
      BY <1>1 DEF Booking
    <2>2. b.status = "CONFIRMED"
      BY <1>1, FitsNow DEF Fits, ProbedIn
    <2> HIDE DEF row
    <2>3. booking'[r.id] = row /\ Grown(r.id, "demo_shift")
      BY <1>1, <1>3, <2>1, <2>2, RowGrows
    <2>5. CASE j = r.id
      BY <1>1, <1>3, <2>1, <2>2, <2>3, <2>5, NothingPosted DEF Shifted, Turned, SameGuests
    <2>6. CASE j # r.id
      BY <1>1, <1>3, <2>6, OthersQuiet
    <2> QED BY <2>5, <2>6
  <1> QED BY <1>2, <1>3 DEF WriteDemo

LEMMA AttendeesLives ==
  ASSUME TypeOK, GuestHeadsFresh, MailsDated, NEW q \in Requests, WriteAttendees(q), NEW j \in Ids
  PROVE  Still(j) \/ Invited(q, j)
  <1> DEFINE r == req[q]
             b == booking[r.id]
             row == [b EXCEPT !.guests = r.guests, !.version = @ + 1]
             mails == MailTo(r.guests \ b.guests, r.id, "confirmed", b.version + 1, r.head) \cup
                      MailTo(b.guests \ r.guests, r.id, "cancelled", b.version + 1, r.head)
  <1>1. /\ At(q, "write", "attendees") /\ r.op = "attendees" /\ r.pc = "write"
        /\ r.id \in Ids /\ b \in Booking
    BY RequestType, RowType DEF WriteAttendees, At
  <1>2. CASE UNCHANGED table
    BY <1>2, TableStill
  <1>3. CASE /\ VersionMatches(q) /\ Editable(b, r.actor, r.at)
             /\ booking' = [booking EXCEPT ![r.id] = row]
             /\ outbox' = Enqueue(mails)
             /\ trail' = Audit(r.id, "update")
    <2>1. /\ row.slot = b.slot /\ row.status = b.status /\ row.version = b.version + 1
          /\ row.owner = b.owner /\ row.creator = b.creator /\ row.key = b.key
          /\ row.guests = r.guests
      BY <1>1 DEF Booking
    <2>2. b.status = "CONFIRMED" /\ r.head = b.slot
      BY <1>1, <1>3 DEF Editable, GuestHeadsFresh, VersionMatches
    <2>3. \A m \in mails : m.id = r.id /\ m.key = b.version + 1
      BY MailToFields
    <2> HIDE DEF row
    <2>4. booking'[r.id] = row /\ Grown(r.id, "update")
      BY <1>1, <1>3, <2>1, <2>2, RowGrows
    <2>5. Turned(r.id, {"CONFIRMED"}, "CONFIRMED") /\ SameSlot(r.id)
      BY <2>1, <2>2, <2>4 DEF Turned, SameSlot
    <2>6. Posted(r.id, mails)
      <3> HIDE DEF mails
      <3> QED BY <1>1, <1>3, <2>3, EnqueuePosts
    <2>7. CASE j = r.id
      BY <1>1, <2>1, <2>2, <2>4, <2>5, <2>6, <2>7 DEF Invited
    <2>8. CASE j # r.id
      <3> HIDE DEF mails
      <3> QED BY <1>1, <1>3, <2>3, <2>8, OthersStill
    <2> QED BY <2>7, <2>8
  <1> QED BY <1>2, <1>3 DEF WriteAttendees

LEMMA CheckinLives ==
  ASSUME TypeOK, MailsDated, NEW q \in Requests, WriteCheckin(q), NEW j \in Ids
  PROVE  Still(j) \/ CheckedIn(j)
  <1> DEFINE r == req[q]
             b == booking[r.id]
             row == [b EXCEPT !.status = "CHECKED_IN", !.version = @ + 1,
                              !.method = r.method, !.by = r.actor]
  <1>1. r.id \in Ids /\ b \in Booking /\ "CONFIRMED" # "NONE"
    BY RequestType, RowType
  <1>2. CASE UNCHANGED table
    BY <1>2, TableStill
  <1>3. CASE /\ b.status = "CONFIRMED"
             /\ booking' = [booking EXCEPT ![r.id] = row] /\ UNCHANGED outbox
             /\ trail' = Audit(r.id, "checkin")
    <2>1. /\ row.slot = b.slot /\ row.status = "CHECKED_IN" /\ row.version = b.version + 1
          /\ row.owner = b.owner /\ row.creator = b.creator /\ row.key = b.key
          /\ row.guests = b.guests
      BY <1>1 DEF Booking
    <2> HIDE DEF row
    <2>3. booking'[r.id] = row /\ Grown(r.id, "checkin")
      BY <1>1, <1>3, <2>1, RowGrows
    <2>5. CASE j = r.id
      BY <1>3, <2>1, <2>3, <2>5, NothingPosted DEF CheckedIn, Turned, SameSlot, SameGuests
    <2>6. CASE j # r.id
      BY <1>1, <1>3, <2>6, OthersQuiet
    <2> QED BY <2>5, <2>6
  <1> QED BY <1>2, <1>3 DEF WriteCheckin, CheckIn

LEMMA QrLives ==
  ASSUME TypeOK, GapInvariant, MailsDated, NEW q \in Requests, WriteQr(q), NEW j \in Ids
  PROVE  Still(j) \/ Scanned(q, j)
  <1> DEFINE r == req[q]
             b == booking[r.id]
             row == [b EXCEPT !.status = "CHECKED_IN", !.version = @ + 1,
                              !.method = "QR", !.by = r.actor]
  <1>1. /\ r.id \in Ids /\ b \in Booking /\ b.status # "NONE"
        /\ At(q, "write", "qr")
    BY RequestType, RowType, FitsNow DEF WriteQr, At, Fits, ProbedIn
  <1>2. CASE UNCHANGED table
    BY <1>2, TableStill
  <1>3. CASE /\ booking' = [booking EXCEPT ![r.id] = row] /\ UNCHANGED outbox
             /\ trail' = Audit(r.id, "checkin")
    <2>1. /\ row.slot = b.slot /\ row.status = "CHECKED_IN" /\ row.version = b.version + 1
          /\ row.owner = b.owner /\ row.creator = b.creator /\ row.key = b.key
          /\ row.guests = b.guests
      BY <1>1 DEF Booking
    <2> HIDE DEF row
    <2>3. booking'[r.id] = row /\ Grown(r.id, "checkin")
      BY <1>1, <1>3, <2>1, RowGrows
    <2>5. CASE j = r.id
      BY <1>1, <2>1, <2>3, <1>3, <2>5, NothingPosted DEF Scanned, SameSlot, SameGuests
    <2>6. CASE j # r.id
      BY <1>1, <1>3, <2>6, OthersQuiet
    <2> QED BY <2>5, <2>6
  <1> QED BY <1>2, <1>3 DEF WriteQr, CheckIn

LEMMA CancelLives ==
  ASSUME TypeOK, MailsDated, NEW q \in Requests, WriteCancel(q), NEW j \in Ids
  PROVE  Still(j) \/ Cancelled(j)
  <1> DEFINE r == req[q]
             b == booking[r.id]
             row == [b EXCEPT !.status = "CANCELLED", !.version = @ + 1]
             us == IF r.owner = r.actor THEN b.guests ELSE {r.owner} \cup b.guests
             mails == MailTo(us, r.id, "cancelled", b.version + 1, r.head)
  <1>1. /\ r.id \in Ids /\ b \in Booking /\ r.owner \in Users /\ r.head \in Slot
        /\ b.guests \in SUBSET Users
    BY RequestType, RowType DEF Request
  <1>2. CASE UNCHANGED table
    BY <1>2, TableStill
  <1>3. CASE /\ Cancellable(b, r.actor, r.at)
             /\ booking' = [booking EXCEPT ![r.id] = row]
             /\ outbox' = Enqueue(mails)
             /\ trail' = Audit(r.id, "cancel")
    <2>1. /\ row.slot = b.slot /\ row.status = "CANCELLED" /\ row.version = b.version + 1
          /\ row.owner = b.owner /\ row.creator = b.creator /\ row.key = b.key
          /\ row.guests = b.guests
      BY <1>1 DEF Booking
    <2>2. b.status \in Live /\ b.status # "NONE"
      BY <1>3 DEF Cancellable, Live
    <2>3. \A m \in mails : m.id = r.id /\ m.key = b.version + 1
      BY MailToFields
    <2> HIDE DEF row
    <2>4. booking'[r.id] = row /\ Grown(r.id, "cancel")
      BY <1>1, <1>3, <2>1, <2>2, RowGrows
    <2>5. Turned(r.id, Live, "CANCELLED") /\ SameSlot(r.id) /\ SameGuests(r.id)
      BY <2>1, <2>2, <2>4 DEF Turned, SameSlot, SameGuests
    <2>6. Posted(r.id, mails)
      <3> HIDE DEF mails
      <3> QED BY <1>1, <1>3, <2>3, EnqueuePosts
    <2>7. us \in SUBSET Users /\ b.guests \subseteq us
      BY <1>1
    <2> HIDE DEF us
    <2>8. CASE j = r.id
      BY <1>1, <2>4, <2>5, <2>6, <2>7, <2>8 DEF Cancelled
    <2>9. CASE j # r.id
      <3> HIDE DEF mails
      <3> QED BY <1>1, <1>3, <2>3, <2>9, OthersStill
    <2> QED BY <2>8, <2>9
  <1> QED BY <1>2, <1>3 DEF WriteCancel

LEMMA DeactivateLives ==
  ASSUME TypeOK, MailsDated, NEW q \in Requests, WriteDeactivate(q), NEW j \in Ids
  PROVE  Still(j) \/ Cancelled(j)
  <1> DEFINE r == req[q]
             doomed == Doomed(r.owner, r.at)
             to(i) == MailTo({r.owner} \cup booking[i].guests, i, "cancelled",
                             booking[i].version + 1, booking[i].slot)
             mails == UNION {to(i) : i \in doomed}
  <1>1. /\ booking'[j] = IF j \in doomed
                           THEN [booking[j] EXCEPT !.status = "CANCELLED", !.version = @ + 1]
                           ELSE booking[j]
        /\ trail'[j] = IF j \in doomed THEN Append(trail[j], "cancel") ELSE trail[j]
        /\ outbox' = Enqueue(mails)
    BY DEF WriteDeactivate
  <1>2. /\ booking[j] \in Booking /\ booking[j].guests \in SUBSET Users /\ booking[j].slot \in Slot
        /\ r.owner \in Users
    BY RowType, RequestType DEF Request
  <1>3. \A m : m \in mails <=> \E i \in doomed : m \in to(i)
    OBVIOUS
  <1>4. \A i \in doomed : \A m \in to(i) : m.id = i
    BY MailToFields
  <1>5. CASE j \in doomed
    <2>1. booking[j].status \in Live /\ booking[j].status # "NONE"
      BY <1>5 DEF Doomed, Holds, Live
    <2>2. \A m \in to(j) : m.key = booking[j].version + 1
      BY MailToFields
    <2>3. \A m : m.id = j => (m \in mails <=> m \in to(j))
      BY <1>3, <1>4, <1>5
    <2> DEFINE row == [booking[j] EXCEPT !.status = "CANCELLED", !.version = @ + 1]
               b == booking[j]
    <2>4. /\ row.slot = b.slot /\ row.status = "CANCELLED" /\ row.version = b.version + 1
          /\ row.owner = b.owner /\ row.creator = b.creator /\ row.key = b.key
          /\ row.guests = b.guests
      BY <1>2 DEF Booking
    <2>5. booking'[j] = row
      BY <1>1, <1>5
    <2> HIDE DEF row, mails, doomed
    <2>6. Grown(j, "cancel") /\ Turned(j, Live, "CANCELLED") /\ SameSlot(j) /\ SameGuests(j)
      BY <1>1, <1>5, <2>1, <2>4, <2>5 DEF Grown, Turned, SameSlot, SameGuests
    <2> HIDE DEF to
    <2>7. Posted(j, to(j))
      BY <1>1, <2>2, <2>3, EnqueuePosts
    <2> QED BY <1>2, <2>6, <2>7 DEF Cancelled, to
  <1>6. CASE j \notin doomed
    <2>1. \A m : m.id = j => m \notin mails
      BY <1>3, <1>4, <1>6
    <2> HIDE DEF mails, doomed
    <2>2. Posted(j, {})
      BY <1>1, <2>1, EnqueuePosts
    <2> QED BY <1>1, <1>6, <2>2 DEF Still, Unmailed
  <1> QED BY <1>5, <1>6

LEMMA SweepLives ==
  ASSUME TypeOK, MailsDated, SweepRun, NEW j \in Ids
  PROVE  Still(j) \/ Released(j) \/ Completed(j)
  <1> DEFINE t == sweep.at
             released  == DueForRelease(t)
             completed == Ended(t) \ released
             reminded  == {i \in Ids \ (released \cup completed) :
                             /\ booking[i].status = "CONFIRMED"
                             /\ booking[i].slot.start > t
                             /\ booking[i].slot.start <= t + ReminderBefore}
             told(i)   == MailTo({booking[i].owner} \cup booking[i].guests, i, "auto_released",
                                 booking[i].version + 1, booking[i].slot)
             mails(i)  == told(i) \cup
                          MailTo({a \in Admins : Active(a)}, i, "auto_released_admin",
                                 booking[i].version + 1, booking[i].slot)
             remind(i) == MailTo({booking[i].owner}, i, "reminder", booking[i].slot.start,
                                 booking[i].slot)
             all == UNION ({mails(i) : i \in released} \cup {remind(i) : i \in reminded})
  <1>1. /\ booking'[j] =
             CASE j \in released  -> [booking[j] EXCEPT !.status = "AUTO_RELEASED", !.version = @ + 1]
               [] j \in completed -> [booking[j] EXCEPT !.status = "COMPLETED", !.version = @ + 1]
               [] OTHER           -> booking[j]
        /\ trail'[j] = CASE j \in released  -> Append(trail[j], "auto_release")
                         [] j \in completed -> Append(trail[j], "complete")
                         [] OTHER           -> trail[j]
        /\ outbox' = Enqueue(all)
    BY DEF SweepRun
  <1>2. booking[j] \in Booking
    BY RowType
  <1>3. \A m : m \in all <=> \/ \E i \in released : m \in mails(i)
                             \/ \E i \in reminded : m \in remind(i)
    OBVIOUS
  <1>4. /\ \A i \in released : \A m \in mails(i) : m.id = i
        /\ \A i \in reminded : \A m \in remind(i) : m.id = i /\ m.tpl = "reminder"
        /\ \A i \in released : \A m \in mails(i) : m \notin told(i) => m.tpl = "auto_released_admin"
    BY MailToFields
  <1>5. "reminder" \notin CalendarMail /\ "auto_released_admin" \notin CalendarMail
    BY DEF CalendarMail
  <1>6. CASE j \in released
    <2>1. booking[j].status = "CONFIRMED"
      BY <1>6 DEF DueForRelease
    <2>2. \A m \in told(j) : m.key = booking[j].version + 1
      BY MailToFields
    <2>3. told(j) \subseteq mails(j)
      OBVIOUS
    <2> DEFINE row == [booking[j] EXCEPT !.status = "AUTO_RELEASED", !.version = @ + 1]
               b == booking[j]
    <2>4. /\ row.slot = b.slot /\ row.status = "AUTO_RELEASED" /\ row.version = b.version + 1
          /\ row.owner = b.owner /\ row.creator = b.creator /\ row.key = b.key
          /\ row.guests = b.guests
      BY <1>2 DEF Booking
    <2>5. booking'[j] = row /\ trail'[j] = Append(trail[j], "auto_release")
      BY <1>1, <1>6
    <2> HIDE DEF row, all, released, completed, reminded, mails, remind
    <2>6. ASSUME NEW m, m.id = j, m.tpl \in CalendarMail
          PROVE  m \in all <=> m \in told(j)
      <3>1. m \in told(j) => m \in all
        BY <1>3, <1>6, <2>3
      <3>2. ASSUME m \in all PROVE m \in told(j)
        <4>1. ~ \E i \in reminded : m \in remind(i)
          BY <1>4, <1>5, <2>6
        <4>2. PICK i \in released : m \in mails(i)
          BY <1>3, <3>2, <4>1
        <4> QED BY <1>4, <1>5, <2>6, <4>2
      <3> QED BY <3>1, <3>2
    <2>7. /\ Grown(j, "auto_release") /\ Turned(j, {"CONFIRMED"}, "AUTO_RELEASED")
          /\ SameSlot(j) /\ SameGuests(j)
      BY <2>1, <2>4, <2>5 DEF Grown, Turned, SameSlot, SameGuests
    <2> HIDE DEF told
    <2>8. Posted(j, told(j))
      BY <1>1, <2>2, <2>6, EnqueuePosts
    <2> QED BY <2>7, <2>8 DEF Released, told, People
  <1>7. CASE j \notin released
    <2> HIDE DEF all, released, completed, reminded, mails, remind, told
    <2>1. \A m : m.id = j /\ m.tpl \in CalendarMail => m \notin all
      BY <1>3, <1>4, <1>5, <1>7
    <2>2. Unmailed(j)
      BY <1>1, <2>1, EnqueuePosts DEF Unmailed
    <2>3. CASE j \in completed
      <3>1. booking[j].status \in Live /\ booking[j].status # "NONE"
        BY <2>3 DEF completed, Ended, Holds, Live
      <3> DEFINE row == [booking[j] EXCEPT !.status = "COMPLETED", !.version = @ + 1]
                 b == booking[j]
      <3>2. /\ row.slot = b.slot /\ row.status = "COMPLETED" /\ row.version = b.version + 1
            /\ row.owner = b.owner /\ row.creator = b.creator /\ row.key = b.key
            /\ row.guests = b.guests
        BY <1>2 DEF Booking
      <3>3. booking'[j] = row /\ trail'[j] = Append(trail[j], "complete")
        BY <1>1, <1>7, <2>3
      <3> HIDE DEF row
      <3> QED BY <2>2, <3>1, <3>2, <3>3 DEF Completed, Grown, Turned, SameSlot, SameGuests
    <2>4. CASE j \notin completed
      BY <1>1, <1>7, <2>2, <2>4 DEF Still
    <2> QED BY <2>3, <2>4
  <1> QED BY <1>6, <1>7

\* What any step makes of any booking.
LEMMA Life ==
  ASSUME TypeOK, GapInvariant, MailsDated, GuestHeadsFresh, [Next]_vars, NEW i \in Ids
  PROVE  Lives(i)
  <1>1. ASSUME NEW q \in Requests, Submit(q) \/ Prepare(q) \/ Abort(q) PROVE Lives(i)
    <2>1. UNCHANGED table
      BY <1>1, TableQuiet DEF table
    <2> QED BY <2>1, TableStill DEF Lives
  <1>2. ASSUME NEW q \in Requests, Write(q) PROVE Lives(i)
    <2>1. CASE WriteRoom(q)
      BY <2>1, TableStill DEF WriteRoom, table, Lives
    <2> QED BY <1>2, <2>1, CreateLives, PatchLives, AttendeesLives, CheckinLives, DemoLives,
               CancelLives, QrLives, DeactivateLives DEF Write, Lives
  <1>3. CASE SweepRun
    BY <1>3, SweepLives DEF Lives
  <1>4. CASE SweepBegin \/ SweepLost \/ Tick \/ Over \/ UNCHANGED vars
    BY <1>4, TableStill DEF SweepBegin, SweepLost, Tick, Over, vars, table, Lives
  <1> QED BY <1>1, <1>2, <1>3, <1>4 DEF Next


----------------------------------------------------------------------------
(* What the requests know and hold *)

LEMMA Moves ==
  ASSUME TypeOK, [Next]_vars
  PROVE  \/ UNCHANGED req
         \/ \E q \in Requests :
              /\ \A p \in Others(q) : req'[p] = req[p]
              /\ \/ Sends(req[q], req'[q]) \/ Advances(q, req'[q])
                 \/ Restarts(req[q], req'[q]) \/ Answers(req[q], req'[q])
  BY Walk, Zenon DEF Declines

LEMMA PathsStep == ASSUME TypeOK, Paths, [Next]_vars PROVE Paths'
  <1>1. CASE UNCHANGED req
    BY <1>1 DEF Paths
  <1>2. ASSUME NEW q \in Requests, \A p \in Others(q) : req'[p] = req[p],
               \/ Sends(req[q], req'[q]) \/ Advances(q, req'[q])
               \/ Restarts(req[q], req'[q]) \/ Answers(req[q], req'[q])
        PROVE  Paths'
    <2>1. req'[q].pc # "idle"
      BY <1>2 DEF Sends, Advances, Restarts, Answers, FirstStep
    <2>2. req'[q].pc = "head" => req'[q].op \in {"attendees", "checkin", "demo"}
      BY <1>2 DEF Sends, Advances, Restarts, Answers, FirstStep, Carries
    <2> QED BY <1>2, <2>1, <2>2 DEF Paths, Others
  <1> QED BY <1>1, <1>2, Moves

LEMMA PatchesAskStep == ASSUME TypeOK, Paths, PatchesAsk, [Next]_vars PROVE PatchesAsk'
  <1>1. CASE UNCHANGED req
    BY <1>1 DEF PatchesAsk
  <1>2. ASSUME NEW q \in Requests, \A p \in Others(q) : req'[p] = req[p],
               \/ Sends(req[q], req'[q]) \/ Advances(q, req'[q])
               \/ Restarts(req[q], req'[q]) \/ Answers(req[q], req'[q])
        PROVE  PatchesAsk'
    <2> DEFINE r == req[q]
               n == req'[q]
    <2> SUFFICES ASSUME n.op = "patch", n.pc # "done"
                 PROVE  /\ "room" \notin n.asked => n.to.room = n.head.room
                        /\ "time" \notin n.asked => n.to.start = n.head.start /\ n.to.end = n.head.end
      BY <1>2 DEF PatchesAsk, Others
    <2>1. CASE Sends(r, n)
      BY <2>1 DEF Sends
    <2>2. CASE Advances(q, n) \/ Restarts(r, n)
      <3>1. r.op = "patch" /\ r.pc # "done" /\ n.asked = r.asked /\ SameAim(r, n)
        BY <2>2 DEF Advances, Restarts, Carries, Paths
      <3> QED BY <3>1 DEF PatchesAsk, SameAim
    <2> QED BY <1>2, <2>1, <2>2 DEF Answers
  <1> QED BY <1>1, <1>2, Moves

LEMMA MethodsChosenStep == ASSUME TypeOK, MethodsChosen, [Next]_vars PROVE MethodsChosen'
  <1>1. CASE UNCHANGED req
    BY <1>1 DEF MethodsChosen
  <1>2. ASSUME NEW q \in Requests, \A p \in Others(q) : req'[p] = req[p],
               \/ Sends(req[q], req'[q]) \/ Advances(q, req'[q])
               \/ Restarts(req[q], req'[q]) \/ Answers(req[q], req'[q])
        PROVE  MethodsChosen'
    <2> DEFINE r == req[q]
               n == req'[q]
    <2> SUFFICES ASSUME n.op = "checkin", n.pc # "done"
                 PROVE  /\ n.method \in {"SELF", "ADMIN"}
                        /\ n.method = "ADMIN" => n.actor \in Admins
      BY <1>2 DEF MethodsChosen, Others
    <2>1. CASE Sends(r, n)
      BY <2>1 DEF Sends
    <2>2. CASE Advances(q, n) \/ Restarts(r, n)
      <3>1. r.op = "checkin" /\ r.pc # "done" /\ n.method = r.method /\ n.actor = r.actor
        BY <2>2 DEF Advances, Restarts, Carries
      <3> QED BY <3>1 DEF MethodsChosen
    <2> QED BY <1>2, <2>1, <2>2 DEF Answers
  <1> QED BY <1>1, <1>2, Moves

\* Nobody is disabled but by a deactivation that holds the user.
LEMMA DisabledBy ==
  ASSUME TypeOK, [Next]_vars
  PROVE  \/ UNCHANGED disabledAt
         \/ \E p \in Requests : WriteDeactivate(p)
  <1>1. ASSUME NEW q \in Requests, Write(q) PROVE UNCHANGED disabledAt \/ WriteDeactivate(q)
    BY <1>1 DEF Write, WriteCreate, WritePatch, WriteAttendees, WriteCheckin, WriteDemo,
                WriteCancel, WriteQr, WriteRoom
  <1> QED BY <1>1, TableQuiet DEF Next, SweepBegin, SweepRun, SweepLost, Tick, Over, vars

LEMMA UserLocksStep == ASSUME TypeOK, Paths, UserLocks, [Next]_vars PROVE UserLocks'
  <1> DEFINE Excluded == \A p, q \in Requests : p # q =>
                            req[p].excl \cap (req[q].excl \cup req[q].share) = {}
             Held(r) == r.op = "deactivate" /\ r.pc \in {"resolve", "rooms", "decide", "write"}
                          => r.owner \in r.excl
             Shared(r) == r.op \in {"create", "patch", "demo"} /\ r.pc \in {"rooms", "decide", "write"}
                            => Active(r.owner) /\ r.owner \in r.share
  <1>0. Excluded /\ \A q \in Requests : Held(req[q]) /\ Shared(req[q])
    BY DEF UserLocks
  <1>1. ASSUME NEW q \in Requests, \A p \in Others(q) : req'[p] = req[p],
               \/ Sends(req[q], req'[q]) \/ Advances(q, req'[q])
               \/ Restarts(req[q], req'[q]) \/ Answers(req[q], req'[q])
        PROVE  /\ Excluded'
               /\ Held(req'[q]) /\ Shared(req'[q])
    <2> DEFINE r == req[q]
               n == req'[q]
    <2>1. \/ n.excl = r.excl /\ n.share = r.share
          \/ n.excl = {} /\ n.share = {}
          \/ n.excl = r.excl /\ \A p \in Others(q) : req[p].excl \cap n.share = {}
          \/ n.share = r.share /\ \A p \in Others(q) : (req[p].excl \cup req[p].share) \cap n.excl = {}
      BY <1>1 DEF Sends, Advances, Restarts, Answers, SameLocks, ShareFree, ExclFree
    <2>2. \A p \in Others(q) : /\ req[p].excl \cap (n.excl \cup n.share) = {}
                               /\ n.excl \cap (req[p].excl \cup req[p].share) = {}
      BY <1>0, <2>1 DEF Others
    <2>3. Excluded'
      BY <1>0, <1>1, <2>2 DEF Others
    <2>4. Held(n)
      BY <1>0, <1>1 DEF Sends, Advances, Restarts, Answers, SameLocks, SameAim, Carries, FirstStep, Paths
    <2>5. Shared(n)
      BY <1>0, <1>1 DEF Sends, Advances, Restarts, Answers, SameLocks, SameAim, Carries, FirstStep, Paths
    <2> QED BY <2>3, <2>4, <2>5
  <1>2. Excluded' /\ \A q \in Requests : Held(req'[q]) /\ Shared(req'[q])
    <2>1. CASE UNCHANGED req
      BY <1>0, <2>1
    <2> QED BY <1>0, <1>1, <2>1, Moves DEF Others
  <1>3. ASSUME NEW q \in Requests, Shared(req'[q])
        PROVE  Shared(req[q])'
    <2>1. CASE UNCHANGED disabledAt
      BY <1>3, <2>1 DEF Active
    <2>2. ASSUME NEW p \in Requests, WriteDeactivate(p)
          PROVE  Shared(req[q])'
      <3>1. /\ At(p, "write", "deactivate") /\ req'[p].op = "deactivate"
            /\ \A x \in Others(p) : req'[x] = req[x]
        BY <2>2, WriteAnswers DEF WriteDeactivate, Write, Answers, At
      <3>2. p # q /\ req'[q].op \in {"create", "patch", "demo"} /\ req'[q].pc \in {"rooms", "decide", "write"}
              => req[p].owner # req'[q].owner
        BY <1>0, <1>3, <3>1 DEF At, Others
      <3>3. \A u \in Users : u # req[p].owner => disabledAt'[u] = disabledAt[u]
        BY <2>2 DEF WriteDeactivate, TypeOK
      <3>4. TypeOK'
        BY NextType
      <3>5. req'[q].owner \in Users
        BY <3>4 DEF TypeOK, Request
      <3> QED BY <1>3, <3>1, <3>2, <3>3, <3>5 DEF Active
    <2> QED BY <2>1, <2>2, DisabledBy
  <1> QED BY <1>2, <1>3 DEF UserLocks


----------------------------------------------------------------------------
(* What the requests know of the table *)

\* A booking that is there stays, is its owner's, and changes with its version only.
LEMMA Remains ==
  ASSUME TypeOK, NEW i \in Ids, Lives(i), booking[i].status # "NONE"
  PROVE  /\ booking'[i].status # "NONE"
         /\ booking'[i].owner = booking[i].owner
         /\ booking'[i].creator = booking[i].creator /\ booking'[i].key = booking[i].key
         /\ booking[i].version <= booking'[i].version
         /\ booking'[i].version = booking[i].version => booking'[i] = booking[i]
  <1>0. booking[i].version \in Nat
    BY RowType
  <1>1. CASE Still(i)
    BY <1>0, <1>1 DEF Still
  <1>2. ASSUME NEW event, Grown(i, event), booking'[i].status # "NONE"
        PROVE  /\ booking'[i].owner = booking[i].owner
               /\ booking'[i].creator = booking[i].creator /\ booking'[i].key = booking[i].key
               /\ booking[i].version <= booking'[i].version
               /\ booking'[i].version # booking[i].version
    BY <1>0, <1>2 DEF Grown
  <1>3. ~ \E q \in Requests : Born(q, i)
    BY DEF Born
  <1>4. CASE Updated(i) \/ CheckedIn(i) \/ Cancelled(i) \/ Released(i) \/ Completed(i)
    BY <1>2, <1>4 DEF Updated, CheckedIn, Cancelled, Released, Completed, Turned
  <1>5. CASE \E q \in Requests : RescheduledTo(q, i) \/ Shifted(q, i) \/ Invited(q, i) \/ Scanned(q, i)
    BY <1>2, <1>5 DEF RescheduledTo, Shifted, Invited, Scanned, Turned
  <1> QED BY <1>1, <1>3, <1>4, <1>5 DEF Lives

LEMMA OwnersKnownStep ==
  ASSUME TypeOK, TypeOK', GapInvariant, Paths, MailsDated, GuestHeadsFresh, OwnersKnown, [Next]_vars
  PROVE  OwnersKnown'
  <1> DEFINE Knows(r) == r.op \in {"patch", "demo", "attendees", "cancel"} /\ r.pc \notin {"head", "done"}
  <1>1. ASSUME NEW q \in Requests, Knows(req[q]), NEW o, o = booking[req[q].id].owner
        PROVE  o = booking'[req[q].id].owner
    <2>1. req[q].id \in Ids /\ booking[req[q].id].status # "NONE"
      BY <1>1, RequestType DEF GapInvariant, RowsExist, Named
    <2> QED BY <1>1, <2>1, Life, Remains
  <1>2. ASSUME NEW q \in Requests, \A p \in Others(q) : req'[p] = req[p],
               \/ Submit(q) /\ Sends(req[q], req'[q])
               \/ Prepare(q) /\ Advances(q, req'[q])
               \/ Restarts(req[q], req'[q]) \/ Answers(req[q], req'[q]),
               Knows(req'[q])
        PROVE  req'[q].owner = booking'[req'[q].id].owner
    <2> DEFINE r == req[q]
               n == req'[q]
    <2>1. CASE Submit(q) /\ Sends(r, n)
      <3>1. UNCHANGED booking
        BY <2>1, TableQuiet
      <3> QED BY <1>2, <2>1, <3>1 DEF Sends
    <2>2. CASE Prepare(q) /\ Advances(q, n) /\ r.pc = "head"
      <3>1. UNCHANGED booking
        BY <2>2, TableQuiet
      <3>2. n.id = r.id /\ n.owner = booking[r.id].owner
        BY <2>2 DEF Advances
      <3> QED BY <3>1, <3>2
    <2>3. CASE (Advances(q, n) /\ r.pc # "head") \/ Restarts(r, n)
      <3>1. Knows(r) /\ n.id = r.id /\ n.owner = r.owner
        BY <1>2, <2>3 DEF Advances, Restarts, Carries, SameAim, FirstStep, Paths
      <3> QED BY <1>1, <3>1 DEF OwnersKnown
    <2> QED BY <1>2, <2>1, <2>2, <2>3 DEF Answers
  <1>3. CASE UNCHANGED req
    BY <1>1, <1>3 DEF OwnersKnown
  <1>4. ASSUME NEW q \in Requests, \A p \in Others(q) : req'[p] = req[p],
               \/ Submit(q) /\ Sends(req[q], req'[q])
               \/ Prepare(q) /\ (Advances(q, req'[q]) \/ Declines(req[q], req'[q]))
               \/ Abort(q) /\ (Restarts(req[q], req'[q]) \/ Declines(req[q], req'[q]))
               \/ Write(q) /\ Answers(req[q], req'[q])
        PROVE  OwnersKnown'
    <2>1. \A p \in Others(q) : Knows(req'[p]) => req'[p].owner = booking'[req'[p].id].owner
      BY <1>1, <1>4 DEF OwnersKnown, Others
    <2>2. Knows(req'[q]) => req'[q].owner = booking'[req'[q].id].owner
      BY <1>2, <1>4 DEF Declines
    <2> QED BY <2>1, <2>2 DEF OwnersKnown, Others
  <1> QED BY <1>3, <1>4, Walk

LEMMA GuestHeadsFreshStep ==
  ASSUME TypeOK, TypeOK', GapInvariant, MailsDated, GuestHeadsFresh, [Next]_vars
  PROVE  GuestHeadsFresh'
  <1> DEFINE Fresh(r) == LET b == booking[r.id] IN
               r.op = "attendees" /\ r.pc # "done" =>
                 /\ r.ver <= b.version
                 /\ r.ver = b.version /\ r.pc # "head" => r.head = b.slot
  <1>0. \A q \in Requests : Fresh(req[q])
    BY DEF GuestHeadsFresh
  <1>1. ASSUME NEW q \in Requests, req[q].op = "attendees", req[q].pc # "done"
        PROVE  LET c == booking'[req[q].id] IN
               /\ req[q].ver <= c.version
               /\ req[q].ver = c.version => c = booking[req[q].id]
    <2>1. req[q].id \in Ids /\ booking[req[q].id].status # "NONE"
      BY <1>1, RequestType DEF GapInvariant, RowsExist, Named
    <2>2. /\ booking[req[q].id].version <= booking'[req[q].id].version
          /\ booking'[req[q].id].version = booking[req[q].id].version
               => booking'[req[q].id] = booking[req[q].id]
      BY <2>1, Life, Remains
    <2>3. /\ req[q].ver \in Nat /\ booking[req[q].id].version \in Nat
          /\ booking'[req[q].id].version \in Nat
      BY <2>1, RequestType, RowType DEF TypeOK, Booking, Request
    <2>4. req[q].ver <= booking[req[q].id].version
      BY <1>0, <1>1
    <2> QED BY <2>2, <2>3, <2>4
  <1>2. ASSUME NEW q \in Requests, req'[q] = req[q] PROVE Fresh(req[q])'
    BY <1>0, <1>1, <1>2
  <1>3. ASSUME NEW q \in Requests,
               \/ Submit(q) /\ Sends(req[q], req'[q])
               \/ Prepare(q) /\ Advances(q, req'[q])
               \/ Restarts(req[q], req'[q]) \/ Answers(req[q], req'[q])
        PROVE  Fresh(req[q])'
    <2> DEFINE r == req[q]
               n == req'[q]
    <2> SUFFICES ASSUME n.op = "attendees", n.pc # "done"
                 PROVE  /\ n.ver <= booking'[n.id].version
                        /\ n.ver = booking'[n.id].version /\ n.pc # "head" => n.head = booking'[n.id].slot
      OBVIOUS
    <2>1. CASE Submit(q) /\ Sends(r, n)
      <3>1. UNCHANGED booking
        BY <2>1, TableQuiet
      <3> QED BY <2>1, <3>1 DEF Sends
    <2>2. CASE Prepare(q) /\ Advances(q, n) /\ r.pc = "head"
      <3>1. UNCHANGED booking
        BY <2>2, TableQuiet
      <3>2. n.id = r.id /\ n.head = booking[r.id].slot /\ n.ver = r.ver /\ r.op = "attendees"
        BY <2>2 DEF Advances, Carries
      <3> QED BY <1>1, <2>2, <3>1, <3>2
    <2>3. CASE (Advances(q, n) /\ r.pc # "head") \/ Restarts(r, n)
      <3>1. /\ r.op = "attendees" /\ r.pc # "done" /\ n.id = r.id /\ n.ver = r.ver
            /\ n.head = r.head /\ (n.pc # "head" => r.pc # "head")
        BY <2>3 DEF Advances, Restarts, Carries, SameAim, FirstStep
      <3> QED BY <1>0, <1>1, <3>1
    <2> QED BY <1>3, <2>1, <2>2, <2>3 DEF Answers
  <1>4. \A q \in Requests : Fresh(req[q])'
    <2>1. CASE UNCHANGED req
      BY <1>2, <2>1
    <2>2. ASSUME NEW q \in Requests, \A p \in Others(q) : req'[p] = req[p],
               \/ Submit(q) /\ Sends(req[q], req'[q])
               \/ Prepare(q) /\ (Advances(q, req'[q]) \/ Declines(req[q], req'[q]))
               \/ Abort(q) /\ (Restarts(req[q], req'[q]) \/ Declines(req[q], req'[q]))
               \/ Write(q) /\ Answers(req[q], req'[q])
          PROVE  \A p \in Requests : Fresh(req[p])'
      BY <1>2, <1>3, <2>2 DEF Others, Declines
    <2> QED BY <2>1, <2>2, Walk
  <1> QED BY <1>4 DEF GuestHeadsFresh


\* A calendar mail of a booking that a step adds is of its new version.
LEMMA PostedIsNew ==
  ASSUME TypeOK, TypeOK', NEW i \in Ids, Lives(i),
         NEW m \in outbox' \ outbox, m.id = i, m.tpl \in CalendarMail
  PROVE  booking'[i].status # "NONE" /\ m.key = booking'[i].version
  <1>1. m \in Mail
    BY DEF TypeOK
  <1>2. ~Unmailed(i)
    BY <1>1 DEF Unmailed, Posted
  <1>3. ASSUME NEW us, NEW tpl, NEW key, NEW s, Posted(i, MailTo(us, i, tpl, key, s)),
               booking'[i].version = key
        PROVE  m.key = booking'[i].version
    BY <1>1, <1>3, MailToFields DEF Posted
  <1>4. CASE Cancelled(i) \/ Released(i)
    BY <1>3, <1>4 DEF Cancelled, Released, Grown, Turned
  <1>5. ASSUME NEW q \in Requests, Born(q, i) \/ RescheduledTo(q, i)
        PROVE  booking'[i].status # "NONE" /\ m.key = booking'[i].version
    BY <1>3, <1>5 DEF Born, RescheduledTo, Grown, Turned
  <1>6. ASSUME NEW q \in Requests, Invited(q, i)
        PROVE  booking'[i].status # "NONE" /\ m.key = booking'[i].version
    <2> DEFINE old == booking[i].guests
               new == booking'[i].guests
               v == booking[i].version + 1
               s == booking[i].slot
    <2>1. Posted(i, MailTo(new \ old, i, "confirmed", v, s) \cup MailTo(old \ new, i, "cancelled", v, s))
      BY <1>6 DEF Invited
    <2>2. m \in MailTo(new \ old, i, "confirmed", v, s) \/ m \in MailTo(old \ new, i, "cancelled", v, s)
      BY <1>1, <2>1 DEF Posted
    <2>3. m.key = v
      BY <2>2, MailToFields
    <2> QED BY <1>6, <2>3 DEF Invited, Grown, Turned
  <1> QED BY <1>2, <1>4, <1>5, <1>6 DEF Lives, Still, Updated, CheckedIn, Completed, Shifted, Scanned

LEMMA MailsDatedStep ==
  ASSUME TypeOK, TypeOK', GapInvariant, GuestHeadsFresh, MailsDated, [Next]_vars
  PROVE  MailsDated'
  <1> SUFFICES ASSUME NEW m \in outbox', m.tpl \in CalendarMail
               PROVE  booking'[m.id].status # "NONE" /\ m.key <= booking'[m.id].version
    BY DEF MailsDated
  <1>1. m.id \in Ids /\ m.key \in Nat
    BY DEF TypeOK, Mail
  <1>2. Lives(m.id) /\ booking[m.id].version \in Nat /\ booking'[m.id].version \in Nat
    BY <1>1, Life, RowType DEF TypeOK, Booking
  <1>3. CASE m \in outbox
    <2>1. booking[m.id].status # "NONE" /\ m.key <= booking[m.id].version
      BY <1>3 DEF MailsDated
    <2> QED BY <1>1, <1>2, <2>1, Remains
  <1>4. CASE m \notin outbox
    BY <1>1, <1>2, <1>4, PostedIsNew
  <1> QED BY <1>3, <1>4

LEMMA RoomsOpenStep ==
  ASSUME TypeOK, GapInvariant, RoomsOpen, [Next]_vars
  PROVE  RoomsOpen'
  <1> DEFINE Puts(r) == r.pc = "write" /\ r.op \in {"create", "patch", "demo"}
  <1>1. ASSUME NEW q \in Requests, Puts(req'[q]), roomOn[req'[q].to.room],
               req'[q] = req[q] \/ UNCHANGED roomOn
        PROVE  roomOn'[req'[q].to.room]
    <2>1. ASSUME NEW p \in Requests, WriteRoom(p), req'[q] = req[q]
          PROVE  roomOn'[req'[q].to.room]
      <3>1. req[q].to.room \in req[q].rooms
        BY <1>1, <2>1, FitsNow DEF Fits, ProbedIn, NeededRooms, PastRooms
      <3>2. p # q /\ req[p].rooms = {req[p].to.room}
        BY <1>1, <2>1, FitsNow DEF WriteRoom, At, Fits, NeededRooms, PastRooms
      <3>3. req[p].to.room # req[q].to.room
        BY <3>1, <3>2 DEF GapInvariant, RoomLocks
      <3> QED BY <1>1, <2>1, <3>3 DEF WriteRoom, TypeOK
    <2>2. UNCHANGED roomOn \/ \E p \in Requests : WriteRoom(p)
      <3>1. ASSUME NEW p \in Requests, Write(p) PROVE UNCHANGED roomOn \/ WriteRoom(p)
        BY <3>1 DEF Write, WriteCreate, WritePatch, WriteAttendees, WriteCheckin, WriteDemo,
                    WriteCancel, WriteQr, WriteDeactivate
      <3> QED BY <3>1, TableQuiet DEF Next, SweepBegin, SweepRun, SweepLost, Tick, Over, vars
    <2> QED BY <1>1, <2>1, <2>2
  <1>2. ASSUME NEW q \in Requests, Puts(req'[q]),
               \/ Submit(q) /\ Sends(req[q], req'[q])
               \/ Prepare(q) /\ (Advances(q, req'[q]) \/ Declines(req[q], req'[q]))
               \/ Abort(q) /\ (Restarts(req[q], req'[q]) \/ Declines(req[q], req'[q]))
               \/ Write(q) /\ Answers(req[q], req'[q])
        PROVE  roomOn[req'[q].to.room] /\ UNCHANGED roomOn
    <2>1. Prepare(q) /\ Advances(q, req'[q])
      BY <1>2 DEF Sends, Declines, Answers, Restarts, FirstStep
    <2> QED BY <1>2, <2>1, TableQuiet DEF Advances, Carries, SameAim
  <1>3. CASE UNCHANGED req
    BY <1>1, <1>3 DEF RoomsOpen
  <1>4. ASSUME NEW q \in Requests, \A p \in Others(q) : req'[p] = req[p],
               \/ Submit(q) /\ Sends(req[q], req'[q])
               \/ Prepare(q) /\ (Advances(q, req'[q]) \/ Declines(req[q], req'[q]))
               \/ Abort(q) /\ (Restarts(req[q], req'[q]) \/ Declines(req[q], req'[q]))
               \/ Write(q) /\ Answers(req[q], req'[q])
        PROVE  RoomsOpen'
    <2>1. Puts(req'[q]) => roomOn'[req'[q].to.room]
      BY <1>1, <1>2, <1>4
    <2>2. \A p \in Others(q) : Puts(req'[p]) => roomOn'[req'[p].to.room]
      BY <1>1, <1>4 DEF RoomsOpen, Others
    <2> QED BY <2>1, <2>2 DEF RoomsOpen, Others
  <1> QED BY <1>3, <1>4, Walk

----------------------------------------------------------------------------
(* Idempotency keys *)

\* A create that writes answers with the booking that has its key.
LEMMA CreateAnswers ==
  ASSUME TypeOK, MailsDated, NEW q \in Requests, WriteCreate(q)
  PROVE  LET n == req'[q] IN
         \/ n.code = "SLOT_UNAVAILABLE"
         \/ n.code = "replay" /\ n.id \in Prior(n.actor, n.key) /\ UNCHANGED booking
         \/ n.code = "ok" /\ n.id \in Ids /\ Born(q, n.id)
  <1> DEFINE r == req[q]
             i == FreeId
  <1>1. r.pc \notin {"idle", "done"}
    BY DEF WriteCreate, At
  <1>2. ASSUME NEW code, NEW j, Reply(q, code, j)
        PROVE  /\ req'[q].code = code /\ req'[q].id = j
               /\ req'[q].actor = r.actor /\ req'[q].key = r.key
    BY <1>1, <1>2, ReplyAnswers DEF Answers
  <1>3. CASE Prior(r.actor, r.key) # {} /\ Reply(q, "replay", PriorId(r.actor, r.key)) /\ UNCHANGED table
    <2>1. PriorId(r.actor, r.key) \in Prior(r.actor, r.key)
      BY <1>3 DEF PriorId
    <2> QED BY <1>2, <1>3, <2>1 DEF table
  <1>4. CASE Reply(q, "SLOT_UNAVAILABLE", r.id)
    BY <1>2, <1>4
  <1>5. CASE i \in Ids /\ booking[i].status = "NONE" /\ Reply(q, "ok", i) /\ ~Still(i)
    <2>1. Born(q, i)
      BY <1>5, CreateLives
    <2> HIDE DEF i
    <2> QED BY <1>2, <1>5, <2>1
  <1>6. CASE /\ i \in Ids /\ booking[i].status = "NONE" /\ Reply(q, "ok", i)
             /\ booking' = [booking EXCEPT ![i] =
                  [slot |-> r.to, owner |-> r.owner, creator |-> r.actor, key |-> r.key,
                   status |-> "CONFIRMED", version |-> 1, guests |-> r.guests,
                   confirmedAt |-> r.at, method |-> "-", by |-> AnyUser]]
    <2>1. booking'[i].status = "CONFIRMED"
      BY <1>6 DEF TypeOK
    <2> QED BY <1>5, <1>6, <2>1 DEF Still
  <1> QED BY <1>3, <1>4, <1>6 DEF WriteCreate

\* Nobody's key names another booking, but the booking that is created with it.
LEMMA PriorGrows ==
  ASSUME TypeOK, \A i \in Ids : Lives(i), NEW a, NEW k
  PROVE  /\ Prior(a, k) \subseteq Prior(a, k)'
         /\ \A i \in Prior(a, k)' \ Prior(a, k) :
              \E q \in Requests : Born(q, i) /\ a = req[q].actor /\ k = req[q].key
  <1>1. ASSUME NEW i \in Prior(a, k) PROVE i \in Prior(a, k)'
    BY <1>1, Remains DEF Prior
  <1>2. ASSUME NEW i \in Prior(a, k)' \ Prior(a, k)
        PROVE  \E q \in Requests : Born(q, i) /\ a = req[q].actor /\ k = req[q].key
    <2>1. i \in Ids /\ booking'[i].creator = a /\ booking'[i].key = k /\ booking'[i].status # "NONE"
      BY <1>2 DEF Prior
    <2>2. booking[i].status = "NONE"
      BY <1>2, <2>1, Remains DEF Prior
    <2>3. ~Still(i)
      BY <2>1, <2>2 DEF Still
    <2>4. \A event : ~Grown(i, event)
      BY <2>2 DEF Grown
    <2>5. PICK q \in Requests : Born(q, i)
      BY <2>1, <2>3, <2>4 DEF Lives, Updated, CheckedIn, Cancelled, Released, Completed,
                              RescheduledTo, Shifted, Invited, Scanned
    <2> QED BY <2>1, <2>5 DEF Born
  <1> QED BY <1>1, <1>2


LEMMA KeysKeptStep ==
  ASSUME TypeOK, TypeOK', GapInvariant, Paths, MailsDated, GuestHeadsFresh, KeysKept, [Next]_vars
  PROVE  KeysKept'
  <1> DEFINE KeyOf(r) == <<r.actor, r.key>>
             Names(i) == <<booking[i].creator, booking[i].key>>
             Answer(r) == r.op = "create" /\ r.code \in {"replay", "ok"} => r.id \in Prior(r.actor, r.key)
  <1>0. \A i \in Ids : Lives(i)
    BY Life
  <1>1. \A a, k : Prior(a, k) \subseteq Prior(a, k)'
    BY <1>0, PriorGrows
  \* A step of q gives it the key's lock only when the key is free, and keeps what it answered.
  <1>2. ASSUME NEW q \in Requests, \A p \in Others(q) : req'[p] = req[p],
               \/ Submit(q) /\ Sends(req[q], req'[q])
               \/ Prepare(q) /\ (Advances(q, req'[q]) \/ Declines(req[q], req'[q]))
               \/ Abort(q) /\ (Restarts(req[q], req'[q]) \/ Declines(req[q], req'[q]))
               \/ Write(q) /\ Answers(req[q], req'[q])
        PROVE  /\ Keyed(q)' => /\ KeyOf(req'[q]) = KeyOf(req[q])
                               /\ UNCHANGED booking
                               /\ \/ Keyed(q)
                                  \/ /\ KeyFree(q, req[q].actor, req[q].key)
                                     /\ Prior(req[q].actor, req[q].key) = {}
               /\ Answer(req[q])'
    <2> DEFINE r == req[q]
               n == req'[q]
    <2>1. ASSUME Keyed(q)'
          PROVE  /\ KeyOf(n) = KeyOf(r) /\ UNCHANGED booking
                 /\ Keyed(q) \/ (KeyFree(q, r.actor, r.key) /\ Prior(r.actor, r.key) = {})
      <3>1. Prepare(q) /\ Advances(q, n)
        BY <1>2, <2>1 DEF Keyed, Sends, Declines, Answers, Restarts, Carries, FirstStep
      <3>2. UNCHANGED booking
        BY <3>1, TableQuiet
      <3>3. n.actor = r.actor /\ n.key = r.key
        BY <3>1 DEF Advances, Carries
      <3>4. Keyed(q) \/ (KeyFree(q, r.actor, r.key) /\ Prior(r.actor, r.key) = {})
        BY <2>1, <3>1 DEF Advances, Carries, Keyed, Paths
      <3> QED BY <3>2, <3>3, <3>4
    <2>2. ASSUME n.op = "create", n.code \in {"replay", "ok"}
          PROVE  \A a, k : a = n.actor /\ k = n.key => n.id \in Prior(a, k)'
      <3> SUFFICES ASSUME NEW a, NEW k, a = n.actor, k = n.key
                   PROVE  n.id \in Prior(a, k) \/ n.id \in Prior(a, k)'
        BY <1>1
      <3>1. CASE Submit(q) /\ Sends(r, n)
        BY <2>2, <3>1 DEF Sends
      <3>2. CASE Advances(q, n) \/ Restarts(r, n)
        <4>1. /\ r.op = "create" /\ n.id = r.id /\ n.code = r.code
              /\ n.actor = r.actor /\ n.key = r.key
          BY <2>2, <3>2 DEF Advances, Restarts, Carries, SameAim, Paths
        <4> QED BY <2>2, <4>1 DEF KeysKept
      <3>3. CASE Declines(r, n)
        BY <2>2, <3>3 DEF Declines, Answers
      <3>4. CASE Write(q) /\ Answers(r, n)
        <4>1. r.op = "create" /\ n.actor = r.actor /\ n.key = r.key
          BY <2>2, <3>4 DEF Answers
        <4>2. WriteCreate(q)
          BY <3>4, <4>1 DEF Write, WritePatch, WriteAttendees, WriteCheckin, WriteDemo,
                            WriteCancel, WriteQr, WriteDeactivate, WriteRoom, At
        <4>3. CASE n.code = "ok" /\ n.id \in Ids /\ Born(q, n.id)
          BY <4>1, <4>3 DEF Born, Prior
        <4> QED BY <2>2, <4>2, <4>3, CreateAnswers
      <3> QED BY <1>2, <3>1, <3>2, <3>3, <3>4
    <2>3. Answer(req[q])'
      <3>1. PICK a, k : a = n.actor /\ k = n.key
        OBVIOUS
      <3> QED BY <2>2, <3>1 DEF Prior
    <2> QED BY <2>1, <2>3
  <1>3. ASSUME NEW p \in Requests, NEW q \in Requests, p # q, Keyed(p)', Keyed(q)'
        PROVE  KeyOf(req'[p]) # KeyOf(req'[q])
    <2>1. CASE UNCHANGED req
      BY <1>3, <2>1 DEF KeysKept, Keyed
    <2>2. ASSUME NEW x \in Requests, \A y \in Others(x) : req'[y] = req[y],
                 Keyed(x)' => /\ KeyOf(req'[x]) = KeyOf(req[x])
                              /\ Keyed(x) \/ KeyFree(x, req[x].actor, req[x].key)
          PROVE  KeyOf(req'[p]) # KeyOf(req'[q])
      <3>1. ASSUME NEW y \in Others(x), Keyed(y)', Keyed(x)'
            PROVE  KeyOf(req'[x]) # KeyOf(req'[y])
        BY <2>2, <3>1 DEF KeysKept, Keyed, KeyFree, Others
      <3>2. ASSUME p # x, q # x PROVE KeyOf(req'[p]) # KeyOf(req'[q])
        BY <1>3, <2>2, <3>2 DEF KeysKept, Keyed, Others
      <3> QED BY <1>3, <3>1, <3>2 DEF Others
    <2> QED BY <1>2, <2>1, <2>2, Walk, Zenon
  <1>4. ASSUME NEW q \in Requests, Keyed(q)'
        PROVE  Prior(req[q].actor, req[q].key)' = {}
    <2>0. PICK a, k : a = req[q].actor /\ k = req[q].key
      OBVIOUS
    <2>1. ASSUME req'[q] = req[q] PROVE Prior(a, k)' = {}
      <3>1. Keyed(q) /\ Prior(a, k) = {}
        BY <1>4, <2>0, <2>1 DEF Keyed, KeysKept
      <3>2. ASSUME NEW p \in Requests, NEW i, Born(p, i), a = req[p].actor, k = req[p].key
            PROVE  FALSE
        <4>1. Keyed(p) /\ p # q
          BY <1>4, <2>1, <3>2 DEF Born, At, Keyed
        <4> QED BY <2>0, <3>1, <3>2, <4>1 DEF KeysKept
      <3> QED BY <1>0, <3>1, <3>2, PriorGrows
    <2>2. ASSUME req'[q].actor = a, req'[q].key = k, UNCHANGED booking,
                 Keyed(q) \/ Prior(a, k) = {}
          PROVE  Prior(a, k)' = {}
      BY <2>0, <2>2 DEF Prior, KeysKept
    <2>3. CASE req'[q] = req[q]
      <3>1. Prior(a, k)' = {} /\ req'[q].actor = a /\ req'[q].key = k
        BY <2>0, <2>1, <2>3
      <3> QED BY <3>1 DEF Prior
    <2>4. CASE req'[q] # req[q]
      <3>1. /\ req'[q].actor = a /\ req'[q].key = k /\ UNCHANGED booking
            /\ Keyed(q) \/ Prior(a, k) = {}
        BY <1>2, <1>4, <2>0, <2>4, Walk DEF Others
      <3>2. Prior(a, k)' = {}
        BY <2>2, <3>1
      <3> QED BY <3>1, <3>2 DEF Prior
    <2> QED BY <2>3, <2>4
  <1>5. ASSUME NEW i \in Ids, NEW j \in Ids, i # j,
               booking'[i].status # "NONE", booking'[j].status # "NONE"
        PROVE  Names(i)' # Names(j)' \/ booking'[i].key = NoKey
    <2>1. ASSUME NEW x \in Ids, NEW y \in Ids, x # y, booking[x].status # "NONE",
                 booking[y].status = "NONE", booking'[y].status # "NONE"
          PROVE  Names(x)' # Names(y)'
      <3>1. PICK a, k : booking'[y].creator = a /\ booking'[y].key = k
        OBVIOUS
      <3>2. y \in Prior(a, k)' /\ y \notin Prior(a, k)
        BY <2>1, <3>1 DEF Prior
      <3>3. PICK q \in Requests : Born(q, y) /\ a = req[q].actor /\ k = req[q].key
        BY <1>0, <3>2, PriorGrows
      <3>4. booking'[x].creator = booking[x].creator /\ booking'[x].key = booking[x].key
        BY <1>0, <2>1, Remains
      <3> QED BY <2>1, <3>1, <3>3, <3>4 DEF Born, Prior
    <2>2. ASSUME booking[i].status = "NONE", booking[j].status = "NONE" PROVE FALSE
      <3>1. ASSUME NEW x \in {i, j} PROVE x = FreeId
        <4>1. PICK a, k : booking'[x].creator = a /\ booking'[x].key = k
          OBVIOUS
        <4>2. x \in Prior(a, k)' /\ x \notin Prior(a, k)
          BY <1>5, <2>2, <4>1 DEF Prior
        <4>3. \E q \in Requests : Born(q, x)
          BY <1>0, <4>2, PriorGrows
        <4> QED BY <4>3 DEF Born
      <3> QED BY <1>5, <3>1
    <2>3. CASE booking[i].status # "NONE" /\ booking[j].status # "NONE"
      <3>1. Names(i)' = Names(i) /\ Names(j)' = Names(j)
        BY <1>0, <2>3, Remains
      <3> QED BY <1>5, <2>3, <3>1 DEF KeysKept
    <2> QED BY <1>5, <2>1, <2>2, <2>3
  <1>6. ASSUME NEW q \in Requests PROVE Answer(req[q])'
    <2>1. ASSUME req'[q] = req[q] PROVE Answer(req[q])'
      <3>1. PICK a, k : a = req[q].actor /\ k = req[q].key
        OBVIOUS
      <3>2. Prior(a, k) = Prior(req[q].actor, req[q].key) /\ Prior(a, k)' = Prior(req[q].actor, req[q].key)'
        BY <2>1, <3>1 DEF Prior
      <3> QED BY <1>1, <2>1, <3>2 DEF KeysKept
    <2> QED BY <1>2, <2>1, Walk DEF Others
  <1> QED BY <1>3, <1>4, <1>5, <1>6 DEF KeysKept


----------------------------------------------------------------------------
(* The invariant and what follows from it for every kind of request *)

LEMMA InitMails ==
  ASSUME Init, NEW m \in outbox
  PROVE  \E s \in Seed : /\ m.id = s.id /\ m.tpl = "confirmed" /\ m.key = 1
                         /\ m.to \in {s.owner} \cup s.guests /\ m.slot = s.slot
                         /\ booking[m.id] = Row(s)
  <1>1. PICK s \in Seed : m \in MailTo({s.owner} \cup s.guests, s.id, "confirmed", 1, s.slot)
    BY DEF Init
  <1>2. /\ m.id = s.id /\ m.tpl = "confirmed" /\ m.key = 1
        /\ m.to \in {s.owner} \cup s.guests /\ m.slot = s.slot
    BY <1>1, MailToFields
  <1>3. s \in Seeded(s.id) /\ s.id \in Ids
    BY SeedAssumption DEF Seeded, SeedRow
  <1>4. (CHOOSE x \in Seed : x.id = s.id) = s
    BY SeedAssumption
  <1>5. booking[s.id] = Row(s)
    BY <1>3, <1>4 DEF Init
  <1> QED BY <1>2, <1>5

LEMMA InitRules == Init => RulesInvariant
  <1> SUFFICES ASSUME Init PROVE RulesInvariant
    OBVIOUS
  <1>1. \A q \in Requests : req[q] = NoRequest
    BY DEF Init
  <1>2. NoRequest.pc = "idle" /\ NoRequest.op = "-" /\ NoRequest.excl = {} /\ NoRequest.share = {}
    BY DEF NoRequest
  <1>3. Paths /\ PatchesAsk /\ MethodsChosen /\ UserLocks /\ OwnersKnown /\ RoomsOpen /\ GuestHeadsFresh
    BY <1>1, <1>2 DEF Paths, PatchesAsk, MethodsChosen, UserLocks, OwnersKnown, RoomsOpen,
                      GuestHeadsFresh
  <1>4. KeysKept
    <2>1. \A i \in Ids : booking[i].key = NoKey
      BY DEF Init, Row, NoRow
    <2> QED BY <1>1, <1>2, <2>1 DEF KeysKept, Keyed
  <1>5. MailsDated
    <2> SUFFICES ASSUME NEW m \in outbox
                 PROVE  booking[m.id].status # "NONE" /\ m.key <= booking[m.id].version
      BY DEF MailsDated
    <2>1. PICK s \in Seed : m.key = 1 /\ booking[m.id] = Row(s)
      BY InitMails
    <2>2. Row(s).status = "CONFIRMED" /\ Row(s).version = 1
      BY DEF Row, NoRow
    <2> QED BY <2>1, <2>2
  <1> QED BY <1>3, <1>4, <1>5, InitGap DEF RulesInvariant

LEMMA NextRules == TypeOK /\ RulesInvariant /\ [Next]_vars => TypeOK' /\ RulesInvariant'
  BY NextType, NextGap, PathsStep, KeysKeptStep, PatchesAskStep, MethodsChosenStep, UserLocksStep,
     OwnersKnownStep, RoomsOpenStep, MailsDatedStep, GuestHeadsFreshStep DEF RulesInvariant

\* Every part of the invariant holds in every reachable state.
THEOREM RulesKept == Spec => [](TypeOK /\ RulesInvariant)
  BY InitType, InitRules, NextRules, PTL DEF Spec

\* An actor's key names one booking at most, and a create is answered with the one that has the
\* key: the key's advisory lock is held from the look-up to the commit, so whoever finds no
\* booking with the key is alone in creating one.
THEOREM KeyNamesOne == Spec => []OneBookingPerKey
  <1>1. RulesInvariant => OneBookingPerKey
    BY DEF RulesInvariant, KeysKept, OneBookingPerKey, Prior
  <1> QED BY <1>1, RulesKept, PTL

LEMMA RefusedIsNew ==
  ASSUME TypeOK, RulesInvariant, [Next]_vars, NEW q \in Requests, Answered(q, "create"),
         req'[q].code \notin {"ok", "replay", "aborted"}
  PROVE  Prior(req[q].actor, req[q].key) = {}
  <1> DEFINE r == req[q]
             n == req'[q]
  <1>0. r.op = "create" /\ r.pc # "done" /\ n.pc = "done" /\ r.pc # "idle"
    BY DEF Answered, RulesInvariant, Paths, NoRequest
  <1>1. Keyed(q) => Prior(r.actor, r.key) = {}
    BY DEF RulesInvariant, KeysKept
  <1>2. CASE Declines(r, n)
    <2>1. r.pc \in InTx => Keyed(q)
      BY <1>0 DEF InTx, Keyed
    <2> QED BY <1>0, <1>1, <1>2, <2>1 DEF Declines
  <1>3. CASE Write(q)
    <2>1. Keyed(q)
      BY <1>0, <1>3, WriteAnswers DEF Keyed
    <2> QED BY <1>1, <2>1
  <1>4. ~Sends(r, n) /\ ~Advances(q, n) /\ ~Restarts(r, n)
    BY <1>0 DEF Sends, Advances, Restarts, FirstStep
  <1> QED BY <1>0, <1>2, <1>3, <1>4, Walk DEF Others

\* No retry of a create that has committed is answered with an error.
THEOREM NoErrorOnceCommitted == Spec => NoErrorAfterCommit
  <1>1. TypeOK /\ RulesInvariant /\ [Next]_vars =>
          [\A q \in Requests :
             Answered(q, "create") /\ req'[q].code \notin {"ok", "replay", "aborted"}
               => Prior(req[q].actor, req[q].key) = {}]_vars
    BY RefusedIsNew
  <1> QED BY <1>1, RulesKept, PTL DEF Spec, NoErrorAfterCommit

LEMMA PatchKeepsTheRest ==
  ASSUME TypeOK, RulesInvariant, [Next]_vars, NEW q \in Requests, Committed(q, "patch")
  PROVE  LET old == booking[req[q].id].slot  new == booking'[req[q].id].slot IN
         /\ "room" \notin req[q].asked => new.room = old.room
         /\ "time" \notin req[q].asked => new.start = old.start /\ new.end = old.end
  <1> DEFINE r == req[q]
             b == booking[r.id]
  <1>0. /\ r.op = "patch" /\ r.pc # "done" /\ req'[q].pc = "done" /\ req'[q].code = "ok"
        /\ r.id \in Ids /\ b \in Booking /\ r.pc # "idle"
    BY RequestType, RowType DEF Committed, Answered, RulesInvariant, Paths, NoRequest
  <1>1. Write(q)
    <2>1. ~Sends(r, req'[q]) /\ ~Advances(q, req'[q]) /\ ~Restarts(r, req'[q]) /\ ~Declines(r, req'[q])
      BY <1>0 DEF Sends, Advances, Restarts, Declines, FirstStep
    <2> QED BY <1>0, <2>1, Walk DEF Others
  <1>2. WritePatch(q)
    BY <1>0, <1>1 DEF Write, WriteCreate, WriteAttendees, WriteCheckin, WriteDemo,
                      WriteCancel, WriteQr, WriteDeactivate, WriteRoom, At
  <1>3. /\ VersionMatches(q)
        /\ booking' = [booking EXCEPT ![r.id] = [b EXCEPT !.slot = r.to, !.version = @ + 1,
                           !.confirmedAt = IF Moved(r) THEN r.at ELSE @]]
    <2>1. ASSUME NEW code, Reply(q, code, r.id), code # "ok" PROVE FALSE
      BY <1>0, <2>1, ReplyAnswers
    <2> QED BY <1>2, <2>1 DEF WritePatch
  <1>4. booking'[r.id].slot = r.to
    BY <1>0, <1>3 DEF TypeOK, Booking
  <1>5. r.head = b.slot
    BY <1>0, <1>3 DEF RulesInvariant, GapInvariant, HeadsFresh, VersionMatches
  <1>6. /\ "room" \notin r.asked => r.to.room = r.head.room
        /\ "time" \notin r.asked => r.to.start = r.head.start /\ r.to.end = r.head.end
    BY <1>0 DEF RulesInvariant, PatchesAsk
  <1> QED BY <1>4, <1>5, <1>6

\* A PATCH leaves what its body does not name as the last writer left it.
THEOREM EditsKept == Spec => NoLostEdit
  <1>1. TypeOK /\ RulesInvariant /\ [Next]_vars =>
          [\A q \in Requests :
             Committed(q, "patch") =>
               LET old == booking[req[q].id].slot  new == booking'[req[q].id].slot IN
               /\ "room" \notin req[q].asked => new.room = old.room
               /\ "time" \notin req[q].asked => new.start = old.start /\ new.end = old.end]_vars
    BY PatchKeepsTheRest
  <1> QED BY <1>1, RulesKept, PTL DEF Spec, NoLostEdit


\* What the page offers is what the guarded statements allow, rule by rule.
LEMMA CanAgrees ==
  ASSUME NEW b \in Booking, NEW a, NEW t \in Nat
  PROVE  /\ "edit" \in Can(b, a, t) <=> Editable(b, a, t)
         /\ "cancel" \in Can(b, a, t) <=> Cancellable(b, a, t)
         /\ "checkin" \in Can(b, a, t) <=>
              /\ b.status = "CONFIRMED"
              /\ IF Involved(b, a) THEN OpenForSelf(b.slot, t)
                                   ELSE a \in Admins /\ OpenForAdmin(b.slot, t)
  <1>1. b.slot.start \in Int /\ b.slot.end \in Int /\ Deadline(b.slot) \in Int
    BY SettingsAssumption DEF Booking, Slot, Deadline, Earlier
  <1>2. "edit" \in Can(b, a, t) <=>
          b.status = "CONFIRMED" /\ \/ a \in Admins /\ t < b.slot.end
                                    \/ a = b.owner /\ t < b.slot.start
    BY DEF Can
  <1>3. "cancel" \in Can(b, a, t) <=>
          t < b.slot.end /\ \/ a = b.owner /\ b.status = "CONFIRMED"
                            \/ a \in Admins /\ b.status \in Live
    BY DEF Can
  <1>4. "checkin" \in Can(b, a, t) <=>
          /\ b.status = "CONFIRMED" /\ t >= b.slot.start - OpenBefore
          /\ IF Involved(b, a) THEN t < Deadline(b.slot) ELSE a \in Admins /\ t < b.slot.end
    BY DEF Can
  <1>5. "edit" \in Can(b, a, t) <=> Editable(b, a, t)
    BY <1>1, <1>2 DEF Editable
  <1>6. "cancel" \in Can(b, a, t) <=> Cancellable(b, a, t)
    BY <1>1, <1>3 DEF Cancellable, Live
  <1> QED BY <1>1, <1>4, <1>5, <1>6 DEF OpenForSelf, OpenForAdmin

LEMMA AnswersHonestly ==
  ASSUME TypeOK, RulesInvariant, [Next]_vars, NEW q \in Requests,
         req[q].op \in DOMAIN Offers, Answered(q, req[q].op), req[q].pc = "write",
         req[q].op = "checkin" =>
           (req[q].method = "SELF") = Involved(booking[req[q].id], req[q].actor)
  PROVE  LET r == req[q]  offered == Offers[r.op] \in Can(booking[r.id], r.actor, r.at) IN
         /\ req'[q].code = "ok" => offered
         /\ req'[q].code \in {"INVALID_STATUS_TRANSITION", "already", "refused"} => ~offered
  <1> DEFINE r == req[q]
             b == booking[r.id]
             n == req'[q]
             offered == Offers[r.op] \in Can(b, r.actor, r.at)
  <1>0. r.id \in Ids /\ b \in Booking /\ r.at \in Nat /\ n.pc = "done"
        /\ r.op \in {"patch", "attendees", "cancel", "checkin"}
    BY RequestType, RowType DEF Request, Answered, Offers
  <1>1. ASSUME NEW code, NEW i, Reply(q, code, i) PROVE n.code = code
    BY <1>1, ReplyAnswers
  <1>2. CASE Write(q)
    <2>1. CASE r.op = "patch" \/ r.op = "attendees"
      <3>1. WritePatch(q) \/ WriteAttendees(q)
        BY <1>2, <2>1 DEF Write, WriteCreate, WriteCheckin, WriteDemo,
                          WriteCancel, WriteQr, WriteDeactivate, WriteRoom, At
      <3>2. offered <=> Editable(b, r.actor, r.at)
        BY <1>0, <2>1, CanAgrees DEF Offers
      <3>3. \/ n.code \in {"VERSION_CONFLICT", "SLOT_UNAVAILABLE"}
            \/ n.code = "INVALID_STATUS_TRANSITION" /\ ~Editable(b, r.actor, r.at)
            \/ n.code = "ok" /\ Editable(b, r.actor, r.at)
        BY <1>1, <3>1 DEF WritePatch, WriteAttendees
      <3> QED BY <3>2, <3>3
    <2>2. CASE r.op = "cancel"
      <3>1. WriteCancel(q)
        BY <1>2, <2>2 DEF Write, WriteCreate, WritePatch, WriteAttendees, WriteCheckin, WriteDemo,
                          WriteQr, WriteDeactivate, WriteRoom, At
      <3>2. offered <=> Cancellable(b, r.actor, r.at)
        BY <1>0, <2>2, CanAgrees DEF Offers
      <3>3. \/ n.code \in {"already", "INVALID_STATUS_TRANSITION"} /\ ~Cancellable(b, r.actor, r.at)
            \/ n.code = "ok" /\ Cancellable(b, r.actor, r.at)
        BY <1>1, <3>1 DEF WriteCancel
      <3> QED BY <3>2, <3>3
    <2>3. CASE r.op = "checkin"
      <3> DEFINE open == IF r.method = "ADMIN" THEN OpenForAdmin(b.slot, r.at)
                                               ELSE OpenForSelf(b.slot, r.at)
      <3>1. WriteCheckin(q)
        BY <1>2, <2>3 DEF Write, WriteCreate, WritePatch, WriteAttendees, WriteDemo,
                          WriteCancel, WriteQr, WriteDeactivate, WriteRoom, At
      <3>2. \/ n.code \in {"already", "refused"} /\ ~(b.status = "CONFIRMED" /\ open)
            \/ n.code = "ok" /\ b.status = "CONFIRMED" /\ open
        BY <1>1, <3>1 DEF WriteCheckin
      <3>3. /\ r.method \in {"SELF", "ADMIN"}
            /\ r.method = "ADMIN" => r.actor \in Admins
        BY <2>3 DEF RulesInvariant, MethodsChosen
      <3>4. offered <=> b.status = "CONFIRMED" /\ open
        <4>1. (r.method = "SELF") <=> Involved(b, r.actor)
          BY <2>3 DEF Involved
        <4>2. Offers[r.op] = "checkin"
          BY <2>3 DEF Offers
        <4>3. offered <=> /\ b.status = "CONFIRMED"
                          /\ IF Involved(b, r.actor) THEN OpenForSelf(b.slot, r.at)
                             ELSE r.actor \in Admins /\ OpenForAdmin(b.slot, r.at)
          BY <1>0, <4>2, CanAgrees
        <4> QED BY <3>3, <4>1, <4>3
      <3> QED BY <3>2, <3>4
    <2> QED BY <1>0, <2>1, <2>2, <2>3
  <1>3. CASE Abort(q)
    <2>1. CASE Reply(q, "aborted", r.id)
      BY <1>1, <2>1
    <2> DEFINE again == [r EXCEPT !.pc = FirstStep(r.op), !.again = TRUE, !.rooms = {},
                       !.share = {}, !.excl = {}, !.row = FALSE, !.need = {}, !.at = 0]
    <2>2. CASE Becomes(q, again)
      <3>1. again.pc = FirstStep(r.op)
        BY RequestType DEF Request
      <3> HIDE DEF again
      <3>2. n = again
        BY <2>2, StepsAlone
      <3> QED BY <1>0, <3>1, <3>2 DEF FirstStep
    <2> QED BY <1>3, <2>1, <2>2 DEF Abort, Refuse
  <1>4. ~Submit(q) /\ ~Prepare(q)
    BY <1>0 DEF Submit, SubmitCreate, SubmitPatch, SubmitAttendees, SubmitCheckin, SubmitDemo,
                SubmitCancel, SubmitQr, SubmitDeactivate, SubmitRoom, Idle,
                Prepare, Validate, LockKey, ReadHead, LockUsers, LockTarget, ResolveRooms,
                LockRooms, DecideCreate, DecidePatch, DecideDemo, DecisionTime, SelectQr, At
  <1> QED BY <1>0, <1>2, <1>3, <1>4, Walk DEF Others, Answered

\* A write that commits was offered by the page, and one refused was not.
THEOREM PagesAreHonest == Spec => CanIsHonest
  <1>1. TypeOK /\ RulesInvariant /\ [Next]_vars =>
          [\A q \in Requests :
             LET r == req[q]  b == booking[r.id]  offered == Offers[r.op] \in Can(b, r.actor, r.at) IN
             /\ r.op \in DOMAIN Offers /\ Answered(q, r.op) /\ r.pc = "write"
             /\ r.op = "checkin" => (r.method = "SELF") = Involved(b, r.actor)
             => /\ req'[q].code = "ok" => offered
                /\ req'[q].code \in {"INVALID_STATUS_TRANSITION", "already", "refused"} => ~offered]_vars
    BY AnswersHonestly
  <1> QED BY <1>1, RulesKept, PTL DEF Spec, CanIsHonest


----------------------------------------------------------------------------
(* Without the QR check-in, which alone brings a booking back that is over  *)

\* What the step makes of booking i when no QR check-in is about.
Lived(i) ==
    \/ Still(i) \/ Updated(i) \/ CheckedIn(i) \/ Cancelled(i) \/ Released(i) \/ Completed(i)
    \/ \E q \in Requests : \/ Born(q, i) \/ RescheduledTo(q, i) \/ Shifted(q, i) \/ Invited(q, i)

LEMMA LifeWithoutQr ==
  ASSUME "qr" \notin Ops, TypeOK, RulesInvariant, OnlyOps, [Next]_vars, NEW i \in Ids
  PROVE  Lived(i)
  <1>1. \A q \in Requests : ~Scanned(q, i)
    BY DEF OnlyOps, Scanned, At
  <1> QED BY <1>1, Life DEF RulesInvariant, Lives, Lived

LEMMA InitSansQr == Init => TypeOK /\ RulesInvariant /\ OnlyOps
  BY InitType, InitRules, OnlyOpsKept

LEMMA NextSansQr ==
  TypeOK /\ RulesInvariant /\ OnlyOps /\ [Next]_vars => TypeOK' /\ RulesInvariant' /\ OnlyOps'
  BY NextRules, OnlyOpsKept

\* A legal history that gets one more legal event is legal.
LEMMA HistoryGrows ==
  ASSUME NEW h \in Seq(Events), NEW event \in Events, \A n \in 2..Len(h) : MayFollow(h[n - 1], h[n]),
         Len(h) > 0 => MayFollow(h[Len(h)], event)
  PROVE  LET g == Append(h, event) IN
         /\ Len(g) = Len(h) + 1 /\ g[Len(g)] = event
         /\ \A n \in 2..Len(g) : MayFollow(g[n - 1], g[n])
  <1> DEFINE g == Append(h, event)
  <1>1. /\ Len(g) = Len(h) + 1 /\ g[Len(g)] = event /\ Len(h) \in Nat
        /\ \A n \in 1..Len(h) : g[n] = h[n]
    OBVIOUS
  <1> HIDE DEF g
  <1>2. ASSUME NEW n \in 2..Len(g) PROVE MayFollow(g[n - 1], g[n])
    <2>1. CASE n = Len(g)
      <3>1. n - 1 = Len(h) /\ Len(h) > 0 /\ g[n - 1] = h[Len(h)]
        BY <1>1, <1>2, <2>1
      <3> QED BY <1>1, <2>1, <3>1
    <2>2. CASE n # Len(g)
      <3>1. n \in 2..Len(h) /\ g[n - 1] = h[n - 1] /\ g[n] = h[n]
        BY <1>1, <1>2, <2>2
      <3> QED BY <3>1
    <2> QED BY <2>1, <2>2
  <1> QED BY <1>1, <1>2 DEF g

LEMMA HistoriesStep ==
  ASSUME "qr" \notin Ops, TypeOK, RulesInvariant, OnlyOps, Histories, [Next]_vars
  PROVE  Histories'
  <1> DEFINE Told(h, b) == /\ Len(h) = b.version
                           /\ \A n \in 2..Len(h) : MayFollow(h[n - 1], h[n])
                           /\ b.status = "NONE" <=> Len(h) = 0
                           /\ b.status = "CONFIRMED" => Follows[h[Len(h)]] = "edit"
                           /\ b.status = "CHECKED_IN" => Follows[h[Len(h)]] = "in"
  <1> SUFFICES ASSUME NEW i \in Ids PROVE Told(trail'[i], booking'[i])
    BY DEF Histories
  <1>0. /\ Told(trail[i], booking[i]) /\ trail[i] \in Seq(Events)
        /\ Len(trail[i]) \in Nat /\ booking[i].version \in Nat
    BY RowType DEF Histories, TypeOK
  <1>1. CASE Still(i)
    BY <1>0, <1>1 DEF Still
  \* A booking that was there, and what its new event leads to.
  <1>2. ASSUME NEW event \in Events, Grown(i, event),
               \/ booking[i].status = "CONFIRMED" /\ event # "create"
               \/ booking[i].status = "CHECKED_IN" /\ event \in {"cancel", "complete"},
               booking'[i].status # "NONE",
               booking'[i].status = "CONFIRMED" => Follows[event] = "edit",
               booking'[i].status = "CHECKED_IN" => Follows[event] = "in"
        PROVE  Told(trail'[i], booking'[i])
    <2>1. MayFollow(trail[i][Len(trail[i])], event)
      BY <1>0, <1>2 DEF MayFollow
    <2>2. LET g == Append(trail[i], event) IN
          /\ Len(g) = Len(trail[i]) + 1 /\ g[Len(g)] = event
          /\ \A n \in 2..Len(g) : MayFollow(g[n - 1], g[n])
      BY <1>0, <2>1, HistoryGrows
    <2>3. trail'[i] = Append(trail[i], event) /\ booking'[i].version = booking[i].version + 1
      BY <1>2 DEF Grown
    <2> QED BY <1>0, <1>2, <2>2, <2>3
  <1>3. ASSUME NEW q \in Requests, Born(q, i) PROVE Told(trail'[i], booking'[i])
    <2>1. Len(trail[i]) = 0 /\ trail'[i] = Append(trail[i], "create") /\ "create" \in Events
      BY <1>0, <1>3 DEF Born, Events
    <2>2. LET g == Append(trail[i], "create") IN
          /\ Len(g) = Len(trail[i]) + 1 /\ g[Len(g)] = "create"
          /\ \A n \in 2..Len(g) : MayFollow(g[n - 1], g[n])
      BY <1>0, <2>1, HistoryGrows
    <2> QED BY <1>3, <2>1, <2>2 DEF Born, Follows
  <1>4. /\ {"update", "checkin", "cancel", "auto_release", "complete", "reschedule", "demo_shift"}
             \subseteq Events \ {"create"}
        /\ Follows["update"] = "edit" /\ Follows["reschedule"] = "edit"
        /\ Follows["demo_shift"] = "edit" /\ Follows["checkin"] = "in"
    BY DEF Events, Follows
  <1>5. CASE Updated(i) \/ \E q \in Requests : Invited(q, i)
    BY <1>2, <1>4, <1>5 DEF Updated, Invited, Turned
  <1>6. CASE CheckedIn(i) \/ Released(i)
    BY <1>2, <1>4, <1>6 DEF CheckedIn, Released, Turned
  <1>7. CASE Cancelled(i) \/ Completed(i)
    BY <1>2, <1>4, <1>7 DEF Cancelled, Completed, Turned, Live
  <1>8. CASE \E q \in Requests : RescheduledTo(q, i) \/ Shifted(q, i)
    BY <1>2, <1>4, <1>8 DEF RescheduledTo, Shifted, Turned
  <1> QED BY <1>1, <1>3, <1>5, <1>6, <1>7, <1>8, LifeWithoutQr DEF Lived

LEMMA InitHistories == Init => Histories
  <1> SUFFICES ASSUME Init, NEW i \in Ids
               PROVE  LET h == trail[i] IN
                      /\ Len(h) = booking[i].version
                      /\ \A n \in 2..Len(h) : MayFollow(h[n - 1], h[n])
                      /\ booking[i].status = "NONE" <=> Len(h) = 0
                      /\ booking[i].status = "CONFIRMED" => Follows[h[Len(h)]] = "edit"
                      /\ booking[i].status = "CHECKED_IN" => Follows[h[Len(h)]] = "in"
    BY DEF Histories
  <1>1. CASE booking[i] = NoRow /\ trail[i] = <<>>
    BY <1>1 DEF NoRow
  <1>2. CASE trail[i] = <<"create">> /\ booking[i].version = 1 /\ booking[i].status = "CONFIRMED"
    BY <1>2 DEF Follows
  <1>3. \A s : Row(s).version = 1 /\ Row(s).status = "CONFIRMED"
    BY DEF Row, NoRow
  <1> QED BY <1>1, <1>2, <1>3 DEF Init

\* The audit rows of a booking tell a legal life, one row per version.  A QR check-in may write
\* "checkin" behind the end of it.
THEOREM HistoryLegal ==
  ASSUME "qr" \notin Ops
  PROVE  Spec => []LegalHistory
  <1>1. TypeOK /\ RulesInvariant /\ OnlyOps /\ Histories /\ [Next]_vars => Histories'
    BY HistoriesStep
  <1>2. Histories => LegalHistory
    BY DEF Histories, LegalHistory
  <1> QED BY <1>1, <1>2, InitSansQr, InitHistories, NextSansQr, PTL DEF Spec

\* A booking that comes to hold a slot is put there by a writer at its write, into the room it
\* asked for.
LEMMA PutThere ==
  ASSUME NEW i \in Ids, Lived(i), Holds(i)',
         ~Holds(i) \/ booking'[i].slot # booking[i].slot
  PROVE  \E q \in Requests :
           /\ req[q].pc = "write" /\ req[q].op \in {"create", "patch", "demo"}
           /\ booking'[i].slot = req[q].to
           /\ booking'[i].owner = IF req[q].op = "create" THEN req[q].owner ELSE booking[i].owner
           /\ req[q].op # "create" => i = req[q].id
  <1>1. ~Still(i) /\ ~Updated(i) /\ ~CheckedIn(i) /\ ~Cancelled(i) /\ ~Released(i) /\ ~Completed(i)
    BY DEF Holds, Still, Updated, CheckedIn, Cancelled, Released, Completed, Turned, SameSlot, Live
  <1>2. \A q \in Requests : ~Invited(q, i)
    BY DEF Holds, Invited, Turned, SameSlot, Live
  <1> QED BY <1>1, <1>2 DEF Lived, Born, RescheduledTo, Shifted, At, Grown


LEMMA DisabledStep ==
  ASSUME "qr" \notin Ops, TypeOK, TypeOK', RulesInvariant, OnlyOps, DisabledOwnerHoldsNothing,
         [Next]_vars
  PROVE  DisabledOwnerHoldsNothing'
  <1> SUFFICES ASSUME NEW i \in Ids, Holds(i)', disabledAt'[booking'[i].owner] # Never
               PROVE  booking'[i].slot.start <= disabledAt'[booking'[i].owner]
    BY DEF DisabledOwnerHoldsNothing, Active
  <1>0. Lived(i) /\ Lives(i)
    BY LifeWithoutQr, Life DEF RulesInvariant
  <1>1. ASSUME NEW p \in Requests, WriteDeactivate(p)
        PROVE  booking'[i].slot.start <= disabledAt'[booking'[i].owner]
    <2> DEFINE r == req[p]
               doomed == Doomed(r.owner, r.at)
    <2>1. /\ disabledAt' = [disabledAt EXCEPT ![r.owner] = r.at]
          /\ booking'[i] = IF i \in doomed
                             THEN [booking[i] EXCEPT !.status = "CANCELLED", !.version = @ + 1]
                             ELSE booking[i]
      BY <1>1 DEF WriteDeactivate
    <2>2. r.owner \in Users /\ r.at \in Nat /\ booking[i] \in Booking
          /\ booking[i].owner \in Users /\ booking[i].slot.start \in Int
      BY RequestType, RowType DEF Request, Slot
    <2>3. i \notin doomed
      BY <2>1, <2>2 DEF Holds, Live, Booking
    <2>4. booking'[i] = booking[i] /\ Holds(i)
      BY <2>1, <2>3 DEF Holds
    <2>5. CASE booking[i].owner = r.owner
      <3>1. ~(booking[i].slot.start > r.at)
        BY <2>3, <2>4, <2>5 DEF Doomed
      <3>2. disabledAt'[booking[i].owner] = r.at
        BY <2>1, <2>2, <2>5 DEF TypeOK
      <3> QED BY <2>2, <2>4, <3>1, <3>2
    <2>6. CASE booking[i].owner # r.owner
      <3>1. disabledAt'[booking[i].owner] = disabledAt[booking[i].owner]
        BY <2>1, <2>2, <2>6 DEF TypeOK
      <3> QED BY <2>4, <3>1 DEF DisabledOwnerHoldsNothing, Active
    <2> QED BY <2>5, <2>6
  <1>2. CASE UNCHANGED disabledAt
    <2>1. CASE Holds(i) /\ booking'[i].slot = booking[i].slot
      <3>1. booking'[i].owner = booking[i].owner
        BY <1>0, <2>1, Remains DEF Holds, Live
      <3> QED BY <1>2, <2>1, <3>1 DEF DisabledOwnerHoldsNothing, Active
    <2>2. CASE ~Holds(i) \/ booking'[i].slot # booking[i].slot
      <3>1. PICK q \in Requests :
              /\ req[q].pc = "write" /\ req[q].op \in {"create", "patch", "demo"}
              /\ booking'[i].owner = IF req[q].op = "create" THEN req[q].owner ELSE booking[i].owner
              /\ req[q].op # "create" => i = req[q].id
        BY <1>0, <2>2, PutThere
      <3>2. Active(req[q].owner)
        BY <3>1 DEF RulesInvariant, UserLocks
      <3>3. booking'[i].owner = req[q].owner
        BY <3>1 DEF RulesInvariant, OwnersKnown
      <3> QED BY <1>2, <3>2, <3>3 DEF Active
    <2> QED BY <2>1, <2>2
  <1> QED BY <1>1, <1>2, DisabledBy

\* Nothing that was still to start stays with a user who is disabled: whoever puts a booking
\* somewhere holds the owner's row, found active, and the cascade holds it exclusively.
THEOREM DisabledHoldNothing ==
  ASSUME "qr" \notin Ops
  PROVE  Spec => []DisabledOwnerHoldsNothing
  <1>1. Init => DisabledOwnerHoldsNothing
    <2>1. ASSUME Init, NEW i \in Ids PROVE disabledAt[booking[i].owner] = Never
      <3>1. booking[i].owner \in Users
        BY <2>1, InitType, RowType
      <3> QED BY <2>1, <3>1 DEF Init
    <2> QED BY <2>1 DEF DisabledOwnerHoldsNothing, Active
  <1>2. /\ TypeOK /\ TypeOK' /\ RulesInvariant /\ OnlyOps /\ DisabledOwnerHoldsNothing /\ [Next]_vars
        => DisabledOwnerHoldsNothing'
    BY DisabledStep
  <1> QED BY <1>1, <1>2, InitSansQr, NextSansQr, PTL DEF Spec

\* No booking is put into a room that is off at that moment.
THEOREM RoomsEnteredOpen ==
  ASSUME "qr" \notin Ops
  PROVE  Spec => InactiveRoomNeverEntered
  <1>1. TypeOK /\ RulesInvariant /\ OnlyOps /\ [Next]_vars =>
          [\A i \in Ids :
             /\ booking'[i].status \in Live
             /\ ~Holds(i) \/ booking'[i].slot.room # booking[i].slot.room
             => roomOn[booking'[i].slot.room]]_vars
    <2> SUFFICES ASSUME TypeOK, RulesInvariant, OnlyOps, [Next]_vars, NEW i \in Ids,
                        booking'[i].status \in Live,
                        ~Holds(i) \/ booking'[i].slot.room # booking[i].slot.room
                 PROVE  roomOn[booking'[i].slot.room]
      OBVIOUS
    <2>1. Lived(i) /\ Holds(i)' /\ (~Holds(i) \/ booking'[i].slot # booking[i].slot)
      BY LifeWithoutQr DEF Holds
    <2>2. PICK q \in Requests : /\ req[q].pc = "write" /\ req[q].op \in {"create", "patch", "demo"}
                                /\ booking'[i].slot = req[q].to
      BY <2>1, PutThere
    <2> QED BY <2>2 DEF RulesInvariant, RoomsOpen
  <1> QED BY <1>1, InitSansQr, NextSansQr, PTL DEF Spec, InactiveRoomNeverEntered

----------------------------------------------------------------------------
(* What the calendars end at *)

\* No mail to u: what is newest stays so.
LEMMA NewestStays ==
  ASSUME TypeOK, TypeOK', NEW i \in Ids, NEW u, NEW K, Posted(i, K), \A m \in K : m.to # u
  PROVE  Newest(i, u)' = Newest(i, u)
  <1>1. \A m \in outbox \cup outbox' : m \in Mail
    BY DEF TypeOK
  <1>2. ASSUME NEW m, m.id = i, m.to = u, m.tpl \in CalendarMail
        PROVE  m \in outbox' <=> m \in outbox
    BY <1>1, <1>2 DEF Posted
  <1> QED BY <1>2 DEF Newest

\* Mail of the new version is newer than all there was.
LEMMA NewestIsNew ==
  ASSUME TypeOK, TypeOK', MailsDated, NEW i \in Ids, NEW u, NEW K, Posted(i, K),
         K \subseteq Mail, NEW v \in Nat,
         booking[i].status = "NONE" \/ booking[i].version < v,
         \A m \in K : m.id = i /\ m.tpl \in CalendarMail /\ m.key = v,
         \E m \in K : m.to = u
  PROVE  Newest(i, u)' = {m \in K : m.to = u}
  <1>1. \A m \in outbox \cup outbox' : m \in Mail /\ m.key \in Nat
    BY DEF TypeOK, Mail
  <1>2. ASSUME NEW m \in outbox, m.id = i, m.tpl \in CalendarMail PROVE m.key < v
    <2>1. booking[i].status # "NONE" /\ m.key <= booking[i].version
      BY <1>2 DEF MailsDated
    <2> QED BY <1>1, <1>2, <2>1, RowType
  <1>3. ASSUME NEW m, m.id = i, m.tpl \in CalendarMail
        PROVE  m \in outbox' <=> m \in outbox \/ m \in K
    BY <1>1, <1>3 DEF Posted
  <1>4. PICK k \in K : k.to = u
    OBVIOUS
  <1>5. ASSUME NEW m \in Newest(i, u)' PROVE m \in K /\ m.to = u
    <2>1. m \in outbox' /\ m.id = i /\ m.to = u /\ m.tpl \in CalendarMail /\ k.key <= m.key
      BY <1>3, <1>4, <1>5 DEF Newest
    <2>2. m \in outbox \/ m \in K
      BY <1>3, <2>1
    <2>3. k.key = v /\ m.key \in Nat
      BY <1>1, <1>4, <2>1
    <2>4. m \notin outbox
      BY <1>2, <2>1, <2>3
    <2> QED BY <2>1, <2>2, <2>4
  <1>6. ASSUME NEW m \in K, m.to = u PROVE m \in Newest(i, u)'
    <2>1. ASSUME NEW n \in outbox', n.id = i, n.tpl \in CalendarMail PROVE n.key <= m.key
      <3>1. n.key \in Nat /\ (n.key < v \/ n.key = v)
        BY <1>1, <1>2, <1>3, <2>1
      <3> QED BY <1>6, <3>1
    <2> QED BY <1>3, <1>6, <2>1 DEF Newest
  <1> QED BY <1>5, <1>6


\* A step keeps what person u can tell of booking i from the mail, unless u is the owner and on
\* the guest list too: taken off it, the owner of a live booking is told that it is cancelled.
LEMMA ConvergedStep ==
  ASSUME TypeOK, TypeOK', MailsDated, NEW i \in Ids, NEW u \in Users, Lived(i),
         \A q \in Requests : ~Shifted(q, i),
         booking[i].status # "NONE" =>
           Converged(i, u) /\ (u = booking[i].owner => u \notin booking[i].guests)
  PROVE  Converged(i, u)'
  <1> DEFINE b == booking[i]
             c == booking'[i]
             told == Newest(i, u)'
             v == b.version + 1
             Goal == /\ Holds(i)' /\ Involved(c, u) =>
                          \E m \in told : m.tpl \in {"confirmed", "rescheduled"} /\ m.slot = c.slot
                     /\ Holds(i)' /\ ~Involved(c, u) => \A m \in told : m.tpl = "cancelled"
                     /\ c.status \in {"CANCELLED", "AUTO_RELEASED"} /\ u # c.owner =>
                          \A m \in told : m.tpl \in {"cancelled", "auto_released"}
  <1> SUFFICES Goal
    BY DEF Converged
  <1>0. /\ b.version \in Nat /\ b.slot \in Slot /\ b.owner \in Users /\ b.guests \in SUBSET Users
        /\ c.slot \in Slot /\ c.owner \in Users /\ c.guests \in SUBSET Users
        /\ b.version < v /\ v \in Nat
    BY RowType DEF TypeOK, Booking
  <1>1. ASSUME NEW K, Posted(i, K), \A m \in K : m.to # u PROVE told = Newest(i, u)
    BY <1>1, NewestStays
  <1>2. ASSUME NEW us \in SUBSET Users, NEW tpl \in CalendarMail, NEW s \in Slot, u \in us,
               NEW key \in Nat, b.status = "NONE" \/ b.version < key,
               Posted(i, MailTo(us, i, tpl, key, s))
        PROVE  told = {[id |-> i, tpl |-> tpl, key |-> key, to |-> u, slot |-> s]}
    <2> DEFINE K == MailTo(us, i, tpl, key, s)
               k == [id |-> i, tpl |-> tpl, key |-> key, to |-> u, slot |-> s]
    <2>1. K \subseteq Mail /\ k \in K /\ k.to = u
      BY <1>2 DEF MailTo, Mail, Templates, CalendarMail
    <2>2. \A m \in K : m.id = i /\ m.tpl \in CalendarMail /\ m.key = key
      BY MailToFields
    <2>3. told = {m \in K : m.to = u}
      <3> HIDE DEF K, k
      <3> QED BY <1>2, <2>1, <2>2, NewestIsNew DEF K
    <2>4. \A m \in K : m.to = u => m = k
      BY DEF MailTo
    <2> QED BY <2>1, <2>3, <2>4
  <1>3. ASSUME NEW us, NEW tpl, NEW key, NEW s, u \notin us, Posted(i, MailTo(us, i, tpl, key, s))
        PROVE  told = Newest(i, u)
    BY <1>1, <1>3, MailToFields
  \* No mail to u about a booking whose window, owner and guests stay.
  <1>4. ASSUME b.status # "NONE", told = Newest(i, u), c.slot = b.slot, Involved(c, u) <=> Involved(b, u),
               c.owner = b.owner, Holds(i)' => Holds(i),
               c.status \in {"CANCELLED", "AUTO_RELEASED"} /\ u # c.owner =>
                  \/ c.status = b.status
                  \/ Holds(i) /\ ~Involved(b, u)
        PROVE  Goal
    BY <1>4 DEF Converged
  <1> HIDE DEF Goal
  <1>5. CASE Still(i)
    <2>1. told = Newest(i, u)
      BY <1>5, <1>1 DEF Still, Unmailed
    <2>2. CASE b.status # "NONE"
      BY <1>4, <1>5, <2>1, <2>2 DEF Still, Holds
    <2>3. CASE b.status = "NONE"
      BY <1>5, <2>3 DEF Still, Holds, Live, Goal
    <2> QED BY <2>2, <2>3
  <1>6. CASE Updated(i) \/ CheckedIn(i) \/ Completed(i)
    <2>1. told = Newest(i, u)
      BY <1>6, <1>1 DEF Updated, CheckedIn, Completed, Unmailed
    <2>2. /\ b.status # "NONE" /\ c.slot = b.slot /\ c.guests = b.guests /\ c.owner = b.owner
          /\ c.status \notin {"CANCELLED", "AUTO_RELEASED"} /\ Holds(i)
      BY <1>6 DEF Updated, CheckedIn, Completed, Grown, Turned, SameSlot, SameGuests, Holds, Live
    <2> QED BY <1>4, <2>1, <2>2 DEF Involved
  <1>7. ASSUME NEW q \in Requests, Born(q, i) PROVE Goal
    <2> DEFINE us == {c.owner} \cup c.guests
    <2>1. /\ Posted(i, MailTo(us, i, "confirmed", 1, c.slot)) /\ b.status = "NONE"
          /\ c.status = "CONFIRMED"
      BY <1>7 DEF Born
    <2>2. CASE u \in us
      <3>0. us \in SUBSET Users /\ c.slot \in Slot /\ 1 \in Nat /\ "confirmed" \in CalendarMail
        BY <1>0 DEF CalendarMail
      <3> HIDE DEF us
      <3>1. told = {[id |-> i, tpl |-> "confirmed", key |-> 1, to |-> u, slot |-> c.slot]}
        BY <1>2, <2>1, <2>2, <3>0
      <3> USE DEF us
      <3> QED BY <2>1, <2>2, <3>1 DEF Goal, Involved
    <2>3. CASE u \notin us
      <3>1. told = Newest(i, u)
        BY <1>3, <2>1, <2>3
      <3>2. Newest(i, u) = {}
        BY <2>1 DEF Newest, MailsDated
      <3> QED BY <2>1, <2>3, <3>1, <3>2 DEF Goal, Involved
    <2> QED BY <2>2, <2>3
  <1>8. ASSUME NEW q \in Requests, RescheduledTo(q, i) PROVE Goal
    <2>1. /\ Posted(i, MailTo(People(i), i, "rescheduled", v, c.slot))
          /\ b.status = "CONFIRMED" /\ c.status = "CONFIRMED"
          /\ c.owner = b.owner /\ c.guests = b.guests
      BY <1>8 DEF RescheduledTo, Grown, Turned, SameGuests
    <2>2. CASE u \in People(i)
      <3>1. told = {[id |-> i, tpl |-> "rescheduled", key |-> v, to |-> u, slot |-> c.slot]}
        BY <1>0, <1>2, <2>1, <2>2 DEF CalendarMail, People
      <3> QED BY <2>1, <2>2, <3>1 DEF Goal, Involved, People
    <2>3. CASE u \notin People(i)
      <3>1. told = Newest(i, u)
        BY <1>3, <2>1, <2>3
      <3>2. Holds(i) /\ ~Involved(b, u) /\ ~Involved(c, u)
        BY <2>1, <2>3 DEF People, Involved, Holds, Live
      <3> QED BY <2>1, <3>1, <3>2 DEF Goal, Converged
    <2> QED BY <2>2, <2>3
  <1>9. ASSUME NEW q \in Requests, Invited(q, i) PROVE Goal
    <2> DEFINE new == c.guests \ b.guests
               gone == b.guests \ c.guests
               K == MailTo(new, i, "confirmed", v, b.slot) \cup MailTo(gone, i, "cancelled", v, b.slot)
               in == [id |-> i, tpl |-> "confirmed", key |-> v, to |-> u, slot |-> b.slot]
               out == [id |-> i, tpl |-> "cancelled", key |-> v, to |-> u, slot |-> b.slot]
    <2>1. /\ Posted(i, K) /\ b.status = "CONFIRMED" /\ c.status = "CONFIRMED"
          /\ c.owner = b.owner /\ c.slot = b.slot
      BY <1>9 DEF Invited, Grown, Turned, SameSlot
    <2>2. \A m \in K : m.id = i /\ m.tpl \in CalendarMail /\ m.key = v
      BY MailToFields DEF CalendarMail
    <2>3. K \subseteq Mail
      BY <1>0 DEF MailTo, Mail, Templates
    <2>4. \A m \in K : m.to = u <=> (m = in /\ u \in new) \/ (m = out /\ u \in gone)
      BY DEF MailTo
    <2>5. (u \in new => in \in K /\ in.to = u) /\ (u \in gone => out \in K /\ out.to = u)
      BY DEF MailTo
    <2> HIDE DEF K, in, out
    <2>6. CASE u \in new \cup gone
      <3>1. told = {m \in K : m.to = u}
        BY <1>0, <2>1, <2>2, <2>3, <2>5, <2>6, NewestIsNew
      <3>2. CASE u \in new
        <4>1. told = {in} /\ in.tpl = "confirmed" /\ in.slot = c.slot
          BY <2>1, <2>4, <2>5, <3>1, <3>2 DEF in
        <4> QED BY <2>1, <3>2, <4>1 DEF Goal, Involved
      <3>3. CASE u \in gone
        <4>1. told = {out} /\ out.tpl = "cancelled"
          BY <2>4, <2>5, <3>1, <3>3 DEF out
        <4>2. ~Involved(c, u)
          BY <2>1, <3>3 DEF Involved
        <4> QED BY <2>1, <4>1, <4>2 DEF Goal
      <3> QED BY <2>6, <3>2, <3>3
    <2>7. CASE u \notin new \cup gone
      <3>1. told = Newest(i, u)
        <4>1. \A m \in K : m.to # u
          BY <2>4, <2>7
        <4> QED BY <1>1, <2>1, <4>1
      <3>2. Holds(i) /\ (Involved(c, u) <=> Involved(b, u))
        BY <2>1, <2>7 DEF Involved, Holds, Live
      <3> QED BY <1>4, <2>1, <3>1, <3>2
    <2> QED BY <2>6, <2>7
  <1>10. CASE Cancelled(i)
    <2>1. PICK us \in SUBSET Users, s \in Slot :
            b.guests \subseteq us /\ Posted(i, MailTo(us, i, "cancelled", v, s))
      BY <1>10 DEF Cancelled
    <2>2. b.status \in Live /\ c.status = "CANCELLED" /\ c.owner = b.owner
      BY <1>10 DEF Cancelled, Turned, Grown
    <2>3. CASE u \in us
      <3>1. told = {[id |-> i, tpl |-> "cancelled", key |-> v, to |-> u, slot |-> s]}
        BY <1>0, <1>2, <2>1, <2>3 DEF CalendarMail
      <3> QED BY <2>2, <3>1 DEF Goal, Holds, Live
    <2>4. CASE u \notin us
      <3>1. told = Newest(i, u)
        BY <1>3, <2>1, <2>4
      <3>2. u # c.owner => Holds(i) /\ ~Involved(b, u)
        BY <2>1, <2>2, <2>4 DEF Holds, Involved
      <3> QED BY <2>2, <3>1, <3>2 DEF Goal, Converged, Holds, Live
    <2> QED BY <2>3, <2>4
  <1>11. CASE Released(i)
    <2>1. /\ Posted(i, MailTo(People(i), i, "auto_released", v, b.slot))
          /\ b.status = "CONFIRMED" /\ c.status = "AUTO_RELEASED" /\ c.owner = b.owner
      BY <1>11 DEF Released, Grown, Turned
    <2>2. CASE u \in People(i)
      <3>1. told = {[id |-> i, tpl |-> "auto_released", key |-> v, to |-> u, slot |-> b.slot]}
        BY <1>0, <1>2, <2>1, <2>2 DEF CalendarMail, People
      <3> QED BY <2>1, <3>1 DEF Goal, Holds, Live
    <2>3. CASE u \notin People(i)
      <3>1. told = Newest(i, u)
        BY <1>3, <2>1, <2>3
      <3>2. Holds(i) /\ ~Involved(b, u)
        BY <2>1, <2>3 DEF People, Involved, Holds, Live
      <3> QED BY <2>1, <3>1, <3>2 DEF Goal, Converged, Holds, Live
    <2> QED BY <2>2, <2>3
  <1> QED BY <1>5, <1>6, <1>7, <1>8, <1>9, <1>10, <1>11 DEF Lived


LEMMA InitConverged == ASSUME Init, NEW i \in Ids, NEW u \in Users PROVE Converged(i, u)
  <1> DEFINE b == booking[i]
  <1>1. ASSUME Seeded(i) = {} PROVE Converged(i, u)
    <2>1. b.status = "NONE"
      BY <1>1 DEF Init, NoRow
    <2> QED BY <2>1 DEF Converged, Holds, Live
  <1>2. ASSUME Seeded(i) # {} PROVE Converged(i, u)
    <2> DEFINE s == CHOOSE x \in Seed : x.id = i
    <2>1. s \in Seed /\ s.id = i /\ b = Row(s)
      BY <1>2 DEF Init, Seeded
    <2> HIDE DEF s
    <2>2. /\ b.slot = s.slot /\ b.owner = s.owner /\ b.guests = s.guests /\ b.status = "CONFIRMED"
      BY <2>1 DEF Row, NoRow
    <2>3. ASSUME NEW m \in outbox, m.id = i
          PROVE  m.tpl = "confirmed" /\ m.key = 1 /\ m.slot = b.slot /\ Involved(b, m.to)
      <3>1. PICK t \in Seed : /\ m.id = t.id /\ m.tpl = "confirmed" /\ m.key = 1
                              /\ m.to \in {t.owner} \cup t.guests /\ m.slot = t.slot
        BY InitMails
      <3>2. t = s
        BY <2>1, <2>3, <3>1, SeedAssumption
      <3> QED BY <2>2, <3>1, <3>2 DEF Involved
    <2>4. ASSUME Involved(b, u)
          PROVE  \E m \in Newest(i, u) : m.tpl \in {"confirmed", "rescheduled"} /\ m.slot = b.slot
      <3> DEFINE k == [id |-> i, tpl |-> "confirmed", key |-> 1, to |-> u, slot |-> s.slot]
      <3>1. k \in MailTo({s.owner} \cup s.guests, s.id, "confirmed", 1, s.slot)
        BY <2>1, <2>2, <2>4 DEF MailTo, Involved
      <3>2. k \in outbox
        BY <2>1, <3>1 DEF Init
      <3>3. \A n \in outbox : n.id = i => n.key <= k.key
        BY <2>3
      <3>4. k \in Newest(i, u)
        BY <3>2, <3>3 DEF Newest, CalendarMail
      <3> QED BY <2>2, <3>4
    <2>5. ASSUME ~Involved(b, u) PROVE Newest(i, u) = {}
      BY <2>3, <2>5 DEF Newest
    <2> QED BY <2>2, <2>4, <2>5 DEF Converged
  <1> QED BY <1>1, <1>2

LEMMA NothingShifted ==
  ASSUME "demo" \notin Ops, OnlyOps, NEW i \in Ids PROVE \A q \in Requests : ~Shifted(q, i)
  BY DEF OnlyOps, Shifted, At

\* Everybody but its owner is told the truth about a booking.  The demo shift moves a booking and
\* tells nobody.
THEOREM GuestsAreTold ==
  ASSUME "qr" \notin Ops, "demo" \notin Ops
  PROVE  Spec => []GuestsConverge
  <1>1. Init => GuestsConverge
    BY InitConverged DEF GuestsConverge
  <1>2. ASSUME TypeOK, TypeOK', RulesInvariant, OnlyOps, GuestsConverge, [Next]_vars
        PROVE  GuestsConverge'
    <2> SUFFICES ASSUME NEW i \in Ids, NEW u \in Users, u # booking'[i].owner
                 PROVE  Converged(i, u)'
      BY DEF GuestsConverge
    <2>1. Lived(i) /\ Lives(i)
      BY <1>2, LifeWithoutQr, Life DEF RulesInvariant
    <2>2. booking[i].status # "NONE" => u # booking[i].owner /\ Converged(i, u)
      BY <1>2, <2>1, Remains DEF GuestsConverge
    <2> QED BY <1>2, <2>1, <2>2, NothingShifted, ConvergedStep DEF RulesInvariant
  <1> QED BY <1>1, <1>2, InitSansQr, NextSansQr, PTL DEF Spec

\* So is the owner, as long as nobody lists the owner as a guest.
THEOREM CalendarsAreTold ==
  ASSUME "qr" \notin Ops, "demo" \notin Ops
  PROVE  Spec /\ []OwnersAreNoGuests => []CalendarsConverge
  <1>1. Init => CalendarsConverge
    BY InitConverged DEF CalendarsConverge
  <1>2. ASSUME TypeOK, TypeOK', RulesInvariant, OnlyOps, OwnersAreNoGuests, CalendarsConverge,
               [Next]_vars
        PROVE  CalendarsConverge'
    <2> SUFFICES ASSUME NEW i \in Ids, NEW u \in Users PROVE Converged(i, u)'
      BY DEF CalendarsConverge
    <2>1. Lived(i)
      BY <1>2, LifeWithoutQr
    <2>2. Converged(i, u) /\ (u = booking[i].owner => u \notin booking[i].guests)
      BY <1>2 DEF CalendarsConverge, OwnersAreNoGuests
    <2> QED BY <1>2, <2>1, <2>2, NothingShifted, ConvergedStep DEF RulesInvariant
  <1> QED BY <1>1, <1>2, InitSansQr, NextSansQr, PTL DEF Spec
=============================================================================
