--------------------------- MODULE BookingTxProofs ---------------------------
(***************************************************************************)
(* Proofs about BookingTx, for every value of its constants: every         *)
(* variable keeps its type, BookingTx keeps the gap and implements the     *)
(* calendar of rooms, and two bookings never overlap.                      *)
(*                                                                         *)
(* Type correctness has one lemma per action, after a few about the        *)
(* records and the operators the actions are built from.                   *)
(***************************************************************************)
EXTENDS BookingGap, TLAPS

----------------------------------------------------------------------------
(* The values the actions are built from *)

LEMMA AnyType == AnyRoom \in Rooms /\ AnyUser \in Users /\ AnyId \in Ids
  BY NamesAssumption DEF AnyRoom, AnyUser, AnyId
LEMMA DefaultsType == NoSlot \in Slot /\ NoRow \in Booking /\ NoRequest \in Request
  <1>1. NoSlot \in Slot
    BY AnyType DEF NoSlot, Slot
  <1>2. NoRow \in Booking
    BY <1>1, AnyType DEF NoRow, Booking, Status
  <1>3. NoRequest \in Request
    BY <1>1, AnyType DEF NoRequest, Request, Codes, Pcs
  <1> QED BY <1>1, <1>2, <1>3
LEMMA RequestType == TypeOK => \A q \in Requests : req[q] \in Request /\ req[q].id \in Ids
  BY DEF TypeOK, Request
LEMMA PriorType == ASSUME NEW a, NEW k, Prior(a, k) # {} PROVE PriorId(a, k) \in Ids
  BY DEF Prior, PriorId
LEMMA BecomesType ==
  ASSUME TypeOK, NEW q \in Requests, NEW r \in Request, Becomes(q, r)
  PROVE  req' \in [Requests -> Request]
  BY DEF TypeOK, Becomes
LEMMA ReplyType ==
  ASSUME TypeOK, NEW q \in Requests, NEW code \in Codes, NEW i \in Ids, Reply(q, code, i)
  PROVE  req' \in [Requests -> Request]
  <1>1. [NoRequest EXCEPT !.op = req[q].op, !.pc = "done", !.actor = req[q].actor,
                          !.key = req[q].key, !.id = i, !.code = code] \in Request
    BY RequestType, DefaultsType DEF Request, Pcs
  <1> QED BY <1>1, BecomesType DEF Reply
LEMMA StepType ==
  ASSUME TypeOK, Unwritten, req' \in [Requests -> Request]
  PROVE  TypeOK'
  BY DEF TypeOK, Unwritten
----------------------------------------------------------------------------
(* A request is sent *)

LEMMA VersionType == ASSUME TypeOK, NEW i \in Ids PROVE 1..booking[i].version \subseteq Nat
  BY DEF TypeOK, Booking

LEMMA SpanType ==
  ASSUME NEW r \in Rooms, NEW w \in Spans
  PROVE  AskedSlot(r, w) \in Slot /\ w[1] \in Nat /\ w[2] \in Nat /\ w[1] < w[2]
  BY InputsAssumption DEF AskedSlot, Slot

LEMMA SubmitCreateType == ASSUME TypeOK, NEW q \in Requests, SubmitCreate(q) PROVE TypeOK'
  <1>1. PICK a \in Users, o \in Users, k \in Keys, r \in Rooms, w \in Spans, g \in GuestLists :
          /\ Active(a)
          /\ o = a \/ a \in Admins
          /\ Becomes(q, AskCreate(a, o, k, AskedSlot(r, w), g))
    BY Zenon DEF SubmitCreate
  <1>2. [NoRequest EXCEPT !.op = "create", !.pc = "validate", !.actor = a,
             !.owner = o, !.key = k, !.to = AskedSlot(r, w), !.guests = g] \in Request
    BY SpanType, InputsAssumption, DefaultsType DEF Request, Pcs, AllOps
  <1>3. ASSUME Prior(a, k) # {}
        PROVE  [NoRequest EXCEPT !.op = "create", !.pc = "done", !.actor = a, !.key = k,
                   !.id = PriorId(a, k), !.code = "replay"] \in Request
    BY <1>3, PriorType, DefaultsType DEF Request, Pcs, Codes, AllOps
  <1>4. AskCreate(a, o, k, AskedSlot(r, w), g) \in Request
    BY <1>2, <1>3 DEF AskCreate
  <1> QED BY <1>1, <1>4, BecomesType, StepType DEF SubmitCreate

LEMMA TargetType ==
  ASSUME TypeOK, NEW i \in Ids, NEW asked, NEW r \in Rooms, NEW w \in Spans
  PROVE  Target(booking[i], asked, r, w) \in Slot
  <1>1. booking[i].slot \in Slot
    BY DEF TypeOK, Booking
  <1> QED BY <1>1, SpanType DEF Slot, Target

LEMMA SubmitPatchType == ASSUME TypeOK, NEW q \in Requests, SubmitPatch(q) PROVE TypeOK'
  <1>1. PICK a \in Users, i \in Ids, r \in Rooms, w \in Spans, asked \in SUBSET {"room", "time"} :
          LET b == booking[i]  to == Target(b, asked, r, w) IN
          /\ Active(a)
          /\ b.status # "NONE"
          /\ b.owner = a \/ a \in Admins
          /\ to # b.slot => to.start >= now + MinLead
          /\ \E v \in 1..b.version : Becomes(q, AskPatch(a, i, v, asked, to))
    BY Zenon DEF SubmitPatch
  <1>2. /\ Target(booking[i], asked, r, w) \in Slot
        /\ booking[i].owner \in Users /\ booking[i].slot \in Slot
    BY TargetType DEF TypeOK, Booking
  <1>3. \A v \in Nat, to \in Slot : AskPatch(a, i, v, asked, to) \in Request
    <2> TAKE v \in Nat, to \in Slot
    <2> HIDE DEF Slot
    <2> QED BY <1>2, DefaultsType DEF Request, Pcs, AllOps, AskPatch
  <1> QED BY <1>1, <1>2, <1>3, VersionType, BecomesType, StepType DEF SubmitPatch

LEMMA SubmitHeadType ==
  ASSUME TypeOK, NEW q \in Requests,
         SubmitAttendees(q) \/ SubmitCheckin(q) \/ SubmitDemo(q)
  PROVE  TypeOK'
  <1>1. CASE SubmitAttendees(q)
    <2>1. PICK a \in Users, i \in Ids, g \in GuestLists, v \in Nat :
       Becomes(q, [NoRequest EXCEPT !.op = "attendees", !.pc = "head",
                        !.actor = a, !.id = i, !.ver = v, !.guests = g])
      BY <1>1, VersionType, ZenonT(30) DEF SubmitAttendees
    <2>2. [NoRequest EXCEPT !.op = "attendees", !.pc = "head",
                        !.actor = a, !.id = i, !.ver = v, !.guests = g] \in Request
      BY DefaultsType, InputsAssumption DEF Request, Pcs, AllOps
    <2> QED BY <1>1, <2>1, <2>2, BecomesType, StepType DEF SubmitAttendees
  <1>2. CASE SubmitCheckin(q)
    <2>1. PICK a \in Users, i \in Ids, m \in {"SELF", "ADMIN"} :
       Becomes(q, [NoRequest EXCEPT !.op = "checkin", !.pc = "head",
                      !.actor = a, !.id = i, !.method = m])
      BY <1>2 DEF SubmitCheckin
    <2>2. [NoRequest EXCEPT !.op = "checkin", !.pc = "head",
                      !.actor = a, !.id = i, !.method = m] \in Request
      BY DefaultsType DEF Request, Pcs, AllOps
    <2> QED BY <1>2, <2>1, <2>2, BecomesType, StepType DEF SubmitCheckin
  <1>3. CASE SubmitDemo(q)
    <2>1. PICK a \in Users, i \in Ids, v \in Nat :
       Becomes(q, [NoRequest EXCEPT !.op = "demo", !.pc = "head",
                        !.actor = a, !.id = i, !.ver = v])
      BY <1>3, VersionType, ZenonT(30) DEF SubmitDemo
    <2>2. [NoRequest EXCEPT !.op = "demo", !.pc = "head",
                        !.actor = a, !.id = i, !.ver = v] \in Request
      BY DefaultsType DEF Request, Pcs, AllOps
    <2> QED BY <1>3, <2>1, <2>2, BecomesType, StepType DEF SubmitDemo
  <1> QED BY <1>1, <1>2, <1>3

LEMMA SubmitOtherType ==
  ASSUME TypeOK, NEW q \in Requests,
         SubmitCancel(q) \/ SubmitQr(q) \/ SubmitDeactivate(q) \/ SubmitRoom(q)
  PROVE  TypeOK'
  <1>1. CASE SubmitCancel(q)
    <2>1. PICK a \in Users, i \in Ids, pc \in {"users", "done"},
                code \in {"-", "already", "INVALID_STATUS_TRANSITION"} :
       Becomes(q, [NoRequest EXCEPT !.op = "cancel", !.actor = a, !.id = i,
                !.pc = pc, !.code = code, !.owner = booking[i].owner, !.head = booking[i].slot])
      BY <1>1 DEF SubmitCancel
    <2>2. booking[i].owner \in Users /\ booking[i].slot \in Slot
      BY DEF TypeOK, Booking
    <2>3. [NoRequest EXCEPT !.op = "cancel", !.actor = a, !.id = i,
             !.pc = pc, !.code = code, !.owner = booking[i].owner, !.head = booking[i].slot]
             \in Request
      BY <2>2, DefaultsType DEF Request, Pcs, Codes, AllOps
    <2> QED BY <1>1, <2>1, <2>3, BecomesType, StepType DEF SubmitCancel
  <1>2. CASE SubmitQr(q)
    <2>1. PICK a \in Users, r \in Rooms :
       Becomes(q, [NoRequest EXCEPT !.op = "qr", !.pc = "users",
                      !.actor = a, !.owner = a, !.to.room = r])
      BY <1>2 DEF SubmitQr
    <2>2. [NoRequest EXCEPT !.op = "qr", !.pc = "users",
                      !.actor = a, !.owner = a, !.to.room = r] \in Request
      BY DefaultsType DEF Request, Pcs, AllOps, Slot
    <2> QED BY <1>2, <2>1, <2>2, BecomesType, StepType DEF SubmitQr
  <1>3. CASE SubmitDeactivate(q)
    <2>1. PICK a \in Admins, u \in Users :
       Becomes(q, [NoRequest EXCEPT !.op = "deactivate", !.pc = "users",
                      !.actor = a, !.owner = u])
      BY <1>3 DEF SubmitDeactivate
    <2>2. [NoRequest EXCEPT !.op = "deactivate", !.pc = "users",
                      !.actor = a, !.owner = u] \in Request
      BY DefaultsType, NamesAssumption DEF Request, Pcs, AllOps
    <2> QED BY <1>3, <2>1, <2>2, BecomesType, StepType DEF SubmitDeactivate
  <1>4. CASE SubmitRoom(q)
    <2>1. PICK a \in Admins, r \in Rooms :
       Becomes(q, [NoRequest EXCEPT !.op = "room", !.pc = "rooms",
                      !.actor = a, !.to.room = r])
      BY <1>4 DEF SubmitRoom
    <2>2. [NoRequest EXCEPT !.op = "room", !.pc = "rooms",
                      !.actor = a, !.to.room = r] \in Request
      BY DefaultsType, NamesAssumption DEF Request, Pcs, AllOps, Slot
    <2> QED BY <1>4, <2>1, <2>2, BecomesType, StepType DEF SubmitRoom
  <1> QED BY <1>1, <1>2, <1>3, <1>4
----------------------------------------------------------------------------
(* A request takes its locks and decides *)

LEMMA ValidateType ==
  ASSUME TypeOK, NEW q \in Requests, Validate(q) \/ LockKey(q)
  PROVE  TypeOK'
  <1>1. CASE /\ Prior(req[q].actor, req[q].key) # {}
             /\ Reply(q, "replay", PriorId(req[q].actor, req[q].key))
    <2>1. "replay" \in Codes
      BY DEF Codes
    <2> QED BY <1>1, <2>1, PriorType, ReplyType, StepType DEF Validate, LockKey
  <1>2. CASE Reply(q, "refused", req[q].id)
    <2>1. "refused" \in Codes
      BY DEF Codes
    <2> QED BY <1>2, <2>1, ReplyType, RequestType, StepType DEF Validate, LockKey
  <1>3. CASE \E pc \in {"idem", "users"} : Becomes(q, [req[q] EXCEPT !.pc = pc])
    <2>1. \A pc \in {"idem", "users"} : [req[q] EXCEPT !.pc = pc] \in Request
      BY RequestType DEF Request, Pcs
    <2> QED BY <1>3, <2>1, BecomesType, StepType DEF Validate, LockKey
  <1> QED BY <1>1, <1>2, <1>3 DEF Validate, LockKey

LEMMA ReadHeadType == ASSUME TypeOK, NEW q \in Requests, ReadHead(q) PROVE TypeOK'
  <1>0. req[q] \in Request
    BY RequestType
  <1>1. booking[req[q].id].owner \in Users /\ booking[req[q].id].slot \in Slot
    BY RequestType DEF TypeOK, Booking
  <1>2. \A o \in Users, h \in Slot :
          [req[q] EXCEPT !.pc = "users", !.owner = o, !.head = h] \in Request
    BY <1>0 DEF Request, Pcs
  <1> QED BY <1>1, <1>2, BecomesType, StepType DEF ReadHead

LEMMA LockUsersType == ASSUME TypeOK, NEW q \in Requests, LockUsers(q) PROVE TypeOK'
  <1>0. "refused" \in Codes /\ req[q] \in Request /\ req[q].id \in Ids
    BY RequestType DEF Codes
  <1>1. CASE Reply(q, "refused", req[q].id)
    BY <1>0, <1>1, ReplyType, StepType DEF LockUsers
  <1>2. CASE \E us \in SUBSET Users : Becomes(q, [req[q] EXCEPT !.pc = "rooms", !.share = us])
    <2>1. \A us \in SUBSET Users : [req[q] EXCEPT !.pc = "rooms", !.share = us] \in Request
      BY <1>0 DEF Request, Pcs
    <2> QED BY <1>2, <2>1, BecomesType, StepType DEF LockUsers
  <1>3. {req[q].actor, req[q].owner} \in SUBSET Users
    BY <1>0 DEF Request
  <1>4. {u \in {req[q].actor, req[q].owner} : Active(u)} \in SUBSET Users
    BY <1>3
  <1> QED BY <1>1, <1>2, <1>3, <1>4 DEF LockUsers

LEMMA LockTargetType == ASSUME TypeOK, NEW q \in Requests, LockTarget(q) PROVE TypeOK'
  <1>0. {"refused", "already"} \subseteq Codes /\ req[q] \in Request /\ req[q].id \in Ids
    BY RequestType DEF Codes
  <1>1. CASE Reply(q, "refused", req[q].id) \/ Reply(q, "already", req[q].id)
    BY <1>0, <1>1, ReplyType, StepType DEF LockTarget
  <1>2. CASE Becomes(q, [req[q] EXCEPT !.excl = {req[q].owner}, !.pc = "resolve"])
    <2>1. [req[q] EXCEPT !.excl = {req[q].owner}, !.pc = "resolve"] \in Request
      BY <1>0 DEF Request, Pcs
    <2> QED BY <1>2, <2>1, BecomesType, StepType DEF LockTarget
  <1> QED BY <1>1, <1>2 DEF LockTarget

LEMMA ResolveRoomsType == ASSUME TypeOK, NEW q \in Requests, ResolveRooms(q) PROVE TypeOK'
  <1>1. {booking[i].slot.room : i \in Doomed(req[q].owner, now)} \in SUBSET Rooms
    BY DEF TypeOK, Booking, Slot, Doomed
  <1>0. req[q] \in Request
    BY RequestType
  <1>2. \A rs \in SUBSET Rooms : [req[q] EXCEPT !.need = rs, !.pc = "rooms"] \in Request
    BY <1>0 DEF Request, Pcs
  <1> QED BY <1>1, <1>2, BecomesType, StepType DEF ResolveRooms

LEMMA LockRoomsType == ASSUME TypeOK, NEW q \in Requests, LockRooms(q) PROVE TypeOK'
  <1>1. NeededRooms(req[q]) \in SUBSET Rooms
    BY RequestType DEF Request, Slot, NeededRooms
  <1>0. req[q] \in Request
    BY RequestType
  <1>2. \A rs \in SUBSET Rooms : [req[q] EXCEPT !.rooms = rs, !.pc = "decide"] \in Request
    BY <1>0 DEF Request, Pcs
  <1> QED BY <1>1, <1>2, BecomesType, StepType DEF LockRooms

LEMMA DecideType ==
  ASSUME TypeOK, NEW q \in Requests, DecideCreate(q) \/ DecidePatch(q) \/ DecisionTime(q)
  PROVE  TypeOK'
  <1>0. /\ {"refused", "SLOT_UNAVAILABLE"} \subseteq Codes
        /\ req[q] \in Request /\ req[q].id \in Ids /\ now \in Nat
    BY RequestType DEF Codes, TypeOK
  <1>1. CASE \E code \in {"refused", "SLOT_UNAVAILABLE"} : Reply(q, code, req[q].id)
    BY <1>0, <1>1, ReplyType, StepType DEF DecideCreate, DecidePatch, DecisionTime
  <1>2. CASE \E pc \in {"write", "select"} : Becomes(q, [req[q] EXCEPT !.at = now, !.pc = pc])
    <2>1. \A pc \in {"write", "select"} : [req[q] EXCEPT !.at = now, !.pc = pc] \in Request
      BY <1>0 DEF Request, Pcs
    <2> QED BY <1>2, <2>1, BecomesType, StepType DEF DecideCreate, DecidePatch, DecisionTime
  <1>3. CASE Becomes(q, [req[q] EXCEPT !.row = TRUE, !.at = now, !.pc = "write"])
    <2>1. [req[q] EXCEPT !.row = TRUE, !.at = now, !.pc = "write"] \in Request
      BY <1>0 DEF Request, Pcs
    <2> QED BY <1>3, <2>1, BecomesType, StepType DEF DecideCreate, DecidePatch, DecisionTime
  <1> QED BY <1>1, <1>2, <1>3 DEF DecideCreate, DecidePatch, DecisionTime

LEMMA DemoStartType == ASSUME NEW t \in Nat, NEW len PROVE DemoStart(t, len) \in Int
  BY SettingsAssumption DEF DemoStart, OnGrid

LEMMA DecideDemoType == ASSUME TypeOK, NEW q \in Requests, DecideDemo(q) PROVE TypeOK'
  <1> DEFINE b == booking[req[q].id]
             len == b.slot.end - b.slot.start
             start == DemoStart(now, len)
             to == [b.slot EXCEPT !.start = start, !.end = start + len]
  <1>0. /\ {"refused", "SLOT_UNAVAILABLE", "VERSION_CONFLICT",
            "INVALID_STATUS_TRANSITION"} \subseteq Codes
        /\ req[q] \in Request /\ req[q].id \in Ids /\ now \in Nat
    BY RequestType DEF Codes, TypeOK
  <1>1. b.slot \in Slot
    BY <1>0 DEF TypeOK, Booking
  <1>2. to \in Slot
    <2>1. start \in Int
      BY <1>0, DemoStartType
    <2>2. len \in Int
      BY <1>1 DEF Slot
    <2>3. \A x, y \in Int : [b.slot EXCEPT !.start = x, !.end = y] \in Slot
      BY <1>1 DEF Slot
    <2>4. start + len \in Int
      BY <2>1, <2>2
    <2> HIDE DEF start, len, b
    <2> QED BY <2>1, <2>3, <2>4
  <1>3. CASE \E code \in {"refused", "SLOT_UNAVAILABLE", "VERSION_CONFLICT",
                          "INVALID_STATUS_TRANSITION"} : Reply(q, code, req[q].id)
    BY <1>0, <1>3, ReplyType, StepType DEF DecideDemo
  <1>4. CASE Becomes(q, [req[q] EXCEPT !.row = TRUE, !.at = now, !.to = to, !.pc = "write"])
    <2>1. \A s \in Slot : [req[q] EXCEPT !.row = TRUE, !.at = now, !.to = s, !.pc = "write"] \in Request
      BY <1>0 DEF Request, Pcs
    <2> QED BY <1>2, <1>4, <2>1, BecomesType, StepType DEF DecideDemo
  <1> QED BY <1>3, <1>4 DEF DecideDemo

LEMMA SelectQrType == ASSUME TypeOK, NEW q \in Requests, SelectQr(q) PROVE TypeOK'
  <1>0. {"refused", "already"} \subseteq Codes /\ req[q] \in Request /\ req[q].id \in Ids
    BY RequestType DEF Codes
  <1>1. CASE \E i \in Ids : Becomes(q, [req[q] EXCEPT !.id = i, !.pc = "write"])
    <2>1. \A i \in Ids : [req[q] EXCEPT !.id = i, !.pc = "write"] \in Request
      BY <1>0 DEF Request, Pcs
    <2> QED BY <1>1, <2>1, BecomesType, StepType DEF SelectQr
  <1>2. CASE \E i \in Ids, code \in {"refused", "already"} : Reply(q, code, i)
    BY <1>0, <1>2, ReplyType, StepType DEF SelectQr
  <1> QED BY <1>0, <1>1, <1>2 DEF SelectQr

LEMMA AbortType == ASSUME TypeOK, NEW q \in Requests, Abort(q) PROVE TypeOK'
  <1>0. "aborted" \in Codes /\ req[q] \in Request /\ req[q].id \in Ids
    BY RequestType DEF Codes
  <1>1. CASE Refuse(q, "aborted")
    BY <1>0, <1>1, ReplyType, StepType DEF Refuse
  <1>2. CASE /\ Becomes(q, [req[q] EXCEPT !.pc = FirstStep(req[q].op), !.again = TRUE,
                 !.rooms = {}, !.share = {}, !.excl = {}, !.row = FALSE, !.need = {}, !.at = 0])
             /\ Unwritten
    <2>1. FirstStep(req[q].op) \in Pcs
      BY DEF FirstStep, Pcs
    <2>2. \A pc \in Pcs :
            [req[q] EXCEPT !.pc = pc, !.again = TRUE, !.rooms = {}, !.share = {}, !.excl = {},
                           !.row = FALSE, !.need = {}, !.at = 0] \in Request
      BY <1>0 DEF Request
    <2> QED BY <1>2, <2>1, <2>2, BecomesType, StepType
  <1> QED BY <1>1, <1>2 DEF Abort

----------------------------------------------------------------------------
(* A request writes, and the sweep *)

LEMMA MailToType ==
  ASSUME NEW us \in SUBSET Users, NEW i \in Ids, NEW tpl \in Templates, NEW key \in Nat,
         NEW s \in Slot
  PROVE  MailTo(us, i, tpl, key, s) \in SUBSET Mail
  BY DEF MailTo, Mail

LEMMA EnqueueType == ASSUME TypeOK, NEW mails \in SUBSET Mail PROVE Enqueue(mails) \in SUBSET Mail
  BY DEF TypeOK, Enqueue

LEMMA AuditType ==
  ASSUME TypeOK, NEW i \in Ids, NEW action \in Events
  PROVE  Audit(i, action) \in [Ids -> Seq(Events)]
  BY DEF TypeOK, Audit

LEMMA RowType ==
  TypeOK => \A i \in Ids : /\ booking[i] \in Booking
                           /\ booking[i].owner \in Users /\ booking[i].guests \in SUBSET Users
                           /\ booking[i].slot \in Slot
                           /\ booking[i].version \in Nat /\ booking[i].version + 1 \in Nat
  BY DEF TypeOK, Booking

LEMMA TableType ==
  ASSUME TypeOK, req' \in [Requests -> Request], booking' \in [Ids -> Booking],
         outbox' \in SUBSET Mail, trail' \in [Ids -> Seq(Events)],
         UNCHANGED <<now, disabledAt, roomOn, sweep>>
  PROVE  TypeOK'
  BY DEF TypeOK

LEMMA RefuseType ==
  ASSUME TypeOK, NEW q \in Requests, NEW code \in Codes, NEW i \in Ids, Reply(q, code, i),
         UNCHANGED table, UNCHANGED <<now, disabledAt, roomOn, sweep>>
  PROVE  TypeOK'
  BY ReplyType DEF TypeOK, table

LEMMA WriteCreateType == ASSUME TypeOK, NEW q \in Requests, WriteCreate(q) PROVE TypeOK'
  <1> DEFINE r == req[q]
             row == [slot |-> r.to, owner |-> r.owner, creator |-> r.actor, key |-> r.key,
                     status |-> "CONFIRMED", version |-> 1, guests |-> r.guests,
                     confirmedAt |-> r.at, method |-> "-", by |-> AnyUser]
  <1>0. /\ {"replay", "ok", "SLOT_UNAVAILABLE"} \subseteq Codes
        /\ req[q] \in Request /\ req[q].id \in Ids
    BY RequestType DEF Codes
  <1>1. CASE /\ UNCHANGED table
             /\ \/ Prior(r.actor, r.key) # {} /\ Reply(q, "replay", PriorId(r.actor, r.key))
                \/ Reply(q, "SLOT_UNAVAILABLE", req[q].id)
    BY <1>0, <1>1, PriorType, RefuseType DEF WriteCreate
  <1>2. CASE \E i \in Ids : /\ booking' = [booking EXCEPT ![i] = row]
                            /\ outbox' = Enqueue(MailTo({r.owner} \cup r.guests, i,
                                                        "confirmed", 1, r.to))
                            /\ trail' = Audit(i, "create")
                            /\ Reply(q, "ok", i)
    <2>1. row \in Booking
      BY <1>0, AnyType DEF Request, Booking, Status, Live
    <2> HIDE DEF row
    <2>2. /\ booking' \in [Ids -> Booking]
      BY <1>2, <2>1 DEF TypeOK
    <2>5. /\ trail' \in [Ids -> Seq(Events)]
          /\ req' \in [Requests -> Request]
      BY <1>0, <1>2, AuditType, ReplyType DEF Events
    <2>3. /\ {r.owner} \cup r.guests \in SUBSET Users /\ r.to \in Slot
          /\ "confirmed" \in Templates
      BY <1>0 DEF Request, Templates
    <2>4. outbox' \in SUBSET Mail
      BY <1>2, <2>3, MailToType, EnqueueType
    <2> QED BY <2>2, <2>4, <2>5, TableType DEF WriteCreate
  <1> QED BY <1>1, <1>2 DEF WriteCreate
LEMMA WritePatchType == ASSUME TypeOK, NEW q \in Requests, WritePatch(q) PROVE TypeOK'
  <1> DEFINE r == req[q]
             b == booking[r.id]
  <1>0. /\ {"ok", "VERSION_CONFLICT", "INVALID_STATUS_TRANSITION", "SLOT_UNAVAILABLE"} \subseteq Codes
        /\ r \in Request /\ r.id \in Ids /\ r.to \in Slot /\ r.at \in Nat
    BY RequestType DEF Codes, Request
  <1>1. CASE /\ UNCHANGED table
             /\ \E code \in {"VERSION_CONFLICT", "INVALID_STATUS_TRANSITION", "SLOT_UNAVAILABLE"} :
                  Reply(q, code, r.id)
    BY <1>0, <1>1, RefuseType DEF WritePatch
  <1>2. CASE /\ booking' = [booking EXCEPT ![r.id] = [b EXCEPT !.slot = r.to,
                  !.version = @ + 1, !.confirmedAt = IF Moved(r) THEN r.at ELSE @]]
             /\ outbox' = IF Moved(r)
                  THEN Enqueue(MailTo({b.owner} \cup b.guests, r.id, "rescheduled",
                                      b.version + 1, r.to))
                  ELSE outbox
             /\ trail' = Audit(r.id, IF Moved(r) THEN "reschedule" ELSE "update")
             /\ Reply(q, "ok", r.id)
    <2>1. [b EXCEPT !.slot = r.to, !.version = @ + 1,
                    !.confirmedAt = IF Moved(r) THEN r.at ELSE @] \in Booking
      BY <1>0, RowType DEF Booking
    <2>6. booking' \in [Ids -> Booking]
      BY <1>2, <2>1 DEF TypeOK
    <2>2. trail' \in [Ids -> Seq(Events)] /\ req' \in [Requests -> Request]
      BY <1>0, <1>2, AuditType, ReplyType DEF Events
    <2>3. {b.owner} \cup b.guests \in SUBSET Users /\ "rescheduled" \in Templates
          /\ b.version + 1 \in Nat
      BY <1>0, RowType DEF Templates
    <2>4. outbox' \in SUBSET Mail
      BY <1>0, <1>2, <2>3, MailToType, EnqueueType DEF TypeOK
    <2> QED BY <2>2, <2>4, <2>6, TableType DEF WritePatch
  <1> QED BY <1>1, <1>2 DEF WritePatch

LEMMA WriteAttendeesType == ASSUME TypeOK, NEW q \in Requests, WriteAttendees(q) PROVE TypeOK'
  <1> DEFINE r == req[q]
             b == booking[r.id]
             invited == MailTo(r.guests \ b.guests, r.id, "confirmed", b.version + 1, r.head)
             dropped == MailTo(b.guests \ r.guests, r.id, "cancelled", b.version + 1, r.head)
  <1>0. /\ {"ok", "VERSION_CONFLICT", "INVALID_STATUS_TRANSITION"} \subseteq Codes
        /\ r \in Request /\ r.id \in Ids /\ r.head \in Slot /\ r.guests \in SUBSET Users
    BY RequestType DEF Codes, Request
  <1>1. CASE /\ UNCHANGED table
             /\ \E code \in {"VERSION_CONFLICT", "INVALID_STATUS_TRANSITION"} : Reply(q, code, r.id)
    BY <1>0, <1>1, RefuseType DEF WriteAttendees
  <1>2. CASE /\ booking' = [booking EXCEPT ![r.id] =
                  [b EXCEPT !.guests = r.guests, !.version = @ + 1]]
             /\ outbox' = Enqueue(invited \cup dropped)
             /\ trail' = Audit(r.id, "update")
             /\ Reply(q, "ok", r.id)
    <2>0. [b EXCEPT !.guests = r.guests, !.version = @ + 1] \in Booking
      BY <1>0, RowType DEF Booking
    <2>1. booking' \in [Ids -> Booking]
      BY <1>2, <2>0 DEF TypeOK
    <2>2. trail' \in [Ids -> Seq(Events)] /\ req' \in [Requests -> Request]
      BY <1>0, <1>2, AuditType, ReplyType DEF Events
    <2>3. /\ b.guests \in SUBSET Users /\ b.version + 1 \in Nat
          /\ {"confirmed", "cancelled"} \subseteq Templates
      BY <1>0, RowType DEF Templates
    <2>4. invited \in SUBSET Mail /\ dropped \in SUBSET Mail
      BY <1>0, <2>3, MailToType
    <2>5. outbox' \in SUBSET Mail
      <3> HIDE DEF invited, dropped
      <3> QED BY <1>2, <2>4, EnqueueType
    <2> QED BY <2>1, <2>2, <2>5, TableType DEF WriteAttendees
  <1> QED BY <1>1, <1>2 DEF WriteAttendees

\* Check-in by id and by room write the same fields.
LEMMA CheckInType ==
  ASSUME TypeOK, NEW i \in Ids, NEW a \in Users, NEW how \in {"-", "SELF", "ADMIN", "QR"}
  PROVE  CheckIn(i, a, how) \in [Ids -> Booking]
  <1>1. [booking[i] EXCEPT !.status = "CHECKED_IN", !.version = @ + 1, !.method = how, !.by = a]
          \in Booking
    BY RowType DEF Booking, Status, Live
  <1> QED BY <1>1 DEF TypeOK, CheckIn

LEMMA WriteCheckinType ==
  ASSUME TypeOK, NEW q \in Requests, WriteCheckin(q) \/ WriteQr(q)
  PROVE  TypeOK'
  <1> DEFINE r == req[q]
  <1>0. /\ {"ok", "already", "refused"} \subseteq Codes
        /\ r \in Request /\ r.id \in Ids /\ r.actor \in Users
    BY RequestType DEF Codes, Request
  <1>1. CASE /\ UNCHANGED table
             /\ \E code \in {"already", "refused"} : Reply(q, code, r.id)
    BY <1>0, <1>1, RefuseType DEF WriteCheckin, WriteQr
  <1>2. CASE /\ \E how \in {"-", "SELF", "ADMIN", "QR"} : booking' = CheckIn(r.id, r.actor, how)
             /\ trail' = Audit(r.id, "checkin")
             /\ Reply(q, "ok", r.id)
             /\ UNCHANGED outbox
    <2>1. booking' \in [Ids -> Booking]
      BY <1>0, <1>2, CheckInType
    <2>2. trail' \in [Ids -> Seq(Events)] /\ req' \in [Requests -> Request]
      BY <1>0, <1>2, AuditType, ReplyType DEF Events
    <2>3. outbox' \in SUBSET Mail
      BY <1>2 DEF TypeOK
    <2>4. UNCHANGED <<now, disabledAt, roomOn, sweep>>
      BY DEF WriteCheckin, WriteQr
    <2> QED BY <2>1, <2>2, <2>3, <2>4, TableType
  <1>3. CASE WriteQr(q)
    BY <1>1, <1>2, <1>3 DEF WriteQr
  <1>4. CASE WriteCheckin(q)
    <2> DEFINE b == booking[r.id]
               code == IF b.status = "CHECKED_IN" THEN "already" ELSE "refused"
    <2>1. r.method \in {"-", "SELF", "ADMIN", "QR"} /\ code \in {"already", "refused"}
      BY <1>0 DEF Request
    <2>2. \/ /\ booking' = CheckIn(r.id, r.actor, r.method)
             /\ trail' = Audit(r.id, "checkin")
             /\ Reply(q, "ok", r.id)
             /\ UNCHANGED outbox
          \/ UNCHANGED table /\ Reply(q, code, r.id)
      BY <1>4 DEF WriteCheckin
    <2> QED BY <1>1, <1>2, <2>1, <2>2
  <1> QED BY <1>3, <1>4

LEMMA WriteDemoType == ASSUME TypeOK, NEW q \in Requests, WriteDemo(q) PROVE TypeOK'
  <1> DEFINE r == req[q]
             row == [booking[r.id] EXCEPT !.slot = r.to, !.version = @ + 1, !.confirmedAt = r.at]
  <1>0. /\ {"ok", "SLOT_UNAVAILABLE"} \subseteq Codes
        /\ r \in Request /\ r.id \in Ids /\ r.to \in Slot /\ r.at \in Nat
    BY RequestType DEF Codes, Request
  <1>1. CASE UNCHANGED table /\ Reply(q, "SLOT_UNAVAILABLE", r.id)
    BY <1>0, <1>1, RefuseType DEF WriteDemo
  <1>2. CASE /\ booking' = [booking EXCEPT ![r.id] = row]
             /\ trail' = Audit(r.id, "demo_shift")
             /\ Reply(q, "ok", r.id)
             /\ UNCHANGED outbox
    <2>1. row \in Booking
      BY <1>0, RowType DEF Booking
    <2>2. booking' \in [Ids -> Booking] /\ outbox' \in SUBSET Mail
      BY <1>2, <2>1 DEF TypeOK
    <2>3. trail' \in [Ids -> Seq(Events)] /\ req' \in [Requests -> Request]
      BY <1>0, <1>2, AuditType, ReplyType DEF Events
    <2>4. UNCHANGED <<now, disabledAt, roomOn, sweep>>
      BY DEF WriteDemo
    <2> QED BY <2>2, <2>3, <2>4, TableType
  <1> QED BY <1>1, <1>2 DEF WriteDemo

LEMMA WriteCancelType == ASSUME TypeOK, NEW q \in Requests, WriteCancel(q) PROVE TypeOK'
  <1> DEFINE r == req[q]
             b == booking[r.id]
             row == [b EXCEPT !.status = "CANCELLED", !.version = @ + 1]
  <1>0. /\ {"ok", "already", "INVALID_STATUS_TRANSITION"} \subseteq Codes
        /\ r \in Request /\ r.id \in Ids /\ r.head \in Slot /\ r.owner \in Users
    BY RequestType DEF Codes, Request
  <1>1. CASE /\ UNCHANGED table
             /\ \E code \in {"already", "INVALID_STATUS_TRANSITION"} : Reply(q, code, r.id)
    BY <1>0, <1>1, RefuseType DEF WriteCancel
  <1>2. CASE /\ booking' = [booking EXCEPT ![r.id] = row]
             /\ outbox' = Enqueue(MailTo(
                  IF r.owner = r.actor THEN b.guests ELSE {r.owner} \cup b.guests,
                  r.id, "cancelled", b.version + 1, r.head))
             /\ trail' = Audit(r.id, "cancel")
             /\ Reply(q, "ok", r.id)
    <2>1. row \in Booking
      BY <1>0, RowType DEF Booking, Status, Terminal
    <2>2. booking' \in [Ids -> Booking]
      BY <1>2, <2>1 DEF TypeOK
    <2>3. trail' \in [Ids -> Seq(Events)] /\ req' \in [Requests -> Request]
      BY <1>0, <1>2, AuditType, ReplyType DEF Events
    <2>4. /\ (IF r.owner = r.actor THEN b.guests ELSE {r.owner} \cup b.guests) \in SUBSET Users
          /\ "cancelled" \in Templates /\ b.version + 1 \in Nat
      BY <1>0, RowType DEF Templates
    <2>5. outbox' \in SUBSET Mail
      BY <1>0, <1>2, <2>4, MailToType, EnqueueType
    <2>6. UNCHANGED <<now, disabledAt, roomOn, sweep>>
      BY DEF WriteCancel
    <2> QED BY <2>2, <2>3, <2>5, <2>6, TableType
  <1> QED BY <1>1, <1>2 DEF WriteCancel

\* A cascade or a sweep moves rows on, one version each.
LEMMA MoveOnType ==
  ASSUME TypeOK, NEW i \in Ids, NEW s \in Terminal
  PROVE  [booking[i] EXCEPT !.status = s, !.version = @ + 1] \in Booking
  BY RowType DEF Booking, Status

LEMMA WriteDeactivateType == ASSUME TypeOK, NEW q \in Requests, WriteDeactivate(q) PROVE TypeOK'
  <1> DEFINE r == req[q]
             doomed == Doomed(r.owner, r.at)
             mails(i) == MailTo({r.owner} \cup booking[i].guests, i, "cancelled",
                                booking[i].version + 1, booking[i].slot)
  <1>0. /\ "ok" \in Codes /\ r \in Request /\ r.id \in Ids /\ r.owner \in Users /\ r.at \in Nat
    BY RequestType DEF Codes, Request
  <1>1. /\ booking' = [i \in Ids |-> IF i \in doomed
                     THEN [booking[i] EXCEPT !.status = "CANCELLED", !.version = @ + 1]
                     ELSE booking[i]]
        /\ disabledAt' = [disabledAt EXCEPT ![r.owner] = r.at]
        /\ outbox' = Enqueue(UNION {mails(i) : i \in doomed})
        /\ trail' = [i \in Ids |-> IF i \in doomed THEN Append(trail[i], "cancel") ELSE trail[i]]
        /\ Reply(q, "ok", r.id)
        /\ UNCHANGED <<now, roomOn, sweep>>
    BY DEF WriteDeactivate
  <1>2. booking' \in [Ids -> Booking]
    <2>1. \A i \in Ids : [booking[i] EXCEPT !.status = "CANCELLED", !.version = @ + 1] \in Booking
      BY MoveOnType DEF Terminal
    <2>2. \A i \in Ids : booking[i] \in Booking
      BY RowType
    <2> QED BY <1>1, <2>1, <2>2
  <1>3. disabledAt' \in [Users -> Nat \cup {Never}]
    BY <1>0, <1>1 DEF TypeOK
  <1>4. outbox' \in SUBSET Mail
    <2>1. ASSUME NEW i \in doomed PROVE mails(i) \in SUBSET Mail
      <3>1. /\ i \in Ids /\ {r.owner} \cup booking[i].guests \in SUBSET Users
            /\ booking[i].version + 1 \in Nat /\ booking[i].slot \in Slot
            /\ "cancelled" \in Templates
        BY <1>0, RowType DEF Doomed, Templates
      <3> QED BY <3>1, MailToType
    <2>2. UNION {mails(i) : i \in doomed} \in SUBSET Mail
      <3> HIDE DEF mails, doomed
      <3> QED BY <2>1
    <2> HIDE DEF mails, doomed
    <2> QED BY <1>1, <2>2, EnqueueType
  <1>5. trail' \in [Ids -> Seq(Events)]
    <2>1. \A i \in Ids : trail[i] \in Seq(Events) /\ Append(trail[i], "cancel") \in Seq(Events)
      BY DEF TypeOK, Events
    <2> QED BY <1>1, <2>1
  <1>6. req' \in [Requests -> Request]
    BY <1>0, <1>1, ReplyType
  <1> QED BY <1>1, <1>2, <1>3, <1>4, <1>5, <1>6 DEF TypeOK

LEMMA WriteRoomType == ASSUME TypeOK, NEW q \in Requests, WriteRoom(q) PROVE TypeOK'
  <1>1. "ok" \in Codes /\ req[q].id \in Ids
    BY RequestType DEF Codes
  <1>2. req' \in [Requests -> Request]
    BY <1>1, ReplyType DEF WriteRoom
  <1>3. roomOn' \in [Rooms -> BOOLEAN]
    BY DEF TypeOK, WriteRoom
  <1> QED BY <1>2, <1>3 DEF TypeOK, WriteRoom

LEMMA SweepRunType == ASSUME TypeOK, SweepRun PROVE TypeOK'
  <1> DEFINE t == sweep.at
             released  == DueForRelease(t)
             completed == Ended(t) \ released
             reminded  == {i \in Ids \ (released \cup completed) :
                             /\ booking[i].status = "CONFIRMED"
                             /\ booking[i].slot.start > t
                             /\ booking[i].slot.start <= t + ReminderBefore}
             mails(i)  == MailTo({booking[i].owner} \cup booking[i].guests, i, "auto_released",
                                 booking[i].version + 1, booking[i].slot) \cup
                          MailTo({a \in Admins : Active(a)}, i, "auto_released_admin",
                                 booking[i].version + 1, booking[i].slot)
             remind(i) == MailTo({booking[i].owner}, i, "reminder", booking[i].slot.start,
                                 booking[i].slot)
  <1>1. /\ booking' = [i \in Ids |->
             CASE i \in released  -> [booking[i] EXCEPT !.status = "AUTO_RELEASED", !.version = @ + 1]
               [] i \in completed -> [booking[i] EXCEPT !.status = "COMPLETED", !.version = @ + 1]
               [] OTHER           -> booking[i]]
        /\ outbox' = Enqueue(UNION ({mails(i) : i \in released} \cup {remind(i) : i \in reminded}))
        /\ trail' = [i \in Ids |-> CASE i \in released  -> Append(trail[i], "auto_release")
                                     [] i \in completed -> Append(trail[i], "complete")
                                     [] OTHER           -> trail[i]]
        /\ sweep' = [on |-> FALSE, at |-> 0]
        /\ UNCHANGED <<now, disabledAt, roomOn, req>>
    BY DEF SweepRun
  <1>2. released \in SUBSET Ids /\ reminded \in SUBSET Ids /\ t \in Nat
    BY DEF DueForRelease, TypeOK
  <1>3. booking' \in [Ids -> Booking]
    <2>1. \A i \in Ids :
            /\ [booking[i] EXCEPT !.status = "AUTO_RELEASED", !.version = @ + 1] \in Booking
            /\ [booking[i] EXCEPT !.status = "COMPLETED", !.version = @ + 1] \in Booking
      BY MoveOnType DEF Terminal
    <2>2. \A i \in Ids : booking[i] \in Booking
      BY RowType
    <2> HIDE DEF released, completed
    <2> QED BY <1>1, <2>1, <2>2
  <1>4. trail' \in [Ids -> Seq(Events)]
    <2>1. \A i \in Ids : /\ trail[i] \in Seq(Events) /\ Append(trail[i], "complete") \in Seq(Events)
                         /\ Append(trail[i], "auto_release") \in Seq(Events)
      BY DEF TypeOK, Events
    <2> HIDE DEF released, completed
    <2> QED BY <1>1, <2>1
  <1>5. ASSUME NEW i \in released PROVE mails(i) \in SUBSET Mail
    <2>1. /\ i \in Ids /\ {booking[i].owner} \cup booking[i].guests \in SUBSET Users
          /\ {a \in Admins : Active(a)} \in SUBSET Users
          /\ booking[i].version + 1 \in Nat /\ booking[i].slot \in Slot
          /\ {"auto_released", "auto_released_admin"} \subseteq Templates
      BY <1>2, RowType, NamesAssumption DEF Templates
    <2> QED BY <2>1, MailToType
  <1>6. ASSUME NEW i \in reminded PROVE remind(i) \in SUBSET Mail
    <2>1. /\ i \in Ids /\ {booking[i].owner} \in SUBSET Users /\ booking[i].slot \in Slot
          /\ "reminder" \in Templates /\ booking[i].slot.start > t
      BY <1>2, RowType DEF Templates
    <2>2. booking[i].slot.start \in Nat
      BY <1>2, <2>1 DEF Slot
    <2> QED BY <2>1, <2>2, MailToType
  <1>7. outbox' \in SUBSET Mail
    <2> HIDE DEF released, completed, reminded, mails, remind
    <2>1. UNION ({mails(i) : i \in released} \cup {remind(i) : i \in reminded}) \in SUBSET Mail
      BY <1>5, <1>6
    <2> QED BY <1>1, <2>1, EnqueueType
  <1> HIDE DEF released, completed, reminded, mails, remind
  <1> QED BY <1>1, <1>3, <1>4, <1>7 DEF TypeOK
----------------------------------------------------------------------------
LEMMA RowIsType == \A s \in SeedRow : Row(s) \in Booking
  BY DefaultsType DEF Row, SeedRow, Booking, Status, Live

LEMMA InitType == Init => TypeOK
  <1> SUFFICES ASSUME Init PROVE TypeOK
    OBVIOUS
  <1>1. \A s \in Seed : s \in SeedRow
    BY SeedAssumption
  <1>2. \A s \in SeedRow : Row(s) \in Booking
    BY RowIsType
  <1>3. \A i \in Ids : booking[i] \in Booking
    <2> TAKE i \in Ids
    <2>1. CASE Seeded(i) = {}
      BY <2>1, DefaultsType DEF Init
    <2>2. CASE Seeded(i) # {}
      <3>1. (CHOOSE s \in Seed : s.id = i) \in Seed
        BY <2>2 DEF Seeded
      <3> QED BY <1>1, <1>2, <2>2, <3>1 DEF Init
    <2> QED BY <2>1, <2>2
  <1>4. booking \in [Ids -> Booking]
    BY <1>3 DEF Init
  <1>5. outbox \in SUBSET Mail
    <2>1. ASSUME NEW s \in Seed
          PROVE  MailTo({s.owner} \cup s.guests, s.id, "confirmed", 1, s.slot) \in SUBSET Mail
      <3>1. /\ {s.owner} \cup s.guests \in SUBSET Users /\ s.id \in Ids /\ s.slot \in Slot
            /\ "confirmed" \in Templates
        BY <1>1 DEF SeedRow, Templates
      <3> QED BY <3>1, MailToType
    <2> QED BY <2>1 DEF Init
  <1>6. trail \in [Ids -> Seq(Events)]
    <2>1. "create" \in Events
      BY DEF Events
    <2>2. <<>> \in Seq(Events) /\ <<"create">> \in Seq(Events)
      BY <2>1
    <2> QED BY <2>2 DEF Init
  <1>7. req \in [Requests -> Request]
    BY DefaultsType DEF Init
  <1> QED BY <1>4, <1>5, <1>6, <1>7 DEF Init, TypeOK

LEMMA NextType == TypeOK /\ [Next]_vars => TypeOK'
  <1> SUFFICES ASSUME TypeOK, [Next]_vars PROVE TypeOK'
    OBVIOUS
  <1>1. ASSUME NEW q \in Requests, Submit(q) PROVE TypeOK'
    BY <1>1, SubmitCreateType, SubmitPatchType, SubmitHeadType, SubmitOtherType DEF Submit
  <1>2. ASSUME NEW q \in Requests, Prepare(q) PROVE TypeOK'
    BY <1>2, ValidateType, ReadHeadType, LockUsersType, LockTargetType, ResolveRoomsType,
       LockRoomsType, DecideType, DecideDemoType, SelectQrType DEF Prepare
  <1>3. ASSUME NEW q \in Requests, Write(q) PROVE TypeOK'
    BY <1>3, WriteCreateType, WritePatchType, WriteAttendeesType, WriteCheckinType,
       WriteDemoType, WriteCancelType, WriteDeactivateType, WriteRoomType DEF Write
  <1>4. ASSUME NEW q \in Requests, Abort(q) PROVE TypeOK'
    BY <1>4, AbortType
  <1>5. CASE SweepRun
    BY <1>5, SweepRunType
  <1>6. CASE SweepBegin \/ SweepLost
    <2>1. sweep' \in [on : BOOLEAN, at : Nat]
      <3>1. now \in Nat
        BY DEF TypeOK
      <3>2. CASE SweepBegin
        BY <3>1, <3>2 DEF SweepBegin
      <3>3. CASE SweepLost
        BY <3>3 DEF SweepLost
      <3> QED BY <1>6, <3>2, <3>3
    <2>2. UNCHANGED <<now, booking, disabledAt, roomOn, outbox, trail, req>>
      BY <1>6 DEF SweepBegin, SweepLost
    <2> QED BY <2>1, <2>2 DEF TypeOK
  <1>8. CASE Tick
    <2>1. now' \in Nat
      BY <1>8 DEF TypeOK, Tick
    <2> QED BY <1>8, <2>1 DEF TypeOK, Tick
  <1>7. CASE UNCHANGED vars \/ Over
    BY <1>7 DEF TypeOK, vars, Over
  <1> QED BY <1>1, <1>2, <1>3, <1>4, <1>5, <1>6, <1>7, <1>8 DEF Next

\* Every variable keeps its type in every reachable state, for any settings, any seed that
\* keeps the gap and any set of requests.
THEOREM TypeCorrect == Spec => []TypeOK
  BY InitType, NextType, PTL DEF Spec
----------------------------------------------------------------------------
(* What a step makes of the record of its request.  r is the record before *)
(* and n the one after it.                                                 *)

InTx == {"users", "rooms", "decide", "write"}

Carries(r, n) ==
    /\ n.op = r.op /\ n.actor = r.actor /\ n.key = r.key /\ n.ver = r.ver
    /\ n.asked = r.asked /\ n.guests = r.guests /\ n.method = r.method /\ n.code = r.code
SameAim(r, n) == n.id = r.id /\ n.owner = r.owner /\ n.to = r.to /\ n.head = r.head
SameLocks(r, n) == n.share = r.share /\ n.excl = r.excl

\* The request is sent.
Sends(r, n) ==
    /\ r.pc = "idle" /\ n.op \in Ops /\ n.share = {} /\ n.excl = {}
    /\ \/ n.op = "create" /\ n.pc = "validate" /\ n.code = "-"
       \/ /\ n.op = "create" /\ n.pc = "done" /\ n.code = "replay"
          /\ n.id \in Prior(n.actor, n.key)
       \/ /\ n.op = "patch" /\ n.pc = "users" /\ n.id \in Ids
          /\ booking[n.id].status # "NONE"
          /\ n.owner = booking[n.id].owner /\ n.head = booking[n.id].slot
          /\ "room" \notin n.asked => n.to.room = n.head.room
          /\ "time" \notin n.asked => n.to.start = n.head.start /\ n.to.end = n.head.end
       \/ /\ n.op \in {"attendees", "checkin", "demo"} /\ n.pc = "head"
          /\ n.id \in Ids /\ booking[n.id].status # "NONE"
          /\ n.ver <= booking[n.id].version
          /\ n.op = "checkin" => n.method \in {"SELF", "ADMIN"}
          /\ n.method = "ADMIN" => n.actor \in Admins
       \/ /\ n.op = "cancel" /\ n.pc \in {"users", "done"}
          /\ n.id \in Ids /\ booking[n.id].status # "NONE"
          /\ n.owner = booking[n.id].owner
       \/ n.op \in {"qr", "deactivate"} /\ n.pc = "users"
       \/ n.op = "room" /\ n.pc = "rooms"

\* It goes on to its next step.
Advances(q, n) ==
    LET r == req[q] IN
    /\ Carries(r, n)
    /\ \/ /\ r.op = "create" /\ r.pc = "validate" /\ n.pc = "idem"
          /\ SameAim(r, n) /\ SameLocks(r, n)
       \/ /\ r.op = "create" /\ r.pc = "idem" /\ n.pc = "users"
          /\ KeyFree(q, r.actor, r.key) /\ Prior(r.actor, r.key) = {}
          /\ SameAim(r, n) /\ SameLocks(r, n)
       \/ /\ r.pc = "head" /\ n.pc = "users" /\ SameLocks(r, n)
          /\ n.id = r.id /\ n.to = r.to
          /\ n.owner = booking[r.id].owner /\ n.head = booking[r.id].slot
       \/ /\ r.op # "deactivate" /\ r.pc = "users" /\ n.pc = "rooms"
          /\ ShareFree(q, {r.actor, r.owner})
          /\ n.share \subseteq {r.actor, r.owner} /\ n.excl = r.excl /\ SameAim(r, n)
          /\ r.op \in {"create", "patch", "demo"} => Active(r.owner) /\ r.owner \in n.share
       \/ /\ r.op = "deactivate" /\ r.pc = "users" /\ n.pc = "resolve"
          /\ ExclFree(q, {r.owner})
          /\ n.share = r.share /\ n.excl = {r.owner} /\ SameAim(r, n)
       \/ /\ r.op = "deactivate" /\ r.pc = "resolve" /\ n.pc = "rooms"
          /\ SameAim(r, n) /\ SameLocks(r, n)
       \/ /\ r.pc = "rooms" /\ n.pc = "decide" /\ SameAim(r, n) /\ SameLocks(r, n)
       \/ /\ r.op \in {"create", "patch"} /\ r.pc = "decide" /\ n.pc = "write"
          /\ roomOn[r.to.room] /\ SameAim(r, n) /\ SameLocks(r, n)
       \/ /\ r.op = "demo" /\ r.pc = "decide" /\ n.pc = "write"
          /\ roomOn[n.to.room] /\ n.id = r.id /\ n.owner = r.owner /\ n.head = r.head
          /\ SameLocks(r, n)
       \/ /\ r.op \in {"attendees", "checkin", "cancel", "qr", "deactivate"}
          /\ r.pc = "decide" /\ n.pc = IF r.op = "qr" THEN "select" ELSE "write"
          /\ SameAim(r, n) /\ SameLocks(r, n)
       \/ /\ r.op = "qr" /\ r.pc = "select" /\ n.pc = "write" /\ SameLocks(r, n)

\* It is run once more, from its first statement.
Restarts(r, n) ==
    /\ r.pc \notin {"idle", "validate", "done"} /\ n.pc = FirstStep(r.op)
    /\ Carries(r, n) /\ SameAim(r, n) /\ n.share = {} /\ n.excl = {}

\* It is answered.
Answers(r, n) ==
    /\ r.pc \notin {"idle", "done"} /\ n.pc = "done"
    /\ n.op = r.op /\ n.actor = r.actor /\ n.key = r.key /\ n.share = {} /\ n.excl = {}

\* Only a write answers ok, and a create that is refused has looked for its key.
Declines(r, n) ==
    /\ Answers(r, n) /\ n.code # "ok"
    /\ r.op = "create" /\ n.code = "replay" => n.id \in Prior(r.actor, r.key)
    /\ r.op = "create" /\ n.code \notin {"replay", "aborted"}
         => r.pc \in InTx \/ Prior(r.actor, r.key) = {}

LEMMA StepsAlone ==
  ASSUME TypeOK, NEW q \in Requests, NEW r, Becomes(q, r)
  PROVE  req'[q] = r /\ \A p \in Others(q) : req'[p] = req[p]
  BY DEF TypeOK, Becomes, Others

LEMMA ReplyAnswers ==
  ASSUME TypeOK, NEW q \in Requests, NEW code, NEW i, Reply(q, code, i),
         req[q].pc \notin {"idle", "done"}
  PROVE  /\ Answers(req[q], req'[q]) /\ req'[q].code = code /\ req'[q].id = i
         /\ \A p \in Others(q) : req'[p] = req[p]
  <1> DEFINE n == [NoRequest EXCEPT !.op = req[q].op, !.pc = "done", !.actor = req[q].actor,
                                    !.key = req[q].key, !.id = i, !.code = code]
  <1>1. req'[q] = n /\ \A p \in Others(q) : req'[p] = req[p]
    BY StepsAlone DEF Reply
  <1>2. /\ n.op = req[q].op /\ n.pc = "done" /\ n.actor = req[q].actor /\ n.key = req[q].key
        /\ n.share = {} /\ n.excl = {} /\ n.code = code /\ n.id = i
    BY DEF NoRequest
  <1> HIDE DEF n
  <1> QED BY <1>1, <1>2 DEF Answers

LEMMA SubmitSends ==
  ASSUME TypeOK, NEW q \in Requests, Submit(q)
  PROVE  Sends(req[q], req'[q]) /\ \A p \in Others(q) : req'[p] = req[p]
  <1>0. req[q].pc = "idle"
    BY DEF Submit, SubmitCreate, SubmitPatch, SubmitAttendees, SubmitCheckin, SubmitDemo,
           SubmitCancel, SubmitQr, SubmitDeactivate, SubmitRoom, Idle
  <1>1. ASSUME NEW n, Becomes(q, n), Sends(req[q], n)
        PROVE  Sends(req[q], req'[q]) /\ \A p \in Others(q) : req'[p] = req[p]
    BY <1>1, StepsAlone
  <1>2. CASE SubmitCreate(q)
    <2>1. PICK a \in Users, o \in Users, k \in Keys, r \in Rooms, w \in Spans, g \in GuestLists :
            /\ Active(a)
            /\ o = a \/ a \in Admins
            /\ Becomes(q, AskCreate(a, o, k, AskedSlot(r, w), g))
      BY <1>2, Zenon DEF SubmitCreate
    <2> DEFINE n == AskCreate(a, o, k, AskedSlot(r, w), g)
    <2>2. CASE Prior(a, k) # {}
      <3>1. PriorId(a, k) \in Prior(a, k)
        BY <2>2 DEF PriorId
      <3>2. /\ n.op = "create" /\ n.pc = "done" /\ n.code = "replay" /\ n.id = PriorId(a, k)
            /\ n.actor = a /\ n.key = k /\ n.share = {} /\ n.excl = {}
        BY <2>2 DEF AskCreate, NoRequest
      <3> QED BY <1>0, <1>1, <1>2, <2>1, <3>1, <3>2 DEF SubmitCreate, Idle, Sends
    <2>3. CASE Prior(a, k) = {}
      <3>1. /\ n.op = "create" /\ n.pc = "validate" /\ n.code = "-"
            /\ n.share = {} /\ n.excl = {}
        BY <2>3 DEF AskCreate, NoRequest
      <3> QED BY <1>0, <1>1, <1>2, <2>1, <3>1 DEF SubmitCreate, Idle, Sends
    <2> QED BY <2>2, <2>3
  <1>3. CASE SubmitPatch(q)
    <2>1. PICK a \in Users, i \in Ids, r \in Rooms, w \in Spans, asked \in SUBSET {"room", "time"} :
            LET b == booking[i]  to == Target(b, asked, r, w) IN
            /\ Active(a)
            /\ b.status # "NONE"
            /\ b.owner = a \/ a \in Admins
            /\ to # b.slot => to.start >= now + MinLead
            /\ \E v \in 1..b.version : Becomes(q, AskPatch(a, i, v, asked, to))
      BY <1>3, Zenon DEF SubmitPatch
    <2> DEFINE to == Target(booking[i], asked, r, w)
    <2>2. PICK v \in 1..booking[i].version : Becomes(q, AskPatch(a, i, v, asked, to))
      BY <2>1
    <2>3. /\ "room" \notin asked => to.room = booking[i].slot.room
          /\ "time" \notin asked => /\ to.start = booking[i].slot.start
                                    /\ to.end = booking[i].slot.end
      BY DEF Target
    <2> HIDE DEF to
    <2> DEFINE n == AskPatch(a, i, v, asked, to)
    <2>4. /\ n.op = "patch" /\ n.pc = "users" /\ n.share = {} /\ n.excl = {} /\ n.id = i
          /\ n.owner = booking[i].owner /\ n.head = booking[i].slot /\ n.to = to
          /\ n.asked = asked
      BY DEF AskPatch, NoRequest
    <2> HIDE DEF n
    <2>5. Becomes(q, n)
      BY <2>2 DEF n
    <2>6. Sends(req[q], n)
      BY <1>0, <1>3, <2>1, <2>3, <2>4 DEF SubmitPatch, Idle, Sends
    <2> QED BY <1>1, <2>5, <2>6
  <1>4. CASE SubmitAttendees(q)
    <2>1. PICK a \in Users, i \in Ids, g \in GuestLists :
            /\ Active(a) /\ booking[i].status # "NONE"
            /\ booking[i].owner = a \/ a \in Admins
            /\ \E v \in 1..booking[i].version :
                 Becomes(q, [NoRequest EXCEPT !.op = "attendees", !.pc = "head",
                           !.actor = a, !.id = i, !.ver = v, !.guests = g])
      BY <1>4, Zenon DEF SubmitAttendees
    <2>2. PICK v \in 1..booking[i].version :
            Becomes(q, [NoRequest EXCEPT !.op = "attendees", !.pc = "head",
                           !.actor = a, !.id = i, !.ver = v, !.guests = g])
      BY <2>1
    <2> DEFINE n == [NoRequest EXCEPT !.op = "attendees", !.pc = "head",
                           !.actor = a, !.id = i, !.ver = v, !.guests = g]
    <2>3. /\ n.share = {} /\ n.excl = {} /\ n.pc = "head" /\ n.op = "attendees" /\ n.id = i
          /\ n.ver = v /\ n.method = "-"
      BY DEF NoRequest
    <2> HIDE DEF n
    <2>4. Becomes(q, n)
      BY <2>2 DEF n
    <2>5. v <= booking[i].version
      BY RowType
    <2>6. Sends(req[q], n)
      BY <1>0, <1>4, <2>1, <2>3, <2>5 DEF SubmitAttendees, Idle, Sends
    <2> QED BY <1>1, <2>4, <2>6
  <1>5. CASE SubmitCheckin(q)
    <2>1. PICK a \in Users, i \in Ids, m \in {"SELF", "ADMIN"} :
            /\ booking[i].status # "NONE"
            /\ m = "ADMIN" => a \in Admins
            /\ Becomes(q, [NoRequest EXCEPT !.op = "checkin", !.pc = "head",
                           !.actor = a, !.id = i, !.method = m])
      BY <1>5 DEF SubmitCheckin
    <2> DEFINE n == [NoRequest EXCEPT !.op = "checkin", !.pc = "head",
                           !.actor = a, !.id = i, !.method = m]
    <2>3. /\ n.share = {} /\ n.excl = {} /\ n.pc = "head" /\ n.op = "checkin" /\ n.id = i
          /\ n.ver = 0 /\ n.method = m /\ n.actor = a
      BY DEF NoRequest
    <2> HIDE DEF n
    <2>4. Becomes(q, n)
      BY <2>1 DEF n
    <2>5. 0 <= booking[i].version
      BY RowType
    <2>6. Sends(req[q], n)
      BY <1>0, <1>5, <2>1, <2>3, <2>5 DEF SubmitCheckin, Idle, Sends
    <2> QED BY <1>1, <2>4, <2>6
  <1>6. CASE SubmitDemo(q)
    <2>1. PICK a \in Users, i \in Ids :
            /\ Active(a) /\ booking[i].status # "NONE"
            /\ \E v \in 1..booking[i].version :
                 Becomes(q, [NoRequest EXCEPT !.op = "demo", !.pc = "head",
                           !.actor = a, !.id = i, !.ver = v])
      BY <1>6, Zenon DEF SubmitDemo
    <2>2. PICK v \in 1..booking[i].version :
            Becomes(q, [NoRequest EXCEPT !.op = "demo", !.pc = "head",
                           !.actor = a, !.id = i, !.ver = v])
      BY <2>1
    <2> DEFINE n == [NoRequest EXCEPT !.op = "demo", !.pc = "head",
                        !.actor = a, !.id = i, !.ver = v]
    <2>3. /\ n.share = {} /\ n.excl = {} /\ n.pc = "head" /\ n.op = "demo" /\ n.id = i
          /\ n.ver = v /\ n.method = "-"
      BY DEF NoRequest
    <2> HIDE DEF n
    <2>4. Becomes(q, n)
      BY <2>2 DEF n
    <2>5. v <= booking[i].version
      BY RowType
    <2>6. Sends(req[q], n)
      BY <1>0, <1>6, <2>1, <2>3, <2>5 DEF SubmitDemo, Idle, Sends
    <2> QED BY <1>1, <2>4, <2>6
  <1>7. CASE SubmitCancel(q)
    <2>1. PICK a \in Users, i \in Ids, pc \in {"users", "done"},
                code \in {"-", "already", "INVALID_STATUS_TRANSITION"} :
            /\ booking[i].status # "NONE"
            /\ Becomes(q, [NoRequest EXCEPT !.op = "cancel", !.actor = a, !.id = i,
                 !.pc = pc, !.code = code, !.owner = booking[i].owner, !.head = booking[i].slot])
      BY <1>7 DEF SubmitCancel
    <2> DEFINE n == [NoRequest EXCEPT !.op = "cancel", !.actor = a, !.id = i,
                 !.pc = pc, !.code = code, !.owner = booking[i].owner, !.head = booking[i].slot]
    <2>3. /\ n.share = {} /\ n.excl = {} /\ n.pc = pc /\ n.op = "cancel" /\ n.id = i
          /\ n.owner = booking[i].owner
      BY DEF NoRequest
    <2> HIDE DEF n
    <2>4. Becomes(q, n)
      BY <2>1 DEF n
    <2>6. Sends(req[q], n)
      BY <1>0, <1>7, <2>1, <2>3 DEF SubmitCancel, Idle, Sends
    <2> QED BY <1>1, <2>4, <2>6
  <1>8. CASE SubmitQr(q) \/ SubmitDeactivate(q) \/ SubmitRoom(q)
    <2>1. PICK op, n :
            /\ op \in {"qr", "deactivate", "room"} \cap Ops /\ Becomes(q, n) /\ n.op = op
            /\ n.pc = IF op = "room" THEN "rooms" ELSE "users"
            /\ n.share = {} /\ n.excl = {}
      <3>1. CASE SubmitQr(q)
        <4>1. PICK a, r : Becomes(q, [NoRequest EXCEPT !.op = "qr", !.pc = "users",
                                        !.actor = a, !.owner = a, !.to.room = r])
          BY <3>1 DEF SubmitQr
        <4> DEFINE n == [NoRequest EXCEPT !.op = "qr", !.pc = "users",
                                        !.actor = a, !.owner = a, !.to.room = r]
        <4>2. n.op = "qr" /\ n.pc = "users" /\ n.share = {} /\ n.excl = {}
          BY DEF NoRequest
        <4> HIDE DEF n
        <4>3. Becomes(q, n) /\ "qr" \in Ops
          BY <3>1, <4>1 DEF n, SubmitQr, Idle
        <4> QED BY <4>2, <4>3
      <3>2. CASE SubmitDeactivate(q)
        <4>1. PICK a, u : Becomes(q, [NoRequest EXCEPT !.op = "deactivate", !.pc = "users",
                                        !.actor = a, !.owner = u])
          BY <3>2 DEF SubmitDeactivate
        <4> DEFINE n == [NoRequest EXCEPT !.op = "deactivate", !.pc = "users",
                                        !.actor = a, !.owner = u]
        <4>2. n.op = "deactivate" /\ n.pc = "users" /\ n.share = {} /\ n.excl = {}
          BY DEF NoRequest
        <4> HIDE DEF n
        <4>3. Becomes(q, n) /\ "deactivate" \in Ops
          BY <3>2, <4>1 DEF n, SubmitDeactivate, Idle
        <4> QED BY <4>2, <4>3
      <3>3. CASE SubmitRoom(q)
        <4>1. PICK a, r : Becomes(q, [NoRequest EXCEPT !.op = "room", !.pc = "rooms",
                                        !.actor = a, !.to.room = r])
          BY <3>3 DEF SubmitRoom
        <4> DEFINE n == [NoRequest EXCEPT !.op = "room", !.pc = "rooms",
                                        !.actor = a, !.to.room = r]
        <4>2. n.op = "room" /\ n.pc = "rooms" /\ n.share = {} /\ n.excl = {}
          BY DEF NoRequest
        <4> HIDE DEF n
        <4>3. Becomes(q, n) /\ "room" \in Ops
          BY <3>3, <4>1 DEF n, SubmitRoom, Idle
        <4> QED BY <4>2, <4>3
      <3> QED BY <1>8, <3>1, <3>2, <3>3
    <2>2. Sends(req[q], n)
      BY <1>0, <2>1 DEF Sends
    <2> QED BY <1>1, <2>1, <2>2
  <1> QED BY <1>2, <1>3, <1>4, <1>5, <1>6, <1>7, <1>8 DEF Submit

LEMMA WriteAnswers ==
  ASSUME TypeOK, NEW q \in Requests, Write(q)
  PROVE  /\ Answers(req[q], req'[q]) /\ \A p \in Others(q) : req'[p] = req[p]
         /\ req[q].op # "room" => req[q].pc = "write"
  <1>1. /\ req[q].pc \in {"decide", "write"} /\ \E code, i : Reply(q, code, i)
        /\ req[q].op # "room" => req[q].pc = "write"
    BY DEF Write, WriteCreate, WritePatch, WriteAttendees, WriteCheckin, WriteDemo,
           WriteCancel, WriteQr, WriteDeactivate, WriteRoom, At
  <1> QED BY <1>1, ReplyAnswers

LEMMA PrepareWalks ==
  ASSUME TypeOK, NEW q \in Requests, Prepare(q)
  PROVE  /\ Advances(q, req'[q]) \/ Declines(req[q], req'[q])
         /\ \A p \in Others(q) : req'[p] = req[p]
  <1> DEFINE r == req[q]
             Goal == /\ Advances(q, req'[q]) \/ Declines(req[q], req'[q])
                     /\ \A p \in Others(q) : req'[p] = req[p]
  <1> SUFFICES Goal
    OBVIOUS
  <1>0. r \in Request
    BY RequestType
  <1>1. ASSUME NEW n, Becomes(q, n), Advances(q, n) PROVE Goal
    BY <1>1, StepsAlone
  <1>2. ASSUME NEW code, NEW i, Reply(q, code, i), r.pc \notin {"idle", "done"}, code # "ok",
               r.op = "create" /\ code = "replay" => i \in Prior(r.actor, r.key),
               r.op = "create" /\ code \notin {"replay", "aborted"}
                 => r.pc \in InTx \/ Prior(r.actor, r.key) = {}
        PROVE  Goal
    BY <1>2, ReplyAnswers DEF Declines
  <1> HIDE DEF Goal
  <1>3. Prior(r.actor, r.key) # {} => PriorId(r.actor, r.key) \in Prior(r.actor, r.key)
    BY DEF PriorId
  <1>4. CASE Validate(q)
    <2>1. CASE Becomes(q, [r EXCEPT !.pc = "idem"])
      <3> DEFINE n == [r EXCEPT !.pc = "idem"]
      <3>1. Carries(r, n) /\ SameAim(r, n) /\ SameLocks(r, n) /\ n.pc = "idem"
        BY <1>0 DEF Request, Carries, SameAim, SameLocks
      <3> HIDE DEF n
      <3>2. Advances(q, n)
        BY <1>4, <3>1 DEF Validate, At, Advances
      <3> QED BY <1>1, <2>1, <3>2 DEF n
    <2> QED BY <1>2, <1>3, <1>4, <2>1 DEF Validate, At
  <1>5. CASE LockKey(q)
    <2>1. CASE Becomes(q, [r EXCEPT !.pc = "users"]) /\ Prior(r.actor, r.key) = {}
      <3> DEFINE n == [r EXCEPT !.pc = "users"]
      <3>1. Carries(r, n) /\ SameAim(r, n) /\ SameLocks(r, n) /\ n.pc = "users"
        BY <1>0 DEF Request, Carries, SameAim, SameLocks
      <3> HIDE DEF n
      <3>2. Advances(q, n)
        BY <1>5, <2>1, <3>1 DEF LockKey, At, Advances
      <3> QED BY <1>1, <2>1, <3>2 DEF n
    <2> QED BY <1>2, <1>3, <1>5, <2>1 DEF LockKey, At
  <1>6. CASE ReadHead(q)
    <2> DEFINE b == booking[r.id]
               n == [r EXCEPT !.pc = "users", !.owner = b.owner, !.head = b.slot]
    <2>1. Becomes(q, n) /\ r.pc = "head"
      BY <1>6 DEF ReadHead
    <2>2. Carries(r, n) /\ SameLocks(r, n) /\ n.pc = "users" /\ n.id = r.id /\ n.to = r.to
          /\ n.owner = b.owner /\ n.head = b.slot
      BY <1>0 DEF Request, Carries, SameLocks
    <2> HIDE DEF n
    <2>3. Advances(q, n)
      BY <2>1, <2>2 DEF Advances
    <2> QED BY <1>1, <2>1, <2>3
  <1>7. CASE LockUsers(q)
    <2> DEFINE us == {r.actor, r.owner}
    <2>1. ASSUME NEW share, Becomes(q, [r EXCEPT !.pc = "rooms", !.share = share]),
                 share \subseteq us,
                 r.op \in {"create", "patch", "demo"} => Active(r.owner) /\ r.owner \in share
          PROVE  Goal
      <3> DEFINE n == [r EXCEPT !.pc = "rooms", !.share = share]
      <3>1. Carries(r, n) /\ SameAim(r, n) /\ n.excl = r.excl /\ n.pc = "rooms" /\ n.share = share
        BY <1>0 DEF Request, Carries, SameAim
      <3> HIDE DEF n
      <3>2. Advances(q, n)
        BY <1>7, <2>1, <3>1 DEF LockUsers, Advances
      <3> QED BY <1>1, <2>1, <3>2 DEF n
    <2>2. CASE Reply(q, "refused", r.id)
      <3>1. r.pc = "users"
        BY <1>7 DEF LockUsers
      <3> QED BY <1>2, <2>2, <3>1 DEF InTx
    <2>3. CASE ~ \/ ~Active(r.actor)
                 \/ r.op \in NeedsActiveOwner /\ ~Active(r.owner)
                 \/ r.op = "demo" /\ r.owner # r.actor
      <3>1. Becomes(q, [r EXCEPT !.pc = "rooms",
                !.share = IF r.op = "cancel" THEN us ELSE {u \in us : Active(u)}])
        BY <1>7, <2>3 DEF LockUsers
      <3> DEFINE share == IF r.op = "cancel" THEN us ELSE {u \in us : Active(u)}
      <3>2. share \subseteq us
        OBVIOUS
      <3>3. r.op \in {"create", "patch", "demo"} => Active(r.owner) /\ r.owner \in share
        BY <2>3 DEF NeedsActiveOwner
      <3> HIDE DEF share
      <3>4. Becomes(q, [r EXCEPT !.pc = "rooms", !.share = share])
        BY <3>1 DEF share
      <3> QED BY <2>1, <3>2, <3>3, <3>4
    <2> QED BY <1>7, <2>2, <2>3 DEF LockUsers
  <1>8. CASE LockTarget(q)
    <2>1. CASE Becomes(q, [r EXCEPT !.excl = {r.owner}, !.pc = "resolve"])
      <3> DEFINE n == [r EXCEPT !.excl = {r.owner}, !.pc = "resolve"]
      <3>1. /\ Carries(r, n) /\ SameAim(r, n) /\ n.share = r.share /\ n.excl = {r.owner}
            /\ n.pc = "resolve"
        BY <1>0 DEF Request, Carries, SameAim
      <3> HIDE DEF n
      <3>2. Advances(q, n)
        BY <1>8, <3>1 DEF LockTarget, At, Advances
      <3> QED BY <1>1, <2>1, <3>2 DEF n
    <2>2. CASE \E code : Reply(q, code, r.id) /\ code # "ok"
      <3>1. r.op = "deactivate" /\ r.pc = "users"
        BY <1>8 DEF LockTarget, At
      <3> QED BY <1>2, <2>2, <3>1
    <2> QED BY <1>8, <2>1, <2>2 DEF LockTarget
  <1>9. CASE ResolveRooms(q)
    <2> DEFINE rs == {booking[i].slot.room : i \in Doomed(r.owner, now)}
    <2>1. Becomes(q, [r EXCEPT !.need = rs, !.pc = "rooms"])
      BY <1>9 DEF ResolveRooms
    <2> HIDE DEF rs
    <2> DEFINE n == [r EXCEPT !.need = rs, !.pc = "rooms"]
    <2>2. Carries(r, n) /\ SameAim(r, n) /\ SameLocks(r, n) /\ n.pc = "rooms"
      BY <1>0 DEF Request, Carries, SameAim, SameLocks
    <2> HIDE DEF n
    <2>3. Advances(q, n)
      BY <1>9, <2>2 DEF ResolveRooms, At, Advances
    <2> QED BY <1>1, <2>1, <2>3 DEF n
  <1>10. CASE LockRooms(q)
    <2> DEFINE rs == NeededRooms(r)
               n == [r EXCEPT !.rooms = rs, !.pc = "decide"]
    <2>1. Becomes(q, n) /\ r.pc = "rooms"
      BY <1>10 DEF LockRooms
    <2> HIDE DEF rs
    <2>2. Carries(r, n) /\ SameAim(r, n) /\ SameLocks(r, n) /\ n.pc = "decide"
      BY <1>0 DEF Request, Carries, SameAim, SameLocks
    <2> HIDE DEF n
    <2>3. Advances(q, n)
      BY <2>1, <2>2 DEF Advances
    <2> QED BY <1>1, <2>1, <2>3
  <1>11. CASE DecideCreate(q) \/ DecidePatch(q)
    <2>0. r.op \in {"create", "patch"} /\ r.pc = "decide"
      BY <1>11 DEF DecideCreate, DecidePatch, At
    <2>1. ASSUME NEW row \in BOOLEAN, roomOn[r.to.room],
                 Becomes(q, [r EXCEPT !.row = row, !.at = now, !.pc = "write"])
          PROVE  Goal
      <3> DEFINE n == [r EXCEPT !.row = row, !.at = now, !.pc = "write"]
      <3>1. Carries(r, n) /\ SameAim(r, n) /\ SameLocks(r, n) /\ n.pc = "write"
        BY <1>0 DEF Request, Carries, SameAim, SameLocks
      <3> HIDE DEF n
      <3>2. Advances(q, n)
        BY <2>0, <2>1, <3>1 DEF Advances
      <3> QED BY <1>1, <2>1, <3>2 DEF n
    <2>2. CASE \E code : Reply(q, code, r.id) /\ code \notin {"ok", "replay"}
      BY <1>2, <2>0, <2>2 DEF InTx
    <2>3. CASE Becomes(q, [r EXCEPT !.at = now, !.pc = "write"]) /\ roomOn[r.to.room]
      <3>1. [r EXCEPT !.at = now, !.pc = "write"] =
              [r EXCEPT !.row = r.row, !.at = now, !.pc = "write"] /\ r.row \in BOOLEAN
        BY <1>0 DEF Request
      <3> QED BY <2>1, <2>3, <3>1
    <2>4. CASE DecideCreate(q)
      <3>1. \/ Becomes(q, [r EXCEPT !.at = now, !.pc = "write"]) /\ roomOn[r.to.room]
            \/ Reply(q, "SLOT_UNAVAILABLE", r.id)
            \/ Reply(q, "refused", r.id)
        BY <2>4 DEF DecideCreate
      <3> QED BY <2>2, <2>3, <3>1
    <2>5. CASE DecidePatch(q)
      <3>1. \/ /\ Becomes(q, [r EXCEPT !.row = TRUE, !.at = now, !.pc = "write"])
               /\ roomOn[r.to.room]
            \/ Reply(q, "SLOT_UNAVAILABLE", r.id)
            \/ Reply(q, "refused", r.id)
        BY <2>5 DEF DecidePatch
      <3>2. CASE /\ Becomes(q, [r EXCEPT !.row = TRUE, !.at = now, !.pc = "write"])
                 /\ roomOn[r.to.room]
        <4>1. TRUE \in BOOLEAN
          OBVIOUS
        <4> QED BY <2>1, <3>2, <4>1, Zenon
      <3> QED BY <2>2, <3>1, <3>2
    <2> QED BY <1>11, <2>4, <2>5
  <1>12. CASE DecideDemo(q)
    <2> DEFINE b == booking[r.id]
               len == b.slot.end - b.slot.start
               start == DemoStart(now, len)
               to == [b.slot EXCEPT !.start = start, !.end = start + len]
    <2>0. r.op = "demo" /\ r.pc = "decide"
      BY <1>12 DEF DecideDemo, At
    <2>1. CASE roomOn[b.slot.room] /\
               Becomes(q, [r EXCEPT !.row = TRUE, !.at = now, !.to = to, !.pc = "write"])
      <3>1. to.room = b.slot.room
        BY RowType, RequestType DEF Slot
      <3> HIDE DEF to
      <3> DEFINE n == [r EXCEPT !.row = TRUE, !.at = now, !.to = to, !.pc = "write"]
      <3>2. /\ Carries(r, n) /\ SameLocks(r, n) /\ n.pc = "write" /\ n.to = to
            /\ n.id = r.id /\ n.owner = r.owner /\ n.head = r.head
        BY <1>0 DEF Request, Carries, SameLocks
      <3>3. Becomes(q, n)
        BY <2>1
      <3> HIDE DEF n
      <3>4. Advances(q, n)
        BY <2>0, <2>1, <3>1, <3>2 DEF Advances
      <3> QED BY <1>1, <3>3, <3>4
    <2>2. CASE \E code : Reply(q, code, r.id) /\ code # "ok"
      BY <1>2, <2>0, <2>2
    <2> QED BY <1>12, <2>1, <2>2 DEF DecideDemo
  <1>13. CASE DecisionTime(q)
    <2> DEFINE pc == IF r.op = "qr" THEN "select" ELSE "write"
               n == [r EXCEPT !.at = now, !.pc = pc]
    <2>1. /\ Becomes(q, n) /\ r.pc = "decide"
          /\ r.op \in {"attendees", "checkin", "cancel", "qr", "deactivate"}
      BY <1>13 DEF DecisionTime
    <2> HIDE DEF pc
    <2>2. Carries(r, n) /\ SameAim(r, n) /\ SameLocks(r, n) /\ n.pc = pc
      BY <1>0 DEF Request, Carries, SameAim, SameLocks
    <2> HIDE DEF n
    <2>3. Advances(q, n)
      BY <2>1, <2>2 DEF Advances, pc
    <2> QED BY <1>1, <2>1, <2>3
  <1>14. CASE SelectQr(q)
    <2>0. r.op = "qr" /\ r.pc = "select"
      BY <1>14 DEF SelectQr, At
    <2>1. ASSUME NEW i \in Ids, Becomes(q, [r EXCEPT !.id = i, !.pc = "write"]) PROVE Goal
      <3> DEFINE n == [r EXCEPT !.id = i, !.pc = "write"]
      <3>1. Carries(r, n) /\ SameLocks(r, n) /\ n.pc = "write"
        BY <1>0 DEF Request, Carries, SameLocks
      <3> HIDE DEF n
      <3>2. Advances(q, n)
        BY <2>0, <3>1 DEF Advances
      <3> QED BY <1>1, <2>1, <3>2 DEF n
    <2>2. ASSUME NEW code \in {"already", "refused"}, NEW i, Reply(q, code, i) PROVE Goal
      BY <1>2, <2>0, <2>2
    <2>3. \/ \E i \in Ids : Becomes(q, [r EXCEPT !.id = i, !.pc = "write"])
          \/ \E i : Reply(q, "already", i)
          \/ Reply(q, "refused", r.id)
      BY <1>14 DEF SelectQr
    <2> QED BY <2>1, <2>2, <2>3
  <1> QED BY <1>4, <1>5, <1>6, <1>7, <1>8, <1>9, <1>10, <1>11, <1>12, <1>13, <1>14 DEF Prepare

LEMMA AbortWalks ==
  ASSUME TypeOK, NEW q \in Requests, Abort(q)
  PROVE  /\ Restarts(req[q], req'[q]) \/ Declines(req[q], req'[q])
         /\ \A p \in Others(q) : req'[p] = req[p]
  <1> DEFINE r == req[q]
             n == [r EXCEPT !.pc = FirstStep(r.op), !.again = TRUE,
                 !.rooms = {}, !.share = {}, !.excl = {}, !.row = FALSE, !.need = {}, !.at = 0]
  <1>0. r \in Request /\ r.pc \notin {"idle", "validate", "done"}
    BY RequestType DEF Abort
  <1>1. CASE Becomes(q, n)
    <2>1. /\ Carries(r, n) /\ SameAim(r, n) /\ n.share = {} /\ n.excl = {}
          /\ n.pc = FirstStep(r.op)
      BY <1>0 DEF Request, Carries, SameAim
    <2> HIDE DEF n
    <2>2. req'[q] = n /\ \A p \in Others(q) : req'[p] = req[p]
      BY <1>1, StepsAlone
    <2> QED BY <1>0, <2>1, <2>2 DEF Restarts
  <1>2. CASE Reply(q, "aborted", r.id)
    BY <1>0, <1>2, ReplyAnswers DEF Declines
  <1> QED BY <1>1, <1>2 DEF Abort, Refuse

\* Every step of the system, seen from the requests: one of them is sent, goes on, starts again
\* or is answered, and the others stand still.
LEMMA Walk ==
  ASSUME TypeOK, [Next]_vars
  PROVE  \/ UNCHANGED req
         \/ \E q \in Requests :
              /\ \A p \in Others(q) : req'[p] = req[p]
              /\ \/ Submit(q) /\ Sends(req[q], req'[q])
                 \/ Prepare(q) /\ (Advances(q, req'[q]) \/ Declines(req[q], req'[q]))
                 \/ Abort(q) /\ (Restarts(req[q], req'[q]) \/ Declines(req[q], req'[q]))
                 \/ Write(q) /\ Answers(req[q], req'[q])
  <1>1. ASSUME NEW q \in Requests, Submit(q) \/ Prepare(q) \/ Write(q) \/ Abort(q)
        PROVE  /\ \A p \in Others(q) : req'[p] = req[p]
               /\ \/ Submit(q) /\ Sends(req[q], req'[q])
                  \/ Prepare(q) /\ (Advances(q, req'[q]) \/ Declines(req[q], req'[q]))
                  \/ Abort(q) /\ (Restarts(req[q], req'[q]) \/ Declines(req[q], req'[q]))
                  \/ Write(q) /\ Answers(req[q], req'[q])
    BY <1>1, SubmitSends, PrepareWalks, AbortWalks, WriteAnswers
  <1>2. CASE SweepBegin \/ SweepRun \/ SweepLost \/ Tick \/ Over \/ UNCHANGED vars
    BY <1>2 DEF SweepBegin, SweepRun, SweepLost, Tick, Over, vars
  <1> QED BY <1>1, <1>2 DEF Next

----------------------------------------------------------------------------
(***************************************************************************)
(* The gap.  A step of a request either changes its own record alone       *)
(* (OwnStep) or writes (WriteStep).  What a write does to the table is one *)
(* of two things: it lets go of slots (Ebbs) or puts one booking into a    *)
(* slot nobody else is near (Places).                                      *)
(***************************************************************************)

\* No row comes to hold a slot, or another slot; what is over stays over.
Ebbs ==
    \A i \in Ids : /\ booking'[i].slot = booking[i].slot
                   /\ \/ booking'[i].status = booking[i].status
                      \/ Holds(i) /\ booking'[i].status # "NONE"

Apart(i, s) == \A j \in Ids \ {i} : Holds(j) => ~Clash(booking[j].slot, Widen(s))

\* Request q takes a clear slot for row i, and holds the rooms the row enters and leaves.
TakesAt(q, i) ==
    /\ \A j \in Ids \ {i} : booking'[j] = booking[j]
    /\ Apart(i, booking'[i].slot)
    /\ booking'[i].slot.room \in req[q].rooms
    /\ booking[i].status # "NONE" => booking[i].slot.room \in req[q].rooms
\* It books or moves the row: the slot is the one it asked for.
PlacesAt(q, i) ==
    /\ TakesAt(q, i)
    /\ booking[i].status \in {"NONE", "CONFIRMED"} /\ booking'[i].status = "CONFIRMED"
    /\ booking'[i].slot = req[q].to
    /\ req[q].pc = "write" /\ req[q].op \in {"create", "patch", "demo"}
Places(q) == \E i \in Ids : PlacesAt(q, i)
\* It checks the row in by its room, be it over by now: the slot is the one the row had.
RevivesAt(q, i) ==
    /\ TakesAt(q, i)
    /\ booking[i].status # "NONE" /\ booking'[i].status = "CHECKED_IN"
    /\ booking'[i].slot = booking[i].slot
    /\ req[q].op = "qr"
Revives(q) == \E i \in Ids : RevivesAt(q, i)
Takes(q) == \E i \in Ids : TakesAt(q, i)

\* A row that is there stays there, and every change of it is a new version.
Grows ==
    \A i \in Ids : booking[i].status # "NONE" =>
       /\ booking'[i].status # "NONE"
       /\ booking'[i] = booking[i] \/ booking'[i].version > booking[i].version

\* Nobody but q writes a row that is locked.
RowsKept(q) == \A p \in Others(q) : req[p].row => booking'[req[p].id] = booking[req[p].id]

\* What GapInvariant says of request q, were its record r.
FreshIn(r) ==
    r.op \in {"patch", "demo"} /\ r.pc # "done" =>
      /\ r.ver <= booking[r.id].version
      /\ r.ver = booking[r.id].version /\ (r.op = "patch" \/ r.pc # "head")
           => r.head = booking[r.id].slot
ProbedIn(r) ==
    /\ r.pc = "write" /\ r.op = "create" => BufferClear(NoId, r.to)
    /\ r.pc = "write" /\ r.op = "patch" /\ Moved(r) => BufferClear(r.id, r.to)
    /\ r.pc = "write" /\ r.op = "demo" => /\ BufferClear(r.id, r.to)
                                          /\ r.to.room = r.head.room
                                          /\ r.to.room = booking[r.id].slot.room
                                          /\ booking[r.id].status = "CONFIRMED"
    /\ r.pc = "write" /\ r.op = "qr" => /\ BufferClear(r.id, booking[r.id].slot)
                                        /\ booking[r.id].slot.room = r.to.room
                                        /\ booking[r.id].status # "NONE"
Fits(q, r) ==
    /\ RoomsFree(q, r.rooms)
    /\ r.pc \in PastRooms => r.rooms = NeededRooms(r)
    /\ r.row => RowFree(q, r.id) /\ r.op \in {"patch", "demo"}
    /\ r.pc = "write" /\ r.op \in {"patch", "demo"} => r.row
    /\ r.op \in Named => booking[r.id].status # "NONE"
    /\ FreshIn(r)
    /\ ProbedIn(r)

----------------------------------------------------------------------------
(* Windows *)

LEMMA ClashBothWays ==
  ASSUME NEW s \in Slot, NEW t \in Slot
  PROVE  /\ Clash(s, Widen(t)) <=> Clash(t, Widen(s))
         /\ Clash(s, t) <=> Clash(t, s)
         /\ Clash(s, t) => Clash(s, Widen(t))
         /\ Buffer = 0 => (Clash(s, Widen(t)) <=> Clash(s, t))
  <1>1. Buffer \in Nat
    BY SettingsAssumption
  <1>2. /\ s.start \in Int /\ s.end \in Int /\ t.start \in Int /\ t.end \in Int
        /\ Widen(t).room = t.room /\ Widen(t).start = t.start - Buffer
        /\ Widen(t).end = t.end + Buffer
        /\ Widen(s).room = s.room /\ Widen(s).start = s.start - Buffer
        /\ Widen(s).end = s.end + Buffer
    BY <1>1 DEF Slot, Widen
  <1> QED BY <1>1, <1>2 DEF Clash

\* The two probes together are the gap, whether one is configured or not.
LEMMA ProbesAreTheGap ==
  ASSUME TypeOK, NEW i, NEW s \in Slot, BufferClear(i, s), ExcludeOK(i, s)
  PROVE  Apart(i, s)
  <1>1. Buffer \in Nat /\ \A j \in Ids : booking[j].slot \in Slot
    BY SettingsAssumption, RowType
  <1>2. CASE Buffer > 0
    BY <1>2 DEF BufferClear, Apart
  <1>3. CASE Buffer = 0
    BY <1>1, <1>3, ClashBothWays DEF ExcludeOK, Apart
  <1> QED BY <1>1, <1>2, <1>3

LEMMA RoomsApart ==
  ASSUME NEW s, NEW t, s.room # t.room
  PROVE  ~Clash(s, t) /\ ~Clash(s, Widen(t))
  BY DEF Clash, Widen

----------------------------------------------------------------------------
(* The two kinds of steps *)

LEMMA FitsNow == ASSUME GapInvariant, NEW q \in Requests PROVE Fits(q, req[q])
  <1>1. RoomsFree(q, req[q].rooms)
    BY DEF GapInvariant, RoomLocks, RoomsFree, Others
  <1>2. req[q].row => RowFree(q, req[q].id)
    BY DEF GapInvariant, RowLocks, RowFree, Others
  <1>3. FreshIn(req[q])
    BY DEF GapInvariant, HeadsFresh, FreshIn
  <1>4. ProbedIn(req[q])
    BY DEF GapInvariant, Probed, ProbedIn, Writing, At
  <1> QED BY <1>1, <1>2, <1>3, <1>4
          DEF GapInvariant, RoomLocks, RowLocks, RowsExist, Writing, At, Fits

LEMMA OwnStep ==
  ASSUME TypeOK, GapInvariant, NEW q \in Requests, NEW r, Becomes(q, r), Fits(q, r),
         UNCHANGED booking
  PROVE  GapInvariant'
  <1>1. req'[q] = r /\ \A p \in Others(q) : req'[p] = req[p]
    BY DEF TypeOK, Becomes, Others
  <1>2. BufferKept'
    BY DEF GapInvariant, BufferKept, Holds
  <1>3. RoomLocks'
    <2>1. \A p \in Others(q) : req'[p].rooms \cap req'[q].rooms = {}
      BY <1>1 DEF Fits, RoomsFree
    <2> QED BY <1>1, <2>1 DEF GapInvariant, RoomLocks, Fits, Others
  <1>4. RowLocks'
    BY <1>1 DEF GapInvariant, RowLocks, Fits, RowFree, Others, Writing, At
  <1>5. RowsExist'
    BY <1>1 DEF GapInvariant, RowsExist, Fits, Others
  <1>6. HeadsFresh'
    BY <1>1 DEF GapInvariant, HeadsFresh, Fits, FreshIn, Others
  <1>7. Probed'
    <2>1. \A i, s : BufferClear(i, s)' <=> BufferClear(i, s)
      BY DEF BufferClear, Holds
    <2>2. \A p \in Requests : ProbedIn(req'[p])
      BY <1>1, FitsNow DEF Fits, Others
    <2> QED BY <2>1, <2>2 DEF ProbedIn, Probed, Writing, At
  <1> QED BY <1>2, <1>3, <1>4, <1>5, <1>6, <1>7 DEF GapInvariant

LEMMA EbbKeepsProbe ==
  ASSUME Ebbs, NEW i, NEW s, BufferClear(i, s)
  PROVE  BufferClear(i, s)'
  BY DEF Ebbs, BufferClear, Holds

LEMMA TakeKeepsProbe ==
  ASSUME NEW q \in Requests, Takes(q), NEW i, NEW s, BufferClear(i, s), s.room \notin req[q].rooms
  PROVE  BufferClear(i, s)'
  <1>1. PICK k \in Ids : TakesAt(q, k)
    BY DEF Takes
  <1>2. ~Clash(booking'[k].slot, Widen(s))
    BY <1>1, RoomsApart DEF TakesAt
  <1> QED BY <1>1, <1>2 DEF TakesAt, BufferClear, Holds

LEMMA TakeKeepsGap ==
  ASSUME TypeOK, TypeOK', BufferKept, NEW q \in Requests, Takes(q)
  PROVE  BufferKept'
  <1>1. PICK k \in Ids : TakesAt(q, k)
    BY DEF Takes
  <1>2. \A i \in Ids : booking[i].slot \in Slot /\ booking'[i].slot \in Slot
    BY DEF TypeOK, Booking
  <1>3. \A j \in Ids \ {k} : Holds(j)' =>
           /\ ~Clash(booking'[j].slot, Widen(booking'[k].slot))
           /\ ~Clash(booking'[k].slot, Widen(booking'[j].slot))
    BY <1>1, <1>2, ClashBothWays DEF TakesAt, Apart, Holds
  <1>4. \A i, j \in Ids \ {k} : i # j /\ Holds(i)' /\ Holds(j)' =>
           ~Clash(booking'[i].slot, Widen(booking'[j].slot))
    BY <1>1 DEF TakesAt, BufferKept, Holds
  <1> QED BY <1>3, <1>4 DEF BufferKept

\* Who takes a slot leaves alone the rows of every room whose lock it does not hold.
LEMMA TakeKeepsRow ==
  ASSUME NEW q \in Requests, Takes(q), NEW i \in Ids,
         booking[i].status # "NONE", booking[i].slot.room \notin req[q].rooms
  PROVE  booking'[i] = booking[i]
  BY DEF Takes, TakesAt

LEMMA WriteStep ==
  ASSUME TypeOK, TypeOK', GapInvariant, NEW q \in Requests, NEW code, NEW i,
         Reply(q, code, i), req[q].op \in Named => i = req[q].id,
         Ebbs \/ Takes(q), Grows, RowsKept(q)
  PROVE  GapInvariant'
  <1>1. /\ \A p \in Others(q) : req'[p] = req[p]
        /\ req'[q].op = req[q].op /\ req'[q].pc = "done" /\ req'[q].id = i
        /\ req'[q].rooms = {} /\ ~req'[q].row
    BY DEF TypeOK, Reply, Becomes, Others, NoRequest
  <1>2. \A p \in Requests : req[p] \in Request /\ req[p].id \in Ids
    BY RequestType
  <1>3. BufferKept'
    <2>1. CASE Ebbs
      BY <2>1 DEF Ebbs, GapInvariant, BufferKept, Holds
    <2> QED BY <2>1, TakeKeepsGap DEF GapInvariant
  <1>4. RoomLocks'
    BY <1>1 DEF GapInvariant, RoomLocks, Others, PastRooms
  <1>5. RowLocks'
    BY <1>1 DEF GapInvariant, RowLocks, Others, Writing, At
  <1>6. RowsExist'
    BY <1>1, <1>2 DEF GapInvariant, RowsExist, Others, Grows
  <1>7. HeadsFresh'
    <2> SUFFICES ASSUME NEW p \in Others(q), req[p].op \in {"patch", "demo"}, req[p].pc # "done"
                 PROVE  /\ req[p].ver <= booking'[req[p].id].version
                        /\ /\ req[p].ver = booking'[req[p].id].version
                           /\ req[p].op = "patch" \/ req[p].pc # "head"
                           => req[p].head = booking'[req[p].id].slot
      BY <1>1 DEF HeadsFresh, Others
    <2>1. booking[req[p].id].status # "NONE" /\ req[p].id \in Ids /\ req[p].ver \in Nat
      BY <1>2 DEF GapInvariant, RowsExist, Named, Others, Request
    <2>2. booking[req[p].id].version \in Nat /\ booking'[req[p].id].version \in Nat
      BY <2>1 DEF TypeOK, Booking
    <2> QED BY <2>1, <2>2 DEF GapInvariant, HeadsFresh, Grows, Others
  <1>8. Probed'
    <2> SUFFICES ASSUME NEW p \in Others(q), req[p].pc = "write"
                 PROVE  ProbedIn(req[p])'
      BY <1>1 DEF Probed, ProbedIn, Writing, At, Others
    <2>1. ProbedIn(req[p]) /\ Fits(p, req[p]) /\ req[p].id \in Ids
      BY <1>2, FitsNow DEF Fits, Others
    <2>2. req[p].op \in {"create", "patch", "demo", "qr"} => req[p].to.room \notin req[q].rooms
      <3>1. req[p].op \in {"create", "patch", "demo", "qr"} => req[p].to.room \in req[p].rooms
        BY <2>1 DEF Fits, ProbedIn, NeededRooms, PastRooms
      <3> QED BY <3>1 DEF GapInvariant, RoomLocks, Others
    <2>3. \A j, s : BufferClear(j, s) /\ s.room \notin req[q].rooms => BufferClear(j, s)'
      BY EbbKeepsProbe, TakeKeepsProbe
    <2>4. req[p].op = "demo" => booking'[req[p].id] = booking[req[p].id]
      BY <2>1 DEF Fits, RowsKept
    <2>5. req[p].op = "qr" => /\ booking'[req[p].id].slot = booking[req[p].id].slot
                              /\ booking'[req[p].id].status # "NONE"
      <3> HAVE req[p].op = "qr"
      <3>1. /\ booking[req[p].id].status # "NONE"
            /\ booking[req[p].id].slot.room \notin req[q].rooms
        BY <2>1, <2>2 DEF ProbedIn
      <3>2. CASE Ebbs
        BY <2>1, <3>1, <3>2 DEF Ebbs, Holds, Live
      <3>3. CASE Takes(q)
        BY <2>1, <3>1, <3>3, TakeKeepsRow
      <3> QED BY <3>2, <3>3
    <2>6. req'[p] = req[p]
      BY <1>1
    <2> QED BY <2>1, <2>2, <2>3, <2>4, <2>5, <2>6 DEF ProbedIn, Moved
  <1> QED BY <1>3, <1>4, <1>5, <1>6, <1>7, <1>8 DEF GapInvariant

LEMMA RefuseStep ==
  ASSUME TypeOK, GapInvariant, NEW q \in Requests, NEW code, NEW i, Reply(q, code, i),
         req[q].op \in Named => i = req[q].id, UNCHANGED booking
  PROVE  GapInvariant'
  <1> DEFINE r == [NoRequest EXCEPT !.op = req[q].op, !.pc = "done", !.actor = req[q].actor,
                                    !.key = req[q].key, !.id = i, !.code = code]
  <1>1. /\ r.op = req[q].op /\ r.pc = "done" /\ r.id = i /\ r.rooms = {} /\ ~r.row
    BY DEF NoRequest
  <1>2. Becomes(q, r)
    BY DEF Reply
  <1> HIDE DEF r
  <1>3. Fits(q, r)
    BY <1>1, FitsNow DEF Fits, FreshIn, ProbedIn, RoomsFree, PastRooms
  <1> QED BY <1>2, <1>3, OwnStep

\* A request that is new, or that has let go of everything.
LEMMA EarlyFits ==
  ASSUME NEW q \in Requests, NEW r, r.rooms = {}, ~r.row, r.pc \notin PastRooms,
         r.op \in Named => booking[r.id].status # "NONE", FreshIn(r)
  PROVE  Fits(q, r)
  BY DEF Fits, ProbedIn, RoomsFree, PastRooms

----------------------------------------------------------------------------
(* A request is sent *)

LEMMA SubmitCreateGap ==
  ASSUME TypeOK, GapInvariant, NEW q \in Requests, SubmitCreate(q)
  PROVE  GapInvariant'
  <1>1. PICK a \in Users, o \in Users, k \in Keys, r \in Rooms, w \in Spans, g \in GuestLists :
          /\ Active(a)
          /\ o = a \/ a \in Admins
          /\ Becomes(q, AskCreate(a, o, k, AskedSlot(r, w), g))
    BY Zenon DEF SubmitCreate
  <1> DEFINE new == AskCreate(a, o, k, AskedSlot(r, w), g)
  <1>2. /\ new.op = "create" /\ new.pc \notin PastRooms /\ new.rooms = {} /\ ~new.row
    BY DEF AskCreate, NoRequest, PastRooms
  <1> HIDE DEF new
  <1>3. Fits(q, new)
    BY <1>2, EarlyFits DEF FreshIn, Named
  <1>4. UNCHANGED booking
    BY DEF SubmitCreate, Unwritten
  <1>5. Becomes(q, new)
    BY <1>1 DEF new
  <1> QED BY <1>3, <1>4, <1>5, OwnStep

LEMMA SubmitPatchGap ==
  ASSUME TypeOK, GapInvariant, NEW q \in Requests, SubmitPatch(q)
  PROVE  GapInvariant'
  <1>1. PICK a \in Users, i \in Ids, r \in Rooms, w \in Spans, asked \in SUBSET {"room", "time"} :
          LET b == booking[i]  to == Target(b, asked, r, w) IN
          /\ Active(a)
          /\ b.status # "NONE"
          /\ b.owner = a \/ a \in Admins
          /\ to # b.slot => to.start >= now + MinLead
          /\ \E v \in 1..b.version : Becomes(q, AskPatch(a, i, v, asked, to))
    BY Zenon DEF SubmitPatch
  <1> DEFINE to == Target(booking[i], asked, r, w)
  <1>2. PICK v \in 1..booking[i].version : Becomes(q, AskPatch(a, i, v, asked, to))
    BY <1>1
  <1> HIDE DEF to
  <1> DEFINE new == AskPatch(a, i, v, asked, to)
  <1>3. /\ new.op = "patch" /\ new.pc = "users" /\ new.rooms = {} /\ ~new.row
        /\ new.id = i /\ new.ver = v /\ new.head = booking[i].slot
    BY DEF AskPatch, NoRequest
  <1> HIDE DEF new
  <1>4. v <= booking[i].version
    BY RowType
  <1>5. Fits(q, new)
    BY <1>1, <1>3, <1>4, EarlyFits DEF FreshIn, PastRooms
  <1>6. UNCHANGED booking
    BY DEF SubmitPatch, Unwritten
  <1>7. Becomes(q, new)
    BY <1>2 DEF new
  <1> QED BY <1>5, <1>6, <1>7, OwnStep

LEMMA SubmitOtherGap ==
  ASSUME TypeOK, GapInvariant, NEW q \in Requests,
         \/ SubmitAttendees(q) \/ SubmitCheckin(q) \/ SubmitDemo(q) \/ SubmitCancel(q)
         \/ SubmitQr(q) \/ SubmitDeactivate(q) \/ SubmitRoom(q)
  PROVE  GapInvariant'
  <1>1. UNCHANGED booking
    BY DEF SubmitAttendees, SubmitCheckin, SubmitDemo, SubmitCancel, SubmitQr,
           SubmitDeactivate, SubmitRoom, Unwritten
  <1>2. ASSUME NEW r, Becomes(q, r), r.rooms = {}, ~r.row, r.pc \notin PastRooms,
               r.op \notin {"patch", "demo"},
               r.op \in Named => booking[r.id].status # "NONE"
        PROVE  GapInvariant'
    BY <1>1, <1>2, EarlyFits, OwnStep DEF FreshIn
  <1>3. CASE SubmitAttendees(q)
    <2>1. PICK a \in Users, i \in Ids, g \in GuestLists :
            /\ Active(a) /\ booking[i].status # "NONE"
            /\ booking[i].owner = a \/ a \in Admins
            /\ \E v \in 1..booking[i].version :
                 Becomes(q, [NoRequest EXCEPT !.op = "attendees", !.pc = "head",
                           !.actor = a, !.id = i, !.ver = v, !.guests = g])
      BY <1>3, Zenon DEF SubmitAttendees
    <2>2. PICK v \in 1..booking[i].version :
            Becomes(q, [NoRequest EXCEPT !.op = "attendees", !.pc = "head",
                           !.actor = a, !.id = i, !.ver = v, !.guests = g])
      BY <2>1
    <2> DEFINE new == [NoRequest EXCEPT !.op = "attendees", !.pc = "head",
                           !.actor = a, !.id = i, !.ver = v, !.guests = g]
    <2>3. new.rooms = {} /\ ~new.row /\ new.pc = "head" /\ new.op = "attendees" /\ new.id = i
      BY DEF NoRequest
    <2> HIDE DEF new
    <2>4. Becomes(q, new)
      BY <2>2 DEF new
    <2> QED BY <1>2, <2>1, <2>3, <2>4 DEF PastRooms
  <1>4. CASE SubmitCheckin(q)
    <2>1. PICK a \in Users, i \in Ids, m \in {"SELF", "ADMIN"} :
            /\ booking[i].status # "NONE"
            /\ Becomes(q, [NoRequest EXCEPT !.op = "checkin", !.pc = "head",
                           !.actor = a, !.id = i, !.method = m])
      BY <1>4 DEF SubmitCheckin
    <2> DEFINE new == [NoRequest EXCEPT !.op = "checkin", !.pc = "head",
                           !.actor = a, !.id = i, !.method = m]
    <2>3. new.rooms = {} /\ ~new.row /\ new.pc = "head" /\ new.op = "checkin" /\ new.id = i
      BY DEF NoRequest
    <2> HIDE DEF new
    <2>4. Becomes(q, new)
      BY <2>1 DEF new
    <2> QED BY <1>2, <2>1, <2>3, <2>4 DEF PastRooms
  <1>5. CASE SubmitDemo(q)
    <2>1. PICK a \in Users, i \in Ids :
            /\ Active(a) /\ booking[i].status # "NONE"
            /\ \E v \in 1..booking[i].version :
                 Becomes(q, [NoRequest EXCEPT !.op = "demo", !.pc = "head",
                           !.actor = a, !.id = i, !.ver = v])
      BY <1>5, Zenon DEF SubmitDemo
    <2>2. PICK v \in 1..booking[i].version :
            Becomes(q, [NoRequest EXCEPT !.op = "demo", !.pc = "head",
                           !.actor = a, !.id = i, !.ver = v])
      BY <2>1
    <2> DEFINE new == [NoRequest EXCEPT !.op = "demo", !.pc = "head",
                        !.actor = a, !.id = i, !.ver = v]
    <2>3. /\ new.rooms = {} /\ ~new.row /\ new.pc = "head" /\ new.op = "demo" /\ new.id = i
          /\ new.ver = v
      BY DEF NoRequest
    <2> HIDE DEF new
    <2>4. Becomes(q, new)
      BY <2>2 DEF new
    <2>5. v <= booking[i].version
      BY RowType
    <2>6. Fits(q, new)
      BY <2>1, <2>3, <2>5, EarlyFits DEF FreshIn, PastRooms
    <2> QED BY <1>1, <2>4, <2>6, OwnStep
  <1>6. CASE SubmitCancel(q)
    <2>1. PICK a \in Users, i \in Ids, pc \in {"users", "done"},
                code \in {"-", "already", "INVALID_STATUS_TRANSITION"} :
            /\ booking[i].status # "NONE"
            /\ Becomes(q, [NoRequest EXCEPT !.op = "cancel", !.actor = a, !.id = i,
                 !.pc = pc, !.code = code, !.owner = booking[i].owner, !.head = booking[i].slot])
      BY <1>6 DEF SubmitCancel
    <2> DEFINE new == [NoRequest EXCEPT !.op = "cancel", !.actor = a, !.id = i,
                 !.pc = pc, !.code = code, !.owner = booking[i].owner, !.head = booking[i].slot]
    <2>3. new.rooms = {} /\ ~new.row /\ new.pc = pc /\ new.op = "cancel" /\ new.id = i
      BY DEF NoRequest
    <2> HIDE DEF new
    <2>4. Becomes(q, new)
      BY <2>1 DEF new
    <2> QED BY <1>2, <2>1, <2>3, <2>4 DEF PastRooms
  <1>7. CASE SubmitDeactivate(q) \/ SubmitRoom(q)
    <2>1. CASE SubmitDeactivate(q)
      <3>1. PICK a \in Admins, u \in Users :
         Becomes(q, [NoRequest EXCEPT !.op = "deactivate", !.pc = "users",
                      !.actor = a, !.owner = u])
        BY <2>1 DEF SubmitDeactivate
      <3> DEFINE new == [NoRequest EXCEPT !.op = "deactivate", !.pc = "users",
                      !.actor = a, !.owner = u]
      <3>2. new.rooms = {} /\ ~new.row /\ new.pc = "users" /\ new.op = "deactivate"
        BY DEF NoRequest
      <3> HIDE DEF new
      <3>3. Becomes(q, new)
        BY <3>1 DEF new
      <3> QED BY <1>2, <3>2, <3>3 DEF PastRooms, Named
    <2>2. CASE SubmitRoom(q)
      <3>1. PICK a \in Admins, r \in Rooms :
         Becomes(q, [NoRequest EXCEPT !.op = "room", !.pc = "rooms",
                      !.actor = a, !.to.room = r])
        BY <2>2 DEF SubmitRoom
      <3> DEFINE new == [NoRequest EXCEPT !.op = "room", !.pc = "rooms",
                      !.actor = a, !.to.room = r]
      <3>2. new.rooms = {} /\ ~new.row /\ new.pc = "rooms" /\ new.op = "room"
        BY DEF NoRequest
      <3> HIDE DEF new
      <3>3. Becomes(q, new)
        BY <3>1 DEF new
      <3> QED BY <1>2, <3>2, <3>3 DEF PastRooms, Named
    <2> QED BY <1>7, <2>1, <2>2
  <1>8. CASE SubmitQr(q)
    <2>1. PICK a \in Users, r \in Rooms :
         Becomes(q, [NoRequest EXCEPT !.op = "qr", !.pc = "users",
                      !.actor = a, !.owner = a, !.to.room = r])
      BY <1>8 DEF SubmitQr
    <2> DEFINE new == [NoRequest EXCEPT !.op = "qr", !.pc = "users",
                      !.actor = a, !.owner = a, !.to.room = r]
    <2>2. new.rooms = {} /\ ~new.row /\ new.pc = "users" /\ new.op = "qr"
      BY DEF NoRequest
    <2> HIDE DEF new
    <2>3. Becomes(q, new)
      BY <2>1 DEF new
    <2> QED BY <1>2, <2>2, <2>3 DEF PastRooms, Named
  <1> QED BY <1>3, <1>4, <1>5, <1>6, <1>7, <1>8

----------------------------------------------------------------------------
(* A request takes its locks and decides *)

\* A step that leaves alone what the invariant says of a request.
LEMMA QuietStep ==
  ASSUME TypeOK, GapInvariant, NEW q \in Requests, NEW r, Becomes(q, r), UNCHANGED booking,
         r.op = req[q].op, r.id = req[q].id, r.ver = req[q].ver, r.head = req[q].head,
         r.rooms = req[q].rooms, r.row = req[q].row, req[q].pc \notin {"head", "done"},
         r.pc \notin PastRooms \cup {"head", "done"}
  PROVE  GapInvariant'
  <1>1. r.pc # "write"
    BY DEF PastRooms
  <1>2. FreshIn(r)
    BY FitsNow DEF Fits, FreshIn
  <1>3. Fits(q, r)
    BY <1>1, <1>2, FitsNow DEF Fits, ProbedIn
  <1> QED BY <1>3, OwnStep

LEMMA BeforeRoomsGap ==
  ASSUME TypeOK, GapInvariant, NEW q \in Requests,
         Validate(q) \/ LockKey(q) \/ LockUsers(q) \/ LockTarget(q) \/ ResolveRooms(q)
  PROVE  GapInvariant'
  <1>0. UNCHANGED booking /\ req[q] \in Request
    BY RequestType DEF Validate, LockKey, LockUsers, LockTarget, ResolveRooms, Unwritten
  <1>1. CASE /\ req[q].op = "create"
             /\ \E code, i : Reply(q, code, i)
    BY <1>0, <1>1, RefuseStep DEF Named
  <1>2. CASE \E code : Reply(q, code, req[q].id)
    BY <1>0, <1>2, RefuseStep
  <1>3. CASE Validate(q)
    <2>1. CASE Becomes(q, [req[q] EXCEPT !.pc = "idem"])
      <3> DEFINE r == [req[q] EXCEPT !.pc = "idem"]
      <3>1. /\ r.op = req[q].op /\ r.id = req[q].id /\ r.ver = req[q].ver
            /\ r.head = req[q].head /\ r.rooms = req[q].rooms /\ r.row = req[q].row
            /\ r.pc = "idem" /\ req[q].pc = "validate"
        BY <1>0, <1>3 DEF Request, Validate, At
      <3> HIDE DEF r
      <3>2. Becomes(q, r)
        BY <2>1 DEF r
      <3> QED BY <1>0, <3>1, <3>2, QuietStep DEF PastRooms
    <2> QED BY <1>1, <1>3, <2>1 DEF Validate, At
  <1>4. CASE LockKey(q)
    <2>1. CASE Becomes(q, [req[q] EXCEPT !.pc = "users"])
      <3> DEFINE r == [req[q] EXCEPT !.pc = "users"]
      <3>1. /\ r.op = req[q].op /\ r.id = req[q].id /\ r.ver = req[q].ver
            /\ r.head = req[q].head /\ r.rooms = req[q].rooms /\ r.row = req[q].row
            /\ r.pc = "users" /\ req[q].pc = "idem"
        BY <1>0, <1>4 DEF Request, LockKey, At
      <3> HIDE DEF r
      <3>2. Becomes(q, r)
        BY <2>1 DEF r
      <3> QED BY <1>0, <3>1, <3>2, QuietStep DEF PastRooms
    <2> QED BY <1>1, <1>4, <2>1 DEF LockKey, At
  <1>5. CASE LockUsers(q)
    <2>1. ASSUME NEW us, Becomes(q, [req[q] EXCEPT !.pc = "rooms", !.share = us])
          PROVE  GapInvariant'
      <3> DEFINE r == [req[q] EXCEPT !.pc = "rooms", !.share = us]
      <3>1. /\ r.op = req[q].op /\ r.id = req[q].id /\ r.ver = req[q].ver
            /\ r.head = req[q].head /\ r.rooms = req[q].rooms /\ r.row = req[q].row
            /\ r.pc = "rooms" /\ req[q].pc = "users"
        BY <1>0, <1>5 DEF Request, LockUsers
      <3> HIDE DEF r
      <3>2. Becomes(q, r)
        BY <2>1 DEF r
      <3> QED BY <1>0, <3>1, <3>2, QuietStep DEF PastRooms
    <2>2. \/ Reply(q, "refused", req[q].id)
          \/ \E us : Becomes(q, [req[q] EXCEPT !.pc = "rooms", !.share = us])
      BY <1>5 DEF LockUsers
    <2> QED BY <1>2, <2>1, <2>2
  <1>6. CASE LockTarget(q)
    <2>1. CASE Becomes(q, [req[q] EXCEPT !.excl = {req[q].owner}, !.pc = "resolve"])
      <3> DEFINE r == [req[q] EXCEPT !.excl = {req[q].owner}, !.pc = "resolve"]
      <3>1. /\ r.op = req[q].op /\ r.id = req[q].id /\ r.ver = req[q].ver
            /\ r.head = req[q].head /\ r.rooms = req[q].rooms /\ r.row = req[q].row
            /\ r.pc = "resolve" /\ req[q].pc = "users"
        BY <1>0, <1>6 DEF Request, LockTarget, At
      <3> HIDE DEF r
      <3>2. Becomes(q, r)
        BY <2>1 DEF r
      <3> QED BY <1>0, <3>1, <3>2, QuietStep DEF PastRooms
    <2> QED BY <1>2, <1>6, <2>1 DEF LockTarget
  <1>7. CASE ResolveRooms(q)
    <2> DEFINE rs == {booking[i].slot.room : i \in Doomed(req[q].owner, now)}
    <2>1. Becomes(q, [req[q] EXCEPT !.need = rs, !.pc = "rooms"])
      BY <1>7 DEF ResolveRooms
    <2> HIDE DEF rs
    <2> DEFINE r == [req[q] EXCEPT !.need = rs, !.pc = "rooms"]
    <2>2. /\ r.op = req[q].op /\ r.id = req[q].id /\ r.ver = req[q].ver
          /\ r.head = req[q].head /\ r.rooms = req[q].rooms /\ r.row = req[q].row
          /\ r.pc = "rooms" /\ req[q].pc = "resolve"
      BY <1>0, <1>7 DEF Request, ResolveRooms, At
    <2> HIDE DEF r
    <2>3. Becomes(q, r)
      BY <2>1 DEF r
    <2> QED BY <1>0, <2>2, <2>3, QuietStep DEF PastRooms
  <1> QED BY <1>3, <1>4, <1>5, <1>6, <1>7

LEMMA ReadHeadGap == ASSUME TypeOK, GapInvariant, NEW q \in Requests, ReadHead(q) PROVE GapInvariant'
  <1> DEFINE b == booking[req[q].id]
             r == [req[q] EXCEPT !.pc = "users", !.owner = b.owner, !.head = b.slot]
  <1>0. UNCHANGED booking /\ Becomes(q, r) /\ req[q] \in Request
    BY RequestType DEF ReadHead, Unwritten
  <1>1. /\ r.op = req[q].op /\ r.id = req[q].id /\ r.ver = req[q].ver
        /\ r.head = b.slot /\ r.rooms = req[q].rooms /\ r.row = req[q].row
        /\ r.pc = "users" /\ req[q].pc = "head"
    BY <1>0 DEF Request, ReadHead
  <1> HIDE DEF r
  <1>2. Fits(q, r)
    BY <1>1, FitsNow DEF Fits, FreshIn, ProbedIn, PastRooms
  <1> QED BY <1>0, <1>2, OwnStep

LEMMA LockRoomsGap == ASSUME TypeOK, GapInvariant, NEW q \in Requests, LockRooms(q) PROVE GapInvariant'
  <1> DEFINE r == [req[q] EXCEPT !.rooms = NeededRooms(req[q]), !.pc = "decide"]
  <1>0. UNCHANGED booking /\ Becomes(q, r) /\ req[q] \in Request
    BY RequestType DEF LockRooms, Unwritten
  <1>1. /\ r.op = req[q].op /\ r.id = req[q].id /\ r.ver = req[q].ver /\ r.to = req[q].to
        /\ r.need = req[q].need /\ r.head = req[q].head /\ r.rooms = NeededRooms(req[q])
        /\ r.row = req[q].row /\ r.pc = "decide" /\ req[q].pc = "rooms"
    BY <1>0 DEF Request, LockRooms
  <1> HIDE DEF r
  <1>2. NeededRooms(r) = NeededRooms(req[q])
    BY <1>1 DEF NeededRooms
  <1>3. RoomsFree(q, r.rooms)
    BY <1>1 DEF LockRooms
  <1>4. Fits(q, r)
    BY <1>1, <1>2, <1>3, FitsNow DEF Fits, FreshIn, ProbedIn
  <1> QED BY <1>0, <1>4, OwnStep

LEMMA DecideCreateGap ==
  ASSUME TypeOK, GapInvariant, NEW q \in Requests, DecideCreate(q) PROVE GapInvariant'
  <1> DEFINE r == [req[q] EXCEPT !.at = now, !.pc = "write"]
  <1>0. UNCHANGED booking /\ req[q] \in Request
    BY RequestType DEF DecideCreate, Unwritten
  <1>1. CASE Becomes(q, r) /\ BufferClear(NoId, req[q].to)
    <2>1. /\ r.op = req[q].op /\ r.id = req[q].id /\ r.to = req[q].to /\ r.need = req[q].need
          /\ r.head = req[q].head /\ r.rooms = req[q].rooms /\ r.row = req[q].row
          /\ r.pc = "write" /\ req[q].pc = "decide" /\ req[q].op = "create"
      BY <1>0 DEF Request, DecideCreate, At
    <2>2. Becomes(q, r)
      BY <1>1
    <2> HIDE DEF r
    <2>3. NeededRooms(r) = NeededRooms(req[q])
      BY <2>1 DEF NeededRooms
    <2>4. FreshIn(r) /\ ProbedIn(r)
      BY <1>1, <2>1 DEF FreshIn, ProbedIn
    <2>5. Fits(q, r)
      BY <2>1, <2>3, <2>4, FitsNow DEF Fits, PastRooms, Named
    <2> QED BY <1>0, <2>2, <2>5, OwnStep
  <1>2. CASE \E code : Reply(q, code, req[q].id)
    BY <1>0, <1>2, RefuseStep
  <1> QED BY <1>1, <1>2 DEF DecideCreate

LEMMA DecidePatchGap ==
  ASSUME TypeOK, GapInvariant, NEW q \in Requests, DecidePatch(q) PROVE GapInvariant'
  <1> DEFINE r == [req[q] EXCEPT !.row = TRUE, !.at = now, !.pc = "write"]
  <1>0. UNCHANGED booking /\ req[q] \in Request
    BY RequestType DEF DecidePatch, Unwritten
  <1>1. CASE Becomes(q, r) /\ (Moved(req[q]) => BufferClear(req[q].id, req[q].to))
    <2>1. /\ r.op = req[q].op /\ r.id = req[q].id /\ r.to = req[q].to /\ r.need = req[q].need
          /\ r.ver = req[q].ver /\ r.head = req[q].head /\ r.rooms = req[q].rooms /\ r.row
          /\ r.pc = "write" /\ req[q].pc = "decide" /\ req[q].op = "patch"
      BY <1>0 DEF Request, DecidePatch, At
    <2>2. Becomes(q, r) /\ RowFree(q, req[q].id)
      BY <1>1 DEF DecidePatch
    <2> HIDE DEF r
    <2>3. NeededRooms(r) = NeededRooms(req[q])
      BY <2>1 DEF NeededRooms
    <2>4. FreshIn(r) /\ ProbedIn(r)
      BY <1>1, <2>1, FitsNow DEF Fits, FreshIn, ProbedIn, Moved
    <2>5. Fits(q, r)
      BY <2>1, <2>2, <2>3, <2>4, FitsNow DEF Fits, PastRooms
    <2> QED BY <1>0, <2>2, <2>5, OwnStep
  <1>2. CASE \E code : Reply(q, code, req[q].id)
    BY <1>0, <1>2, RefuseStep
  <1> QED BY <1>1, <1>2 DEF DecidePatch

LEMMA DecideDemoGap ==
  ASSUME TypeOK, GapInvariant, NEW q \in Requests, DecideDemo(q) PROVE GapInvariant'
  <1> DEFINE b == booking[req[q].id]
             len == b.slot.end - b.slot.start
             start == DemoStart(now, len)
             to == [b.slot EXCEPT !.start = start, !.end = start + len]
             r == [req[q] EXCEPT !.row = TRUE, !.at = now, !.to = to, !.pc = "write"]
  <1>0. UNCHANGED booking /\ req[q] \in Request
    BY RequestType DEF DecideDemo, Unwritten
  <1>1. CASE /\ Becomes(q, r) /\ VersionMatches(q)
             /\ b.status = "CONFIRMED" /\ BufferClear(req[q].id, to)
    <2>0. to.room = b.slot.room
      BY RowType, RequestType DEF Slot
    <2> HIDE DEF to
    <2>1. /\ r.op = req[q].op /\ r.id = req[q].id /\ r.to = to /\ r.need = req[q].need
          /\ r.ver = req[q].ver /\ r.head = req[q].head /\ r.rooms = req[q].rooms /\ r.row
          /\ r.pc = "write" /\ req[q].pc = "decide" /\ req[q].op = "demo"
      BY <1>0 DEF Request, DecideDemo, At
    <2>2. Becomes(q, r) /\ RowFree(q, req[q].id)
      BY <1>1 DEF DecideDemo
    <2> HIDE DEF r
    <2>3. NeededRooms(r) = NeededRooms(req[q])
      BY <2>1 DEF NeededRooms
    <2>4. FreshIn(r) /\ r.head = b.slot
      BY <1>1, <2>1, FitsNow DEF Fits, FreshIn, VersionMatches
    <2>5. ProbedIn(r)
      BY <1>1, <2>0, <2>1, <2>4 DEF ProbedIn
    <2>6. Fits(q, r)
      BY <2>1, <2>2, <2>3, <2>4, <2>5, FitsNow DEF Fits, PastRooms
    <2> QED BY <1>0, <2>2, <2>6, OwnStep
  <1>2. CASE \E code : Reply(q, code, req[q].id)
    BY <1>0, <1>2, RefuseStep
  <1> QED BY <1>1, <1>2 DEF DecideDemo

LEMMA DecisionTimeGap ==
  ASSUME TypeOK, GapInvariant, NEW q \in Requests, DecisionTime(q) PROVE GapInvariant'
  <1> DEFINE r == [req[q] EXCEPT !.at = now, !.pc = IF req[q].op = "qr" THEN "select" ELSE "write"]
  <1>0. UNCHANGED booking /\ req[q] \in Request /\ Becomes(q, r)
    BY RequestType DEF DecisionTime, Unwritten
  <1>1. /\ r.op = req[q].op /\ r.id = req[q].id /\ r.to = req[q].to /\ r.need = req[q].need
        /\ r.ver = req[q].ver /\ r.head = req[q].head /\ r.rooms = req[q].rooms
        /\ r.row = req[q].row /\ req[q].pc = "decide" /\ r.pc \in PastRooms
        /\ req[q].op \notin {"create", "patch", "demo"}
        /\ req[q].op = "qr" => r.pc = "select"
    BY <1>0 DEF Request, DecisionTime, PastRooms
  <1> HIDE DEF r
  <1>2. NeededRooms(r) = NeededRooms(req[q])
    BY <1>1 DEF NeededRooms
  <1>3. Fits(q, r)
    BY <1>1, <1>2, FitsNow DEF Fits, FreshIn, ProbedIn, PastRooms
  <1> QED BY <1>0, <1>3, OwnStep

\* What SelectQr picks is CONFIRMED, so the gap around it is kept: that is the probe.
LEMMA SelectQrGap == ASSUME TypeOK, GapInvariant, NEW q \in Requests, SelectQr(q) PROVE GapInvariant'
  <1>0. UNCHANGED booking /\ req[q] \in Request /\ req[q].pc = "select" /\ req[q].op = "qr"
    BY RequestType DEF SelectQr, Unwritten, At
  <1>1. ASSUME NEW i \in Ids, Becomes(q, [req[q] EXCEPT !.id = i, !.pc = "write"]),
               booking[i].status = "CONFIRMED", booking[i].slot.room = req[q].to.room
        PROVE  GapInvariant'
    <2> DEFINE r == [req[q] EXCEPT !.id = i, !.pc = "write"]
    <2>1. /\ r.op = "qr" /\ r.id = i /\ r.to = req[q].to /\ r.need = req[q].need
          /\ r.head = req[q].head /\ r.rooms = req[q].rooms /\ r.row = req[q].row
          /\ r.pc = "write"
      BY <1>0 DEF Request
    <2>2. Becomes(q, r)
      BY <1>1
    <2> HIDE DEF r
    <2>3. NeededRooms(r) = NeededRooms(req[q])
      BY <1>0, <2>1 DEF NeededRooms
    <2>4. BufferClear(i, booking[i].slot)
      <3>1. Holds(i)
        BY <1>1 DEF Holds, Live
      <3> QED BY <3>1 DEF GapInvariant, BufferKept, BufferClear
    <2>5. FreshIn(r) /\ ProbedIn(r)
      BY <1>1, <2>1, <2>4 DEF FreshIn, ProbedIn
    <2>6. Fits(q, r)
      BY <1>0, <2>1, <2>3, <2>5, FitsNow DEF Fits, PastRooms, Named
    <2> QED BY <1>0, <2>2, <2>6, OwnStep
  <1>2. CASE \E code, i : Reply(q, code, i)
    BY <1>0, <1>2, RefuseStep DEF Named
  <1>3. \/ \E i \in Ids : /\ Becomes(q, [req[q] EXCEPT !.id = i, !.pc = "write"])
                         /\ booking[i].status = "CONFIRMED"
                         /\ booking[i].slot.room = req[q].to.room
        \/ \E code, i : Reply(q, code, i)
    BY DEF SelectQr
  <1> QED BY <1>1, <1>2, <1>3

LEMMA AbortGap == ASSUME TypeOK, GapInvariant, NEW q \in Requests, Abort(q) PROVE GapInvariant'
  <1> DEFINE r == [req[q] EXCEPT !.pc = FirstStep(req[q].op), !.again = TRUE,
                 !.rooms = {}, !.share = {}, !.excl = {}, !.row = FALSE, !.need = {}, !.at = 0]
  <1>0. UNCHANGED booking /\ req[q] \in Request
    BY RequestType DEF Abort, Refuse, Unwritten
  <1>1. CASE Becomes(q, r)
    <2>1. /\ r.op = req[q].op /\ r.id = req[q].id /\ r.ver = req[q].ver /\ r.head = req[q].head
          /\ r.rooms = {} /\ r.row = FALSE /\ r.pc = FirstStep(r.op)
          /\ req[q].pc # "done"
      BY <1>0 DEF Request, Abort
    <2>2. Becomes(q, r)
      BY <1>1
    <2> HIDE DEF r
    <2>3. r.pc \notin PastRooms /\ r.pc # "done" /\ (r.op = "demo" => r.pc = "head")
      BY <2>1 DEF FirstStep, PastRooms
    <2>4. FreshIn(r)
      BY <2>1, <2>3, FitsNow DEF Fits, FreshIn
    <2>5. Fits(q, r)
      BY <2>1, <2>3, <2>4, EarlyFits, FitsNow DEF Fits
    <2> QED BY <1>0, <2>2, <2>5, OwnStep
  <1>2. CASE Refuse(q, "aborted")
    BY <1>0, <1>2, RefuseStep DEF Refuse
  <1> QED BY <1>1, <1>2 DEF Abort

----------------------------------------------------------------------------
(* A request writes *)

LEMMA EbbOne ==
  ASSUME TypeOK, NEW q \in Requests, NEW i \in Ids, NEW row,
         booking' = [booking EXCEPT ![i] = row], RowFree(q, i), Holds(i),
         row.slot = booking[i].slot, row.status # "NONE", row.version = booking[i].version + 1
  PROVE  Ebbs /\ Grows /\ RowsKept(q)
  <1>1. booking'[i] = row /\ \A j \in Ids \ {i} : booking'[j] = booking[j]
    BY DEF TypeOK
  <1>2. row.version > booking[i].version
    BY RowType
  <1>3. Ebbs
    BY <1>1 DEF Ebbs
  <1>4. Grows
    BY <1>1, <1>2 DEF Grows
  <1>5. RowsKept(q)
    BY <1>1, RequestType DEF RowsKept, RowFree, Others
  <1> QED BY <1>3, <1>4, <1>5

LEMMA PlaceOne ==
  ASSUME TypeOK, NEW q \in Requests, NEW i \in Ids, NEW row,
         booking' = [booking EXCEPT ![i] = row], RowFree(q, i),
         booking[i].status \in {"NONE", "CONFIRMED"}, row.status = "CONFIRMED",
         row.slot = req[q].to, row.version \in Nat,
         booking[i].status # "NONE" => row.version = booking[i].version + 1,
         Apart(i, req[q].to), req[q].to.room \in req[q].rooms,
         booking[i].status # "NONE" => booking[i].slot.room \in req[q].rooms,
         req[q].pc = "write", req[q].op \in {"create", "patch", "demo"}
  PROVE  Places(q) /\ Grows /\ RowsKept(q)
  <1>1. booking'[i] = row /\ \A j \in Ids \ {i} : booking'[j] = booking[j]
    BY DEF TypeOK
  <1>2. booking[i].status # "NONE" => row.version > booking[i].version
    BY RowType
  <1>3. PlacesAt(q, i)
    BY <1>1 DEF PlacesAt, TakesAt
  <1>4. Grows
    BY <1>1, <1>2 DEF Grows
  <1>5. RowsKept(q)
    BY <1>1, RequestType DEF RowsKept, RowFree, Others
  <1> QED BY <1>3, <1>4, <1>5 DEF Places

\* What a write of request q does to the table and to the requests.
Wrote(q) ==
    \/ /\ UNCHANGED booking
       /\ \E code, i : Reply(q, code, i) /\ (req[q].op \in Named => i = req[q].id)
    \/ /\ Ebbs \/ Places(q) \/ Revives(q)
       /\ Grows /\ RowsKept(q)
       /\ \E code, i : Reply(q, code, i) /\ (req[q].op \in Named => i = req[q].id)

LEMMA WroteGap ==
  ASSUME TypeOK, TypeOK', GapInvariant, NEW q \in Requests, Wrote(q)
  PROVE  GapInvariant'
  <1>1. Places(q) \/ Revives(q) => Takes(q)
    BY DEF Places, PlacesAt, Revives, RevivesAt, Takes
  <1> QED BY <1>1, RefuseStep, WriteStep DEF Wrote

LEMMA WriteCreateWrote ==
  ASSUME TypeOK, GapInvariant, NEW q \in Requests, WriteCreate(q)
  PROVE  Wrote(q)
  <1> DEFINE r == req[q]
             i == FreeId
             row == [slot |-> r.to, owner |-> r.owner, creator |-> r.actor, key |-> r.key,
                     status |-> "CONFIRMED", version |-> 1, guests |-> r.guests,
                     confirmedAt |-> r.at, method |-> "-", by |-> AnyUser]
  <1>0. r.op = "create" /\ r.pc = "write" /\ r \in Request /\ r.to \in Slot
    BY RequestType DEF WriteCreate, At, Request
  <1>1. CASE UNCHANGED table /\ \E code, j : Reply(q, code, j)
    BY <1>0, <1>1 DEF Wrote, Named, table
  <1>2. CASE /\ ExcludeOK(NoId, r.to)
             /\ i \in Ids /\ booking[i].status = "NONE"
             /\ booking' = [booking EXCEPT ![i] = row]
             /\ Reply(q, "ok", i)
    <2>1. row.slot = r.to /\ row.status = "CONFIRMED" /\ row.version = 1
      OBVIOUS
    <2>2. Apart(NoId, r.to) /\ r.to.room \in r.rooms
      BY <1>0, <1>2, FitsNow, ProbesAreTheGap DEF Fits, ProbedIn, NeededRooms, PastRooms
    <2>3. Apart(i, r.to)
      BY <2>2, NamesAssumption DEF Apart
    <2>4. RowFree(q, i)
      BY <1>2 DEF RowFree, Others, GapInvariant, RowLocks, RowsExist, Named
    <2> HIDE DEF row, i
    <2>5. /\ i \in Ids /\ booking[i].status \in {"NONE", "CONFIRMED"}
          /\ row.version \in Nat
          /\ booking[i].status # "NONE" => row.version = booking[i].version + 1
          /\ booking' = [booking EXCEPT ![i] = row]
      BY <1>2, <2>1
    <2>6. Places(q) /\ Grows /\ RowsKept(q)
      BY <1>0, <1>2, <2>1, <2>2, <2>3, <2>4, <2>5, PlaceOne
    <2> QED BY <1>0, <1>2, <2>6 DEF Wrote, Named
  <1> QED BY <1>1, <1>2 DEF WriteCreate

LEMMA WritePatchWrote ==
  ASSUME TypeOK, GapInvariant, NEW q \in Requests, WritePatch(q)
  PROVE  Wrote(q)
  <1> DEFINE r == req[q]
             b == booking[r.id]
             row == [b EXCEPT !.slot = r.to, !.version = @ + 1,
                              !.confirmedAt = IF Moved(r) THEN r.at ELSE @]
  <1>0. /\ r.op = "patch" /\ r.pc = "write" /\ r \in Request /\ r.to \in Slot /\ r.id \in Ids
        /\ b \in Booking /\ b.version + 1 \in Nat
    BY RequestType, RowType DEF WritePatch, At, Request
  <1>1. CASE UNCHANGED table /\ \E code : Reply(q, code, r.id)
    BY <1>0, <1>1 DEF Wrote, table
  <1>2. CASE /\ VersionMatches(q) /\ Editable(b, r.actor, r.at) /\ ExcludeOK(r.id, r.to)
             /\ booking' = [booking EXCEPT ![r.id] = row]
             /\ Reply(q, "ok", r.id)
    <2>1. row.slot = r.to /\ row.status = b.status /\ row.version = b.version + 1
      BY <1>0 DEF Booking
    <2>2. b.status = "CONFIRMED" /\ r.head = b.slot
      BY <1>0, <1>2, FitsNow DEF Editable, Fits, FreshIn, VersionMatches
    <2>3. r.row /\ RowFree(q, r.id) /\ r.to.room \in r.rooms /\ b.slot.room \in r.rooms
      BY <1>0, <2>2, FitsNow DEF Fits, NeededRooms, PastRooms
    <2> HIDE DEF row
    <2>4. CASE Moved(r)
      <3>1. Apart(r.id, r.to)
        BY <1>0, <1>2, <2>4, FitsNow, ProbesAreTheGap DEF Fits, ProbedIn
      <3>2. Places(q) /\ Grows /\ RowsKept(q)
        BY <1>0, <1>2, <2>1, <2>2, <2>3, <3>1, PlaceOne
      <3> QED BY <1>2, <3>2 DEF Wrote
    <2>5. CASE ~Moved(r)
      <3>1. row.slot = b.slot /\ Holds(r.id)
        BY <2>1, <2>2, <2>5 DEF Moved, Holds, Live
      <3>2. Ebbs /\ Grows /\ RowsKept(q)
        BY <1>0, <1>2, <2>1, <2>2, <2>3, <3>1, EbbOne
      <3> QED BY <1>2, <3>2 DEF Wrote
    <2> QED BY <2>4, <2>5
  <1> QED BY <1>1, <1>2 DEF WritePatch

LEMMA WriteDemoWrote ==
  ASSUME TypeOK, GapInvariant, NEW q \in Requests, WriteDemo(q)
  PROVE  Wrote(q)
  <1> DEFINE r == req[q]
             b == booking[r.id]
             row == [b EXCEPT !.slot = r.to, !.version = @ + 1, !.confirmedAt = r.at]
  <1>0. /\ r.op = "demo" /\ r.pc = "write" /\ r \in Request /\ r.to \in Slot /\ r.id \in Ids
        /\ b \in Booking /\ b.version + 1 \in Nat
    BY RequestType, RowType DEF WriteDemo, At, Request
  <1>1. CASE UNCHANGED table /\ \E code : Reply(q, code, r.id)
    BY <1>0, <1>1 DEF Wrote, table
  <1>2. CASE /\ ExcludeOK(r.id, r.to)
             /\ booking' = [booking EXCEPT ![r.id] = row]
             /\ Reply(q, "ok", r.id)
    <2>1. row.slot = r.to /\ row.status = b.status /\ row.version = b.version + 1
      BY <1>0 DEF Booking
    <2>2. /\ b.status = "CONFIRMED" /\ r.row /\ RowFree(q, r.id)
          /\ r.to.room \in r.rooms /\ b.slot.room \in r.rooms /\ BufferClear(r.id, r.to)
      BY <1>0, FitsNow DEF Fits, ProbedIn, NeededRooms, PastRooms
    <2>3. Apart(r.id, r.to)
      BY <1>0, <1>2, <2>2, ProbesAreTheGap
    <2> HIDE DEF row
    <2>4. Places(q) /\ Grows /\ RowsKept(q)
      BY <1>0, <1>2, <2>1, <2>2, <2>3, PlaceOne
    <2> QED BY <1>2, <2>4 DEF Wrote
  <1> QED BY <1>1, <1>2 DEF WriteDemo

LEMMA WriteAttendeesWrote ==
  ASSUME TypeOK, GapInvariant, NEW q \in Requests, WriteAttendees(q)
  PROVE  Wrote(q)
  <1> DEFINE r == req[q]
             b == booking[r.id]
             row == [b EXCEPT !.guests = r.guests, !.version = @ + 1]
  <1>0. r.id \in Ids /\ b \in Booking /\ RowFree(q, r.id)
    BY RequestType, RowType DEF WriteAttendees
  <1>1. CASE UNCHANGED table /\ \E code : Reply(q, code, r.id)
    BY <1>1 DEF Wrote, table
  <1>2. CASE /\ Editable(b, r.actor, r.at)
             /\ booking' = [booking EXCEPT ![r.id] = row]
             /\ Reply(q, "ok", r.id)
    <2>1. row.slot = b.slot /\ row.status = b.status /\ row.version = b.version + 1
      BY <1>0 DEF Booking
    <2>2. b.status = "CONFIRMED" /\ Holds(r.id)
      BY <1>2 DEF Editable, Holds, Live
    <2> HIDE DEF row
    <2>3. Ebbs /\ Grows /\ RowsKept(q)
      BY <1>0, <1>2, <2>1, <2>2, EbbOne
    <2> QED BY <1>2, <2>3 DEF Wrote
  <1> QED BY <1>1, <1>2 DEF WriteAttendees

LEMMA WriteCheckinWrote ==
  ASSUME TypeOK, GapInvariant, NEW q \in Requests, WriteCheckin(q)
  PROVE  Wrote(q)
  <1> DEFINE r == req[q]
             b == booking[r.id]
             row == [b EXCEPT !.status = "CHECKED_IN", !.version = @ + 1,
                              !.method = r.method, !.by = r.actor]
  <1>0. r.id \in Ids /\ b \in Booking /\ RowFree(q, r.id)
    BY RequestType, RowType DEF WriteCheckin
  <1>1. CASE UNCHANGED table /\ \E code : Reply(q, code, r.id)
    BY <1>1 DEF Wrote, table
  <1>2. CASE /\ b.status = "CONFIRMED"
             /\ booking' = [booking EXCEPT ![r.id] = row]
             /\ Reply(q, "ok", r.id)
    <2>1. row.slot = b.slot /\ row.status # "NONE" /\ row.version = b.version + 1
      BY <1>0 DEF Booking
    <2>2. Holds(r.id)
      BY <1>2 DEF Holds, Live
    <2> HIDE DEF row
    <2>3. Ebbs /\ Grows /\ RowsKept(q)
      BY <1>0, <1>2, <2>1, <2>2, EbbOne
    <2> QED BY <1>2, <2>3 DEF Wrote
  <1> QED BY <1>1, <1>2 DEF WriteCheckin, CheckIn

LEMMA WriteCancelWrote ==
  ASSUME TypeOK, GapInvariant, NEW q \in Requests, WriteCancel(q)
  PROVE  Wrote(q)
  <1> DEFINE r == req[q]
             b == booking[r.id]
             row == [b EXCEPT !.status = "CANCELLED", !.version = @ + 1]
  <1>0. r.id \in Ids /\ b \in Booking /\ RowFree(q, r.id)
    BY RequestType, RowType DEF WriteCancel
  <1>1. CASE UNCHANGED table /\ \E code : Reply(q, code, r.id)
    BY <1>1 DEF Wrote, table
  <1>2. CASE /\ Cancellable(b, r.actor, r.at)
             /\ booking' = [booking EXCEPT ![r.id] = row]
             /\ Reply(q, "ok", r.id)
    <2>1. row.slot = b.slot /\ row.status # "NONE" /\ row.version = b.version + 1
      BY <1>0 DEF Booking
    <2>2. Holds(r.id)
      BY <1>2 DEF Cancellable, Holds, Live
    <2> HIDE DEF row
    <2>3. Ebbs /\ Grows /\ RowsKept(q)
      BY <1>0, <1>2, <2>1, <2>2, EbbOne
    <2> QED BY <1>2, <2>3 DEF Wrote
  <1> QED BY <1>1, <1>2 DEF WriteCancel

LEMMA WriteQrWrote ==
  ASSUME TypeOK, GapInvariant, NEW q \in Requests, WriteQr(q)
  PROVE  Wrote(q)
  <1> DEFINE r == req[q]
             i == r.id
             b == booking[i]
             row == [b EXCEPT !.status = "CHECKED_IN", !.version = @ + 1,
                              !.method = "QR", !.by = r.actor]
  <1>0. /\ i \in Ids /\ b \in Booking /\ b.slot \in Slot /\ RowFree(q, i)
        /\ r.pc = "write" /\ r.op = "qr"
    BY RequestType, RowType DEF WriteQr, At
  <1>1. CASE UNCHANGED table /\ \E code : Reply(q, code, i)
    BY <1>1 DEF Wrote, table
  <1>2. CASE ExcludeOK(i, b.slot) /\ booking' = [booking EXCEPT ![i] = row] /\ Reply(q, "ok", i)
    <2>1. row.slot = b.slot /\ row.status = "CHECKED_IN" /\ row.version = b.version + 1
      BY <1>0 DEF Booking
    <2> HIDE DEF row
    <2>2. booking'[i] = row /\ \A j \in Ids \ {i} : booking'[j] = booking[j]
      BY <1>0, <1>2 DEF TypeOK
    <2>3. b.status # "NONE" /\ BufferClear(i, b.slot) /\ b.slot.room \in r.rooms
      BY <1>0, FitsNow DEF Fits, ProbedIn, NeededRooms, PastRooms
    <2>4. Apart(i, b.slot)
      BY <1>0, <1>2, <2>3, ProbesAreTheGap
    <2>5. RevivesAt(q, i)
      BY <1>0, <2>1, <2>2, <2>3, <2>4 DEF RevivesAt, TakesAt
    <2>6. Grows
      BY <1>0, <2>1, <2>2, RowType DEF Grows
    <2>7. RowsKept(q)
      BY <1>0, <2>2, RequestType DEF RowsKept, RowFree, Others
    <2> QED BY <1>0, <1>2, <2>5, <2>6, <2>7 DEF Wrote, Revives
  <1> QED BY <1>1, <1>2 DEF WriteQr, CheckIn

LEMMA WriteDeactivateWrote ==
  ASSUME TypeOK, GapInvariant, NEW q \in Requests, WriteDeactivate(q)
  PROVE  Wrote(q)
  <1> DEFINE r == req[q]
             doomed == Doomed(r.owner, r.at)
  <1>1. /\ booking' = [i \in Ids |-> IF i \in doomed
                     THEN [booking[i] EXCEPT !.status = "CANCELLED", !.version = @ + 1]
                     ELSE booking[i]]
        /\ Reply(q, "ok", r.id)
        /\ \A i \in doomed : RowFree(q, i)
    BY DEF WriteDeactivate
  <1>2. \A i \in doomed : Holds(i)
    BY DEF Doomed
  <1> HIDE DEF doomed
  <1>3. \A i \in Ids \ doomed : booking'[i] = booking[i]
    BY <1>1
  <1>4. \A i \in Ids : i \in doomed =>
          /\ booking'[i].status = "CANCELLED" /\ booking'[i].slot = booking[i].slot
          /\ booking'[i].version > booking[i].version
    <2> TAKE i \in Ids
    <2> SUFFICES ASSUME i \in doomed
                 PROVE  /\ booking'[i].status = "CANCELLED" /\ booking'[i].slot = booking[i].slot
                        /\ booking'[i].version > booking[i].version
      OBVIOUS
    <2>1. booking'[i] = [booking[i] EXCEPT !.status = "CANCELLED", !.version = @ + 1]
      BY <1>1
    <2> QED BY <2>1, RowType DEF Booking
  <1>5. Ebbs
    BY <1>2, <1>3, <1>4 DEF Ebbs
  <1>6. Grows
    BY <1>3, <1>4 DEF Grows
  <1>7. RowsKept(q)
    BY <1>1, <1>3, RequestType DEF RowsKept, RowFree, Others
  <1> QED BY <1>1, <1>5, <1>6, <1>7 DEF Wrote

LEMMA WriteRoomWrote ==
  ASSUME TypeOK, GapInvariant, NEW q \in Requests, WriteRoom(q)
  PROVE  Wrote(q)
  BY DEF WriteRoom, Wrote

LEMMA WriteWrote ==
  ASSUME TypeOK, GapInvariant, NEW q \in Requests, Write(q)
  PROVE  Wrote(q)
  BY WriteCreateWrote, WritePatchWrote, WriteAttendeesWrote, WriteCheckinWrote, WriteDemoWrote,
     WriteCancelWrote, WriteQrWrote, WriteDeactivateWrote, WriteRoomWrote DEF Write

----------------------------------------------------------------------------
(* The sweep *)

LEMMA SweepEbbs ==
  ASSUME TypeOK, SweepRun
  PROVE  /\ Ebbs /\ Grows /\ UNCHANGED req
         /\ \A p \in Requests : req[p].row => booking'[req[p].id] = booking[req[p].id]
  <1> DEFINE t == sweep.at
             released  == DueForRelease(t)
             completed == Ended(t) \ released
  <1>1. /\ booking' = [i \in Ids |->
             CASE i \in released  -> [booking[i] EXCEPT !.status = "AUTO_RELEASED", !.version = @ + 1]
               [] i \in completed -> [booking[i] EXCEPT !.status = "COMPLETED", !.version = @ + 1]
               [] OTHER           -> booking[i]]
        /\ \A i \in released \cup completed : \A q \in Requests : ~ (req[q].row /\ req[q].id = i)
        /\ UNCHANGED req
    BY DEF SweepRun
  <1>2. \A i \in released \cup completed : Holds(i)
    BY DEF DueForRelease, Ended, Holds, Live
  <1>3. released \cap completed = {}
    OBVIOUS
  <1> HIDE DEF released, completed
  <1>4. \A i \in Ids \ (released \cup completed) : booking'[i] = booking[i]
    BY <1>1
  <1>5. \A i \in Ids : i \in released \cup completed =>
          /\ booking'[i].status # "NONE" /\ booking'[i].slot = booking[i].slot
          /\ booking'[i].version > booking[i].version
    <2> TAKE i \in Ids
    <2> SUFFICES ASSUME i \in released \cup completed
                 PROVE  /\ booking'[i].status # "NONE" /\ booking'[i].slot = booking[i].slot
                        /\ booking'[i].version > booking[i].version
      OBVIOUS
    <2>1. \/ booking'[i] = [booking[i] EXCEPT !.status = "AUTO_RELEASED", !.version = @ + 1]
          \/ booking'[i] = [booking[i] EXCEPT !.status = "COMPLETED", !.version = @ + 1]
      BY <1>1, <1>3
    <2>2. booking[i] \in Booking
      BY RowType
    <2>3. CASE booking'[i] = [booking[i] EXCEPT !.status = "AUTO_RELEASED", !.version = @ + 1]
      BY <2>2, <2>3 DEF Booking
    <2>4. CASE booking'[i] = [booking[i] EXCEPT !.status = "COMPLETED", !.version = @ + 1]
      BY <2>2, <2>4 DEF Booking
    <2> QED BY <2>1, <2>3, <2>4
  <1>6. Ebbs
    BY <1>2, <1>4, <1>5 DEF Ebbs
  <1>7. Grows
    BY <1>4, <1>5 DEF Grows
  <1>8. \A p \in Requests : req[p].row => booking'[req[p].id] = booking[req[p].id]
    BY <1>1, <1>4, RequestType
  <1> QED BY <1>1, <1>6, <1>7, <1>8

LEMMA SweepGap ==
  ASSUME TypeOK, TypeOK', GapInvariant, SweepRun
  PROVE  GapInvariant'
  <1>1. /\ Ebbs /\ Grows /\ UNCHANGED req
        /\ \A p \in Requests : req[p].row => booking'[req[p].id] = booking[req[p].id]
    BY SweepEbbs
  <1>2. BufferKept'
    BY <1>1 DEF Ebbs, GapInvariant, BufferKept, Holds
  <1>3. RoomLocks' /\ RowLocks'
    BY <1>1 DEF GapInvariant, RoomLocks, RowLocks, Writing, At
  <1>4. RowsExist'
    BY <1>1, RequestType DEF GapInvariant, RowsExist, Grows
  <1>5. HeadsFresh'
    <2> SUFFICES ASSUME NEW p \in Requests, req[p].op \in {"patch", "demo"}, req[p].pc # "done"
                 PROVE  /\ req[p].ver <= booking'[req[p].id].version
                        /\ /\ req[p].ver = booking'[req[p].id].version
                           /\ req[p].op = "patch" \/ req[p].pc # "head"
                           => req[p].head = booking'[req[p].id].slot
      BY <1>1 DEF HeadsFresh
    <2>1. booking[req[p].id].status # "NONE" /\ req[p].id \in Ids /\ req[p].ver \in Nat
      BY RequestType DEF GapInvariant, RowsExist, Named, Request
    <2>2. booking[req[p].id].version \in Nat /\ booking'[req[p].id].version \in Nat
      BY <2>1 DEF TypeOK, Booking
    <2> QED BY <1>1, <2>1, <2>2 DEF GapInvariant, HeadsFresh, Grows
  <1>6. Probed'
    <2>1. \A j, s : BufferClear(j, s) => BufferClear(j, s)'
      BY <1>1, EbbKeepsProbe
    <2>2. \A p \in Requests : req[p].id \in Ids
      BY RequestType
    <2>3. \A i \in Ids : /\ booking'[i].slot = booking[i].slot
                         /\ booking[i].status # "NONE" => booking'[i].status # "NONE"
      BY <1>1 DEF Ebbs, Grows
    <2> QED BY <1>1, <2>1, <2>2, <2>3 DEF GapInvariant, Probed, RowLocks, Moved, Writing, At
  <1> QED BY <1>2, <1>3, <1>4, <1>5, <1>6 DEF GapInvariant


----------------------------------------------------------------------------
(* The initial state, the clock, and the theorem *)

LEMMA SeedRowIs ==
  ASSUME Init, NEW i \in Ids, booking[i].status # "NONE"
  PROVE  \E s \in Seed : s.id = i /\ booking[i].slot = s.slot
  <1>1. Seeded(i) # {}
    BY DEF Init, NoRow
  <1>2. booking[i] = Row(CHOOSE s \in Seed : s.id = i)
    BY <1>1 DEF Init
  <1>3. PICK s \in Seed : s.id = i /\ s = CHOOSE t \in Seed : t.id = i
    BY <1>1 DEF Seeded
  <1>4. booking[i].slot = s.slot
    BY <1>2, <1>3 DEF Row, NoRow
  <1> QED BY <1>3, <1>4

LEMMA InitGap == Init => GapInvariant
  <1> SUFFICES ASSUME Init PROVE GapInvariant
    OBVIOUS
  <1>1. BufferKept
    <2> SUFFICES ASSUME NEW i \in Ids, NEW j \in Ids, i # j, Holds(i), Holds(j)
                 PROVE  ~Clash(booking[i].slot, Widen(booking[j].slot))
      BY DEF BufferKept
    <2>1. booking[i].status # "NONE" /\ booking[j].status # "NONE"
      BY DEF Holds, Live
    <2>2. PICK s \in Seed : s.id = i /\ booking[i].slot = s.slot
      BY <2>1, SeedRowIs
    <2>3. PICK t \in Seed : t.id = j /\ booking[j].slot = t.slot
      BY <2>1, SeedRowIs
    <2>4. s.slot \in Slot /\ t.slot \in Slot /\ Buffer \in Nat
      BY SeedAssumption, SettingsAssumption DEF SeedRow
    <2>5. s.slot.room = t.slot.room =>
            s.slot.end + Buffer <= t.slot.start \/ t.slot.end + Buffer <= s.slot.start
      BY <2>2, <2>3, SeedAssumption
    <2> QED BY <2>2, <2>3, <2>4, <2>5 DEF Clash, Widen, Slot
  <1>2. \A q \in Requests : req[q] = NoRequest
    BY DEF Init
  <1>3. RoomLocks /\ RowLocks /\ RowsExist /\ HeadsFresh /\ Probed
    BY <1>2 DEF NoRequest, RoomLocks, RowLocks, RowsExist, HeadsFresh, Probed, PastRooms,
                Writing, At, Named
  <1> QED BY <1>1, <1>3 DEF GapInvariant

LEMMA IdleGap ==
  ASSUME GapInvariant, UNCHANGED <<booking, req>>
  PROVE  GapInvariant'
  <1>1. BufferKept'
    BY DEF GapInvariant, BufferKept, Holds
  <1>2. RoomLocks' /\ RowLocks' /\ RowsExist' /\ HeadsFresh'
    BY DEF GapInvariant, RoomLocks, RowLocks, RowsExist, HeadsFresh, Writing, At
  <1>3. \A i, s : BufferClear(i, s) => BufferClear(i, s)'
    BY DEF BufferClear, Holds
  <1>4. Probed'
    BY <1>3 DEF GapInvariant, Probed, Writing, At
  <1> QED BY <1>1, <1>2, <1>4 DEF GapInvariant

LEMMA NextGap ==
  ASSUME TypeOK, TypeOK', GapInvariant, [Next]_vars
  PROVE  GapInvariant'
  <1>1. ASSUME NEW q \in Requests, Submit(q) PROVE GapInvariant'
    BY <1>1, SubmitCreateGap, SubmitPatchGap, SubmitOtherGap DEF Submit
  <1>2. ASSUME NEW q \in Requests, Prepare(q) PROVE GapInvariant'
    BY <1>2, BeforeRoomsGap, ReadHeadGap, LockRoomsGap, DecideCreateGap, DecidePatchGap,
       DecideDemoGap, DecisionTimeGap, SelectQrGap DEF Prepare
  <1>3. ASSUME NEW q \in Requests, Write(q) PROVE GapInvariant'
    BY <1>3, WriteWrote, WroteGap
  <1>4. ASSUME NEW q \in Requests, Abort(q) PROVE GapInvariant'
    BY <1>4, AbortGap
  <1>5. CASE SweepBegin \/ SweepLost \/ Tick
    BY <1>5, IdleGap DEF SweepBegin, SweepLost, Tick
  <1>6. CASE SweepRun
    BY <1>6, SweepGap
  <1>7. CASE Over \/ UNCHANGED vars
    BY <1>7, IdleGap DEF Over, vars
  <1> QED BY <1>1, <1>2, <1>3, <1>4, <1>5, <1>6, <1>7 DEF Next

\* The room locks and the probes under them keep the gap between any two live bookings of a
\* room, in every reachable state, for any settings, any seed and every kind of request: the QR
\* check-in too, which probes nothing and may bring a booking back that was over (run reopen).
\* Its row was CONFIRMED when it was picked, so its slot was clear, and the room's lock keeps it so.
THEOREM GapKept == Spec => []BufferKept
  <1>1. Init => TypeOK /\ GapInvariant
    BY InitType, InitGap
  <1>2. TypeOK /\ GapInvariant /\ [Next]_vars => TypeOK' /\ GapInvariant'
    BY NextType, NextGap
  <1>3. GapInvariant => BufferKept
    BY DEF GapInvariant
  <1> QED BY <1>1, <1>2, <1>3, PTL DEF Spec


----------------------------------------------------------------------------
(* The exclusion constraint, for every kind of request                      *)

\* A row changes and is in nobody's way: the constraint has been consulted, or it keeps the slot
\* it holds.
LEMMA OneRowApart ==
  ASSUME TypeOK, NoOverlap, NEW i \in Ids, NEW row,
         booking' = [booking EXCEPT ![i] = row], row.slot \in Slot,
         \/ ExcludeOK(i, row.slot)
         \/ Holds(i) /\ row.slot = booking[i].slot
  PROVE  NoOverlap'
  <1>1. booking'[i] = row /\ \A j \in Ids \ {i} : booking'[j] = booking[j]
    BY DEF TypeOK
  <1>2. \A j \in Ids \ {i} : Holds(j) => ~Clash(booking[j].slot, row.slot)
    BY DEF ExcludeOK, NoOverlap
  <1>3. \A j \in Ids \ {i} : Holds(j) => ~Clash(row.slot, booking[j].slot)
    BY <1>2, RowType, ClashBothWays
  <1> QED BY <1>1, <1>2, <1>3 DEF NoOverlap, Holds

\* No row moves or comes to life.
LEMMA FewerApart ==
  ASSUME NoOverlap, \A i \in Ids : Holds(i)' => Holds(i) /\ booking'[i].slot = booking[i].slot
  PROVE  NoOverlap'
  BY DEF NoOverlap

LEMMA WriteApart ==
  ASSUME TypeOK, NoOverlap, NEW q \in Requests, Write(q)
  PROVE  NoOverlap'
  <1> DEFINE r == req[q]
             b == booking[r.id]
  <1>0. r \in Request /\ r.id \in Ids /\ r.to \in Slot /\ b \in Booking /\ b.slot \in Slot
    BY RequestType, RowType DEF Request
  <1>1. CASE UNCHANGED booking
    BY <1>1 DEF NoOverlap, Holds
  <1>2. CASE WriteCreate(q)
    <2> DEFINE i == FreeId
               row == [slot |-> r.to, owner |-> r.owner, creator |-> r.actor, key |-> r.key,
                       status |-> "CONFIRMED", version |-> 1, guests |-> r.guests,
                       confirmedAt |-> r.at, method |-> "-", by |-> AnyUser]
    <2>1. CASE /\ i \in Ids /\ ExcludeOK(NoId, r.to)
               /\ booking' = [booking EXCEPT ![i] = row]
      <3>1. ExcludeOK(i, r.to)
        BY <2>1, NamesAssumption DEF ExcludeOK
      <3>2. row.slot = r.to
        OBVIOUS
      <3> HIDE DEF row, i
      <3> QED BY <1>0, <2>1, <3>1, <3>2, OneRowApart
    <2> QED BY <1>1, <1>2, <2>1 DEF WriteCreate, table
  <1>3. CASE WritePatch(q) \/ WriteDemo(q)
    <2>1. CASE /\ ExcludeOK(r.id, r.to)
               /\ \E c : booking' = [booking EXCEPT ![r.id] =
                            [b EXCEPT !.slot = r.to, !.version = @ + 1, !.confirmedAt = c]]
      <3>1. PICK c : booking' = [booking EXCEPT ![r.id] =
                       [b EXCEPT !.slot = r.to, !.version = @ + 1, !.confirmedAt = c]]
        BY <2>1
      <3> DEFINE row == [b EXCEPT !.slot = r.to, !.version = @ + 1, !.confirmedAt = c]
      <3>2. row.slot = r.to
        BY <1>0 DEF Booking
      <3> HIDE DEF row
      <3>3. booking' = [booking EXCEPT ![r.id] = row]
        BY <3>1 DEF row
      <3> QED BY <1>0, <2>1, <3>2, <3>3, OneRowApart
    <2> QED BY <1>1, <1>3, <2>1 DEF WritePatch, WriteDemo, table
  <1>4. CASE WriteAttendees(q)
    <2> DEFINE row == [b EXCEPT !.guests = r.guests, !.version = @ + 1]
    <2>1. CASE b.status = "CONFIRMED" /\ booking' = [booking EXCEPT ![r.id] = row]
      <3>1. row.slot = b.slot /\ Holds(r.id)
        BY <1>0, <2>1 DEF Booking, Holds, Live
      <3> HIDE DEF row
      <3> QED BY <1>0, <2>1, <3>1, OneRowApart
    <2> QED BY <1>1, <1>4, <2>1 DEF WriteAttendees, Editable, table
  <1>5. CASE WriteCheckin(q) \/ WriteQr(q)
    <2>1. CASE /\ b.status = "CONFIRMED" \/ ExcludeOK(r.id, b.slot)
               /\ \E how : booking' = CheckIn(r.id, r.actor, how)
      <3>1. PICK how : booking' = CheckIn(r.id, r.actor, how)
        BY <2>1
      <3> DEFINE row == [b EXCEPT !.status = "CHECKED_IN", !.version = @ + 1,
                                  !.method = how, !.by = r.actor]
      <3>2. row.slot = b.slot /\ (b.status = "CONFIRMED" => Holds(r.id))
        BY <1>0 DEF Booking, Holds, Live
      <3>3. booking' = [booking EXCEPT ![r.id] = row]
        BY <3>1 DEF CheckIn
      <3> HIDE DEF row
      <3> QED BY <1>0, <2>1, <3>2, <3>3, OneRowApart
    <2> QED BY <1>1, <1>5, <2>1 DEF WriteCheckin, WriteQr, table
  <1>6. CASE WriteCancel(q)
    <2> DEFINE row == [b EXCEPT !.status = "CANCELLED", !.version = @ + 1]
    <2>1. CASE b.status \in Live /\ booking' = [booking EXCEPT ![r.id] = row]
      <3>1. row.slot = b.slot /\ Holds(r.id)
        BY <1>0, <2>1 DEF Booking, Holds
      <3> HIDE DEF row
      <3> QED BY <1>0, <2>1, <3>1, OneRowApart
    <2> QED BY <1>1, <1>6, <2>1 DEF WriteCancel, Cancellable, Live, table
  <1>7. CASE WriteDeactivate(q)
    <2> DEFINE doomed == Doomed(r.owner, r.at)
    <2>1. \A i \in Ids : booking'[i] =
             IF i \in doomed THEN [booking[i] EXCEPT !.status = "CANCELLED", !.version = @ + 1]
                             ELSE booking[i]
      BY <1>7 DEF WriteDeactivate
    <2>2. \A i \in Ids : Holds(i)' => Holds(i) /\ booking'[i].slot = booking[i].slot
      <3> TAKE i \in Ids
      <3>1. CASE i \in doomed
        BY <2>1, <3>1, RowType DEF Booking, Holds, Live
      <3>2. CASE i \notin doomed
        BY <2>1, <3>2 DEF Holds
      <3> QED BY <3>1, <3>2
    <2> QED BY <2>2, FewerApart
  <1>8. CASE WriteRoom(q)
    BY <1>1, <1>8 DEF WriteRoom
  <1> QED BY <1>2, <1>3, <1>4, <1>5, <1>6, <1>7, <1>8 DEF Write

LEMMA SweepApart ==
  ASSUME TypeOK, NoOverlap, SweepRun
  PROVE  NoOverlap'
  <1>1. Ebbs
    BY SweepEbbs
  <1> QED BY <1>1, FewerApart DEF Ebbs, Holds

LEMMA PrepareQuiet ==
  ASSUME NEW q \in Requests, Submit(q) \/ Prepare(q) \/ Abort(q)
  PROVE  UNCHANGED booking
  <1>1. CASE Submit(q)
    BY <1>1 DEF Submit, SubmitCreate, SubmitPatch, SubmitAttendees, SubmitCheckin, SubmitDemo,
                SubmitCancel, SubmitQr, SubmitDeactivate, SubmitRoom, Unwritten
  <1>2. CASE Prepare(q)
    BY <1>2 DEF Prepare, Validate, LockKey, ReadHead, LockUsers, LockTarget, ResolveRooms,
                LockRooms, DecideCreate, DecidePatch, DecideDemo, DecisionTime, SelectQr,
                Unwritten, Refuse
  <1>3. CASE Abort(q)
    BY <1>3 DEF Abort, Refuse, Unwritten
  <1> QED BY <1>1, <1>2, <1>3

\* Two live bookings of a room never overlap, in every reachable state, whatever the settings,
\* the seed and the kinds of requests that race, the QR check-in among them.
THEOREM NeverOverlap == Spec => []NoOverlap
  <1>1. Init => TypeOK /\ NoOverlap
    <2> SUFFICES ASSUME Init PROVE NoOverlap
      BY InitType
    <2>1. BufferKept /\ TypeOK
      BY InitGap, InitType DEF GapInvariant
    <2> QED BY <2>1, RowType, ClashBothWays DEF BufferKept, NoOverlap
  <1>2. TypeOK /\ NoOverlap /\ [Next]_vars => TypeOK' /\ NoOverlap'
    <2> SUFFICES ASSUME TypeOK, NoOverlap, [Next]_vars PROVE NoOverlap'
      BY NextType
    <2>1. CASE UNCHANGED booking
      BY <2>1 DEF NoOverlap, Holds
    <2>2. ASSUME NEW q \in Requests, Submit(q) \/ Prepare(q) \/ Abort(q) PROVE NoOverlap'
      BY <2>1, <2>2, PrepareQuiet
    <2>3. ASSUME NEW q \in Requests, Write(q) PROVE NoOverlap'
      BY <2>3, WriteApart
    <2>4. CASE SweepRun
      BY <2>4, SweepApart
    <2>5. CASE SweepBegin \/ SweepLost \/ Tick \/ Over \/ UNCHANGED vars
      BY <2>1, <2>5 DEF SweepBegin, SweepLost, Tick, Over, vars
    <2> QED BY <2>2, <2>3, <2>4, <2>5 DEF Next
  <1> QED BY <1>1, <1>2, PTL DEF Spec


----------------------------------------------------------------------------
(* What every step does to the table, and the calendar *)

LEMMA OnlyOpsKept ==
  /\ Init => OnlyOps
  /\ TypeOK /\ OnlyOps /\ [Next]_vars => OnlyOps'
  <1>1. Init => OnlyOps
    BY DEF Init, OnlyOps, NoRequest
  <1>2. ASSUME TypeOK, OnlyOps, [Next]_vars PROVE OnlyOps'
    <2>1. CASE UNCHANGED req
      BY <1>2, <2>1 DEF OnlyOps
    <2>2. ASSUME NEW q \in Requests, \A p \in Others(q) : req'[p] = req[p],
                 req'[q].op \in Ops \/ req'[q].op = req[q].op
          PROVE  OnlyOps'
      BY <1>2, <2>2 DEF OnlyOps, Others
    <2> QED BY <1>2, <2>1, <2>2, Walk
            DEF Sends, Advances, Carries, Declines, Restarts, Answers
  <1> QED BY <1>1, <1>2

\* Whatever happens, slots are let go of or one is taken by a writer that found it clear.
LEMMA EveryStep ==
  ASSUME TypeOK, GapInvariant, [Next]_vars
  PROVE  UNCHANGED booking \/ Ebbs \/ \E q \in Requests : Places(q) \/ Revives(q)
  <1>1. ASSUME NEW q \in Requests, Submit(q) \/ Prepare(q) \/ Abort(q) PROVE UNCHANGED booking
    BY <1>1, PrepareQuiet
  <1>2. ASSUME NEW q \in Requests, Write(q) PROVE UNCHANGED booking \/ Ebbs \/ Places(q) \/ Revives(q)
    BY <1>2, WriteWrote DEF Wrote
  <1>3. CASE SweepRun
    BY <1>3, SweepEbbs
  <1>4. CASE SweepBegin \/ SweepLost \/ Tick \/ Over \/ UNCHANGED vars
    BY <1>4 DEF SweepBegin, SweepLost, Tick, Over, vars
  <1> QED BY <1>1, <1>2, <1>3, <1>4 DEF Next

\* Without the QR check-in nothing comes back that was over.
LEMMA EveryStepWithoutQr ==
  ASSUME "qr" \notin Ops, TypeOK, GapInvariant, OnlyOps, [Next]_vars
  PROVE  UNCHANGED booking \/ Ebbs \/ \E q \in Requests : Places(q)
  <1>1. "qr" # "-"
    OBVIOUS
  <1>2. \A q \in Requests : ~Revives(q)
    BY <1>1 DEF OnlyOps, Revives, RevivesAt
  <1> QED BY <1>2, EveryStep

\* A booking that is completed, cancelled or released is never reopened.  The QR check-in is
\* excluded because it does reopen one: run reopen.
THEOREM TerminalFinal ==
  ASSUME "qr" \notin Ops
  PROVE  Spec => TerminalIsFinal
  <1>1. Init => TypeOK /\ GapInvariant /\ OnlyOps
    BY InitType, InitGap, OnlyOpsKept
  <1>2. TypeOK /\ GapInvariant /\ OnlyOps /\ [Next]_vars => TypeOK' /\ GapInvariant' /\ OnlyOps'
    BY NextType, NextGap, OnlyOpsKept
  <1>3. TypeOK /\ GapInvariant /\ OnlyOps /\ [Next]_vars =>
          [\A i \in Ids : booking[i].status \in Terminal => booking'[i].status = booking[i].status]_vars
    <2> SUFFICES ASSUME TypeOK, GapInvariant, OnlyOps, [Next]_vars,
                        NEW i \in Ids, booking[i].status \in Terminal
                 PROVE  booking'[i].status = booking[i].status
      OBVIOUS
    <2>1. ~Holds(i) /\ booking[i].status \notin {"NONE", "CONFIRMED"}
      BY DEF Holds, Live, Terminal
    <2> QED BY <2>1, EveryStepWithoutQr DEF Ebbs, Places, PlacesAt, TakesAt
  <1> QED BY <1>1, <1>2, <1>3, PTL DEF Spec, TerminalIsFinal

LEMMA GapIsApart == TypeOK /\ BufferKept => Calendar!AllApart
  <1> SUFFICES ASSUME TypeOK, BufferKept, NEW i \in Ids, NEW j \in Ids, i # j,
                      Phase(booking[i].status) = "held", Phase(booking[j].status) = "held"
               PROVE  /\ Holds(i) /\ Holds(j)
                      /\ Calendar!Apart(booking[i].slot, booking[j].slot)
    BY DEF Calendar!AllApart, Calendar!Held
  <1>1. Holds(i) /\ Holds(j)
    BY DEF Phase, Holds
  <1>2. ~Clash(booking[i].slot, Widen(booking[j].slot))
    BY <1>1 DEF BufferKept
  <1>3. booking[i].slot \in Slot /\ booking[j].slot \in Slot /\ Buffer \in Nat
    BY RowType, SettingsAssumption
  <1> QED BY <1>1, <1>2, <1>3 DEF Calendar!Apart, Clash, Widen, Slot

LEMMA EbbVacates ==
  ASSUME TypeOK, TypeOK', Ebbs
  PROVE  Calendar!Vacate
  <1> DEFINE S == {i \in Ids : Holds(i) /\ ~Holds(i)'}
  <1>1. S \in SUBSET Calendar!Held
    BY DEF Calendar!Held, Phase, Holds, Live
  <1>2. \A i \in S : Phase(booking'[i].status) = "over"
    BY DEF Ebbs, Phase, Holds
  <1>3. \A i \in Ids \ S : /\ Phase(booking'[i].status) = Phase(booking[i].status)
                           /\ (IF Holds(i)' THEN booking'[i].slot ELSE NoSlot) =
                              (IF Holds(i) THEN booking[i].slot ELSE NoSlot)
    <2> SUFFICES ASSUME NEW i \in Ids, Holds(i) => Holds(i)'
                 PROVE  /\ Phase(booking'[i].status) = Phase(booking[i].status)
                        /\ Holds(i)' <=> Holds(i)
                        /\ booking'[i].slot = booking[i].slot
      OBVIOUS
    <2> QED BY DEF Ebbs, Phase, Holds, Live
  <1> QED BY <1>1, <1>2, <1>3 DEF Calendar!Vacate, Calendar!Only

LEMMA PlaceIsTaken ==
  ASSUME TypeOK, NEW q \in Requests, Places(q), Calendar!AllApart'
  PROVE  \E i \in Ids : Calendar!Claim(i) \/ Calendar!Move(i)
  <1>1. PICK i \in Ids : PlacesAt(q, i)
    BY DEF Places
  <1>2. /\ Phase(booking[i].status) \in {"free", "held"}
        /\ Phase(booking'[i].status) = "held"
    BY <1>1 DEF PlacesAt, Phase, Live
  <1>3. Calendar!Only({i})
    BY <1>1 DEF PlacesAt, TakesAt, Calendar!Only, Holds
  <1> QED BY <1>2, <1>3 DEF Calendar!Claim, Calendar!Move

LEMMA NothingHappens ==
  ASSUME UNCHANGED booking
  PROVE  UNCHANGED Calendar!calendar
  BY DEF Calendar!calendar, Holds

\* The transactions implement the calendar of rooms for any settings, seed and requests without
\* the QR check-in: a window is taken, moved or given up in one step, with the gap kept.
THEOREM CalendarImplemented ==
  ASSUME "qr" \notin Ops
  PROVE  Spec => ImplementsCalendar
  <1>1. Init => TypeOK /\ GapInvariant /\ OnlyOps
    BY InitType, InitGap, OnlyOpsKept
  <1>2. TypeOK /\ GapInvariant /\ OnlyOps /\ [Next]_vars => TypeOK' /\ GapInvariant' /\ OnlyOps'
    BY NextType, NextGap, OnlyOpsKept
  <1>3. GapInvariant => BufferKept
    BY DEF GapInvariant
  <1>4. TypeOK' /\ GapInvariant' => Calendar!AllApart'
    BY <1>3, GapIsApart, PTL
  <1>5. Init => Calendar!Init
    <2> SUFFICES ASSUME Init PROVE Calendar!Init
      OBVIOUS
    <2>1. Calendar!AllApart
      BY <1>1, <1>3, GapIsApart
    <2>2. \A i \in Ids : Phase(booking[i].status) \in {"free", "held"}
      <3> TAKE i \in Ids
      <3>1. booking[i] = NoRow \/ \E s : booking[i] = Row(s)
        BY DEF Init
      <3>2. NoRow.status = "NONE" /\ \A s : Row(s).status = "CONFIRMED"
        BY DEF NoRow, Row
      <3>3. booking[i].status \in {"NONE", "CONFIRMED"}
        BY <3>1, <3>2
      <3> QED BY <3>3 DEF Phase, Live
    <2> QED BY <2>1, <2>2 DEF Calendar!Init
  <1>6. TypeOK /\ GapInvariant /\ OnlyOps /\ [Next]_vars => [Calendar!Next]_(Calendar!calendar)
    <2> SUFFICES ASSUME TypeOK, GapInvariant, OnlyOps, [Next]_vars
                 PROVE  Calendar!Next \/ UNCHANGED Calendar!calendar
      OBVIOUS
    <2>1. TypeOK' /\ GapInvariant' /\ Calendar!AllApart'
      BY <1>2, <1>4
    <2>2. CASE UNCHANGED booking
      BY <2>2, NothingHappens
    <2>3. CASE Ebbs
      BY <2>1, <2>3, EbbVacates DEF Calendar!Next
    <2>4. ASSUME NEW q \in Requests, Places(q) PROVE Calendar!Next
      BY <2>1, <2>4, PlaceIsTaken DEF Calendar!Next
    <2> QED BY <2>2, <2>3, <2>4, EveryStepWithoutQr
  <1> QED BY <1>1, <1>2, <1>5, <1>6, PTL DEF Spec, ImplementsCalendar, Calendar!Spec
=============================================================================
