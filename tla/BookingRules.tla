----------------------------- MODULE BookingRules -----------------------------
(***************************************************************************)
(* Why the rules of a booking hold: what the requests know and hold while  *)
(* they walk, in the parts the proofs of BookingRulesProofs put together.  *)
(* Each part is an invariant with the ones it names, whatever the settings *)
(* and the order of the requests.                                          *)
(***************************************************************************)
EXTENDS BookingGap

\* A request not yet sent is blank, and three operations read their head in the transaction.
Paths ==
    \A q \in Requests : /\ req[q].pc = "idle" => req[q] = NoRequest
                        /\ req[q].pc = "head" => req[q].op \in {"attendees", "checkin", "demo"}

\* A key's lock is one transaction's at a time and its holder has found no booking with the key,
\* so that no two bookings get it; a create is answered with the booking that has the key.
KeysKept ==
    /\ \A p, q \in Requests : p # q /\ Keyed(p) /\ Keyed(q) =>
         <<req[p].actor, req[p].key>> # <<req[q].actor, req[q].key>>
    /\ \A q \in Requests : Keyed(q) => Prior(req[q].actor, req[q].key) = {}
    /\ \A i, j \in Ids :
         /\ i # j /\ booking[i].status # "NONE" /\ booking[j].status # "NONE"
         /\ booking[i].key # NoKey
         => <<booking[i].creator, booking[i].key>> # <<booking[j].creator, booking[j].key>>
    /\ \A q \in Requests : req[q].op = "create" /\ req[q].code \in {"replay", "ok"} =>
         req[q].id \in Prior(req[q].actor, req[q].key)

\* A patch carries on what its body left out from the head its route has read.
PatchesAsk ==
    \A q \in Requests :
       LET r == req[q] IN
       r.op = "patch" /\ r.pc # "done" =>
         /\ "room" \notin r.asked => r.to.room = r.head.room
         /\ "time" \notin r.asked => r.to.start = r.head.start /\ r.to.end = r.head.end

\* Only an administrator checks in by the administrator's window.
MethodsChosen ==
    \A q \in Requests : req[q].op = "checkin" /\ req[q].pc # "done" =>
       /\ req[q].method \in {"SELF", "ADMIN"}
       /\ req[q].method = "ADMIN" => req[q].actor \in Admins

\* FOR UPDATE on a user excludes every other lock of it.  A deactivation holds its target; a
\* writer that puts a booking somewhere holds its owner, and found the owner active.
UserLocks ==
    /\ \A p, q \in Requests : p # q => req[p].excl \cap (req[q].excl \cup req[q].share) = {}
    /\ \A q \in Requests :
         /\ req[q].op = "deactivate" /\ req[q].pc \in {"resolve", "rooms", "decide", "write"}
         => req[q].owner \in req[q].excl
    /\ \A q \in Requests :
         /\ req[q].op \in {"create", "patch", "demo"} /\ req[q].pc \in {"rooms", "decide", "write"}
         => Active(req[q].owner) /\ req[q].owner \in req[q].share

\* The owner whose row a request locks is the owner of its booking.
OwnersKnown ==
    \A q \in Requests :
       LET r == req[q] IN
       /\ r.op \in {"patch", "demo", "attendees", "cancel"} /\ r.pc \notin {"head", "done"}
       => r.owner = booking[r.id].owner

\* The room a writer is about to put a booking into is switched on, and its lock keeps it so.
RoomsOpen ==
    \A q \in Requests :
       req[q].pc = "write" /\ req[q].op \in {"create", "patch", "demo"} => roomOn[req[q].to.room]

\* The audit rows of a booking are its versions, and the last of them agrees with its status.
Histories ==
    \A i \in Ids :
       LET h == trail[i] IN
       /\ Len(h) = booking[i].version
       /\ \A n \in 2..Len(h) : MayFollow(h[n - 1], h[n])
       /\ booking[i].status = "NONE" <=> Len(h) = 0
       /\ booking[i].status = "CONFIRMED" => Follows[h[Len(h)]] = "edit"
       /\ booking[i].status = "CHECKED_IN" => Follows[h[Len(h)]] = "in"

\* No calendar mail is about a booking that is not there or a version that is still to come, so
\* the mail of a new version is never taken for one that was sent before.
MailsDated ==
    \A m \in outbox : m.tpl \in CalendarMail =>
       booking[m.id].status # "NONE" /\ m.key <= booking[m.id].version

\* As HeadsFresh, for the one mail whose window is the head's while the booking is live.
GuestHeadsFresh ==
    \A q \in Requests :
       LET r == req[q]  b == booking[r.id] IN
       r.op = "attendees" /\ r.pc # "done" =>
         /\ r.ver <= b.version
         /\ r.ver = b.version /\ r.pc # "head" => r.head = b.slot

\* The parts that hold whatever is asked: together they are inductive.
RulesInvariant ==
    /\ GapInvariant /\ Paths /\ KeysKept /\ PatchesAsk /\ MethodsChosen /\ UserLocks
    /\ OwnersKnown /\ RoomsOpen /\ MailsDated /\ GuestHeadsFresh

\* The server does not keep the owner out of the guest list; the pages do.
OwnersAreNoGuests == \A i \in Ids : booking[i].owner \notin booking[i].guests

\* Everybody but the owner is told the truth.
GuestsConverge == \A i \in Ids, u \in Users : u # booking[i].owner => Converged(i, u)
=============================================================================
