------------------------------- MODULE Outbox -------------------------------
(***************************************************************************)
(* The mail queue: rows of `notifications' and the processes that drain it *)
(* (apps/api/src/jobs/drain.ts), with what puts rows in and takes them     *)
(* back: one booking, the set-password mails of one account, and the       *)
(* administrator's retry.                                                  *)
(*                                                                         *)
(* A claim is one transaction under the round's advisory lock, so one      *)
(* action; the send runs after it has committed, with nothing locked, and  *)
(* settles the row in a statement of its own, by id alone.  In between     *)
(* anything may happen to the row.                                         *)
(*                                                                         *)
(* Time is kept as countdowns in units of the first back-off, 30 seconds:  *)
(* row[i].due to next_attempt_at, hand[w].lease to the end of the lease a  *)
(* worker took.  All mails of the booking have one recipient.              *)
(***************************************************************************)
EXTENDS Integers, FiniteSets

CONSTANTS
    Rows,         \* bound: the queue holds at most this many rows
    Leftovers,    \* rows an earlier version queued, which nothing renders any more
    Workers,      \* processes; each runs one drain round at a time
    Events,       \* what happens to the booking and the account in this instance
    AttemptCap,   \* 8
    LeaseCap,     \* 64
    MaxStart,     \* bound: the booking moves this often
    MaxCrashes,   \* bound: sends that never settle
    MaxRetries    \* bound: uses of the retry button

Ids == 1..Rows                                   \* identity column, in order
ASSUME SizesAssumption ==
    /\ {Rows, Leftovers, MaxStart, MaxCrashes, MaxRetries} \subseteq Nat /\ Leftovers <= Rows
    /\ {AttemptCap, LeaseCap} \subseteq Nat \ {0}
ASSUME WorkersAssumption == IsFiniteSet(Workers)

Kinds == {"notice",     \* booking.confirmed, booking.rescheduled
          "reminder",
          "end",        \* booking.cancelled, booking.auto_released, ..._admin
          "account",    \* account.set_password, without a booking
          "retired"}    \* a template key no renderer knows
BookingStatus == {"CONFIRMED", "CHECKED_IN", "CANCELLED"}
Status == {"NONE", "PENDING", "SENT", "FAILED", "SKIPPED"}  \* NONE: id not used yet

VARIABLES
    row,        \* [Ids -> the notifications row]
    hand,       \* [Workers -> what the worker is sending]
    booking,    \* the booking's status and start
    delivered,  \* history: [Ids -> copies the relay took]
    spent,      \* history: [Ids -> attempts the retry button wrote off]
    crashes, retries
vars == <<row, hand, booking, delivered, spent, crashes, retries>>

RowType == [status : Status, kind : Kinds, start : 0..MaxStart, attempts : Nat, due : 0..LeaseCap]
Row(s, k, t) == [status |-> s, kind |-> k, start |-> t, attempts |-> 0, due |-> 0]
Idle == [at |-> "idle", id |-> 0, lease |-> 0]
HandType == {Idle} \cup [at : {"sending", "accepted"}, id : Ids, lease : 0..LeaseCap]

Init ==
    /\ row = [i \in Ids |-> IF i <= Leftovers THEN Row("PENDING", "retired", 0)
                                              ELSE Row("NONE", "notice", 0)]
    /\ hand = [w \in Workers |-> Idle]
    /\ booking = [status |-> "CONFIRMED", start |-> 0]
    /\ delivered = [i \in Ids |-> 0]
    /\ spent = [i \in Ids |-> 0]
    /\ crashes = 0 /\ retries = 0

----------------------------------------------------------------------------
(* What fills the queue.  Each row is inserted by the transaction that makes the change. *)

Fresh(i) == row[i].status = "NONE" /\ \A j \in Ids : row[j].status = "NONE" => i <= j
Inserted(rows, i, k, t) == [rows EXCEPT ![i] = Row("PENDING", k, t)]

QueueUnchanged == UNCHANGED <<hand, delivered, spent, crashes, retries>>

\* A move of the booking; the notice carries the new start.
Reschedule(i) ==
    /\ "move" \in Events /\ Fresh(i)
    /\ booking.status = "CONFIRMED" /\ booking.start < MaxStart
    /\ booking' = [booking EXCEPT !.start = @ + 1]
    /\ row' = Inserted(row, i, "notice", booking.start + 1)
    /\ QueueUnchanged

\* The sweep's reminder, once for each start (notifications_dedupe).
Remind(i) ==
    /\ "remind" \in Events /\ Fresh(i)
    /\ booking.status = "CONFIRMED"
    /\ \A j \in Ids : ~(row[j].kind = "reminder" /\ row[j].start = booking.start)
    /\ row' = Inserted(row, i, "reminder", booking.start)
    /\ UNCHANGED booking /\ QueueUnchanged

CheckIn ==
    /\ "checkin" \in Events /\ booking.status = "CONFIRMED"
    /\ booking' = [booking EXCEPT !.status = "CHECKED_IN"]
    /\ UNCHANGED row /\ QueueUnchanged

\* Cancelled by hand or by the cascade; an automatic release does the same to the queue.
Cancel(i) ==
    /\ "cancel" \in Events /\ Fresh(i)
    /\ booking.status # "CANCELLED"
    /\ booking' = [booking EXCEPT !.status = "CANCELLED"]
    /\ row' = Inserted(row, i, "end", booking.start)
    /\ QueueUnchanged

\* Every set-password mail still waiting gives way to the new one.
Superseding(rows) ==
    [j \in Ids |-> IF rows[j].kind = "account" /\ rows[j].status = "PENDING"
                   THEN [rows[j] EXCEPT !.status = "SKIPPED"] ELSE rows[j]]

\* Deviation: the new mail is queued first.
ReissueFirst(i) ==
    /\ "account" \in Events /\ Fresh(i)
    /\ row' = Superseding(Inserted(row, i, "account", 0))
    /\ UNCHANGED booking /\ QueueUnchanged

Reissue(i) ==
    /\ "account" \in Events /\ Fresh(i)
    /\ row' = Inserted(Superseding(row), i, "account", 0)
    /\ UNCHANGED booking /\ QueueUnchanged

\* POST /emails/:id/retry
Retry(i) ==
    /\ retries < MaxRetries
    /\ row[i].status = "FAILED"
    /\ row' = [row EXCEPT ![i].status = "PENDING", ![i].attempts = 0, ![i].due = 0]
    /\ spent' = [spent EXCEPT ![i] = @ + row[i].attempts]
    /\ retries' = retries + 1
    /\ UNCHANGED <<hand, booking, delivered, crashes>>

----------------------------------------------------------------------------
(* drainOne: claim the first row that is due. *)

Due(i) == row[i].status = "PENDING" /\ row[i].due = 0
Head(i) == Due(i) /\ \A j \in Ids : Due(j) => i <= j

StaleReminder(i) ==
    row[i].kind = "reminder" /\ (booking.status # "CONFIRMED" \/ booking.start # row[i].start)
OfDeadBooking(i) == row[i].kind \in {"notice", "retired"} /\ booking.status = "CANCELLED"
\* Deviation: only reminders are looked at.
RemindersOnly(i) == StaleReminder(i)
Stale(i) == StaleReminder(i) \/ OfDeadBooking(i)

Skip(w, i) ==
    /\ hand[w].at = "idle" /\ Head(i) /\ Stale(i)
    /\ row' = [row EXCEPT ![i].status = "SKIPPED"]
    /\ UNCHANGED <<hand, booking, delivered, spent, crashes, retries>>

DeadLetter(w, i) ==
    /\ hand[w].at = "idle" /\ Head(i) /\ ~Stale(i)
    /\ row[i].kind = "retired"
    /\ row' = [row EXCEPT ![i].status = "FAILED", ![i].attempts = @ + 1]
    /\ UNCHANGED <<hand, booking, delivered, spent, crashes, retries>>

Backoff(n) == IF 2^n \in 1..LeaseCap THEN 2^n ELSE LeaseCap   \* LEAST(2 ^ attempts, 64)

\* Deviations: the attempt is counted when the send fails; the row stays due.
LeasedUncounted(r) == [r EXCEPT !.due = Backoff(r.attempts)]
LeasedStillDue(r) == [r EXCEPT !.attempts = @ + 1]

Leased(r) == [r EXCEPT !.attempts = @ + 1, !.due = Backoff(r.attempts)]

Lease(w, i) ==
    /\ hand[w].at = "idle" /\ Head(i) /\ ~Stale(i)
    /\ row[i].kind # "retired"
    /\ row' = [row EXCEPT ![i] = Leased(@)]
    /\ hand' = [hand EXCEPT ![w] = [at |-> "sending", id |-> i,
                                    lease |-> Backoff(row[i].attempts)]]
    /\ UNCHANGED <<booking, delivered, spent, crashes, retries>>

----------------------------------------------------------------------------
(* sendClaimed: what the relay answers, and the statement that settles the row. *)

Free(w) == hand' = [hand EXCEPT ![w] = Idle]
Settled(w, s) ==
    /\ row' = [row EXCEPT ![hand[w].id].status = s]
    /\ Free(w)
    /\ UNCHANGED <<booking, delivered, spent, crashes, retries>>

\* The relay takes the mail.
Accept(w) ==
    /\ hand[w].at = "sending"
    /\ hand' = [hand EXCEPT ![w].at = "accepted"]
    /\ delivered' = [delivered EXCEPT ![hand[w].id] = @ + 1]
    /\ UNCHANGED <<row, booking, spent, crashes, retries>>

MarkSent(w) == hand[w].at = "accepted" /\ Settled(w, "SENT")
\* The relay rejects the recipient.
Reject(w) == hand[w].at = "sending" /\ Settled(w, "FAILED")

\* The catch block: the send threw, its answer was lost, or the mark itself failed.
FailSend(w) ==
    /\ hand[w].at \in {"sending", "accepted"}
    /\ Settled(w, IF row[hand[w].id].attempts >= AttemptCap THEN "FAILED" ELSE "PENDING")

\* The process dies, or the settling statement fails too.
Abandon(w) ==
    /\ hand[w].at # "idle" /\ crashes < MaxCrashes
    /\ crashes' = crashes + 1
    /\ Free(w)
    /\ UNCHANGED <<row, booking, delivered, spent, retries>>

Less(n) == IF n = 0 THEN 0 ELSE n - 1
Tick ==
    /\ (\E i \in Ids : row[i].due > 0) \/ (\E w \in Workers : hand[w].lease > 0)
    /\ row' = [i \in Ids |-> [row[i] EXCEPT !.due = Less(@)]]
    /\ hand' = [w \in Workers |-> [hand[w] EXCEPT !.lease = Less(@)]]
    /\ UNCHANGED <<booking, delivered, spent, crashes, retries>>

----------------------------------------------------------------------------
\* Every claim is settled, nothing waits and nobody adds anything: the system may stop here.
Quiet ==
    /\ \A i \in Ids : row[i].status # "PENDING"
    /\ \A w \in Workers : hand[w].at = "idle"
    /\ UNCHANGED vars

Claim(w) == \E i \in Ids : Skip(w, i) \/ DeadLetter(w, i) \/ Lease(w, i)
Work(w) == Claim(w) \/ Accept(w) \/ MarkSent(w) \/ Reject(w) \/ FailSend(w)

Next ==
    \/ \E i \in Ids : Reschedule(i) \/ Remind(i) \/ Cancel(i) \/ Reissue(i) \/ Retry(i)
    \/ CheckIn
    \/ \E w \in Workers, i \in Ids : Skip(w, i) \/ DeadLetter(w, i) \/ Lease(w, i)
    \/ \E w \in Workers :
         Accept(w) \/ MarkSent(w) \/ Reject(w) \/ FailSend(w) \/ Abandon(w)
    \/ Tick
    \/ Quiet

Spec == Init /\ [][Next]_vars
FairSpec == Spec /\ WF_vars(Tick) /\ \A w \in Workers : WF_vars(Work(w))

----------------------------------------------------------------------------
(* Properties *)

\* Types of the rows, the workers' hands, the booking and the history.
TypeOK ==
    /\ row \in [Ids -> RowType] /\ hand \in [Workers -> HandType]
    /\ booking \in [status : BookingStatus, start : 0..MaxStart]
    /\ delivered \in [Ids -> Nat] /\ spent \in [Ids -> Nat]
    /\ crashes \in 0..MaxCrashes /\ retries \in 0..MaxRetries

\* A row marked SENT was taken by the relay, whoever settled it and however late
\* (sendClaimed marks after the answer, and by id alone).
SentMeansDelivered == \A i \in Ids : row[i].status = "SENT" => delivered[i] > 0

Sending(i) == {w \in Workers : hand[w].at = "sending" /\ hand[w].id = i}

\* "At most one send per persisted attempt": copies delivered and sends under way never exceed
\* the attempts recorded, those the retry button wrote off included; this is what the lease
\* that commits before the send is for.
CopiesWithinAttempts ==
    \A i \in Ids : delivered[i] + Cardinality(Sending(i)) <= spent[i] + row[i].attempts

\* While a worker's lease on a row runs nobody else's does, so two sends of one mail overlap
\* only when the first has outlived its lease.  The retry button makes a row due at once, also
\* under a running lease, so this is about queues nobody has retried.
LeaseHeldByOne ==
    retries = 0 =>
        \A w, v \in Workers :
            w # v /\ hand[w].lease > 0 /\ hand[v].lease > 0 => hand[w].id # hand[v].id

\* The invitation that carries the only link still valid is never the one that is skipped.
NewestLinkGoesOut ==
    \A i \in Ids :
        row[i].kind = "account" /\ row[i].status = "SKIPPED" =>
            \E j \in Ids : j > i /\ row[j].kind = "account"

\* No send of a confirmation or reminder begins once the mail that says the booking is over
\* has reached anybody, and none of a reminder of a start after the notice of a later one: a
\* queue held up by the relay is not emptied in the wrong order.  A send that had begun before
\* may still end later (drain.ts drainOne, the staleness tests under the claim).
StaleMailStops ==
    [][\A w \in Workers, i \in Ids :
        /\ w \notin Sending(i) /\ hand'[w].at = "sending" /\ hand'[w].id = i
        /\ row[i].kind \in {"notice", "reminder"}
        => ~\E j \in Ids :
            /\ delivered[j] > 0
            /\ \/ row[j].kind = "end"
               \/ /\ row[i].kind = "reminder" /\ row[j].kind = "notice"
                  /\ row[j].start > row[i].start]_vars

\* Every mail ends sent, skipped or dead, also after crashes, late answers and retries.
QueueDrains == <>[](\A i \in Ids : row[i].status # "PENDING")
=============================================================================
