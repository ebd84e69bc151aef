---------------------------- MODULE OutboxProofs ----------------------------
(***************************************************************************)
(* What the outbox keeps for any number of rows, workers, crashes and      *)
(* retries.                                                                *)
(***************************************************************************)
EXTENDS Outbox, FiniteSetTheorems, TLAPS

LEMMA Sizes ==
    /\ Rows \in Nat /\ Leftovers \in Nat /\ MaxStart \in Nat /\ MaxCrashes \in Nat
    /\ MaxRetries \in Nat /\ LeaseCap \in Nat /\ LeaseCap > 0 /\ AttemptCap \in Nat
BY SizesAssumption

\* A back-off is at least one unit and at most the cap.
LEMMA BackoffType == \A n \in Nat : Backoff(n) \in 1..LeaseCap
BY Sizes, SMT DEF Backoff

\* A running countdown stays within its range and never grows.
LEMMA LessType == \A n \in 0..LeaseCap : Less(n) \in 0..LeaseCap /\ Less(n) <= n
BY Sizes, SMT DEF Less

\* A worker that is not idle holds a row.
LEMMA HandId ==
    ASSUME TypeOK, NEW w \in Workers, hand[w].at # "idle"
    PROVE  /\ hand[w].id \in Ids /\ hand[w].lease \in 0..LeaseCap
           /\ hand[w].at \in {"sending", "accepted"}
BY DEF TypeOK, HandType, Idle

\* A row stays a row when it is leased, retried, or a unit of time passes.
LEMMA RowChange ==
    ASSUME NEW r \in RowType
    PROVE  /\ [r EXCEPT !.status = "PENDING", !.attempts = 0, !.due = 0] \in RowType
           /\ Leased(r) \in RowType
           /\ [r EXCEPT !.due = Less(@)] \in RowType
<1>1. 0 \in 0..LeaseCap
  BY Sizes
<1>2. Backoff(r.attempts) \in 0..LeaseCap
  BY Sizes, BackoffType DEF RowType
<1>3. Less(r.due) \in 0..LeaseCap
  BY LessType DEF RowType
<1>4. [r EXCEPT !.status = "PENDING", !.attempts = 0, !.due = 0] \in RowType
  BY <1>1 DEF RowType, Status
<1>5. Leased(r) \in RowType
  <2>1. \A n \in Nat, d \in 0..LeaseCap : [r EXCEPT !.attempts = n, !.due = d] \in RowType
    BY DEF RowType
  <2>2. r.attempts + 1 \in Nat
    BY DEF RowType
  <2> QED BY <1>2, <2>1, <2>2, Zenon DEF Leased
<1>6. [r EXCEPT !.due = Less(@)] \in RowType
  BY <1>3 DEF RowType
<1> QED BY <1>4, <1>5, <1>6

LEMMA RowFields ==
    ASSUME TypeOK, NEW i \in Ids
    PROVE  row[i] \in RowType /\ row[i].attempts \in Nat /\ row[i].due \in 0..LeaseCap
BY DEF TypeOK, RowType

----------------------------------------------------------------------------
(* Types *)

LEMMA TypeInit == Init => TypeOK
BY Sizes DEF Init, TypeOK, RowType, HandType, Row, Idle, Ids, Status, Kinds, BookingStatus

LEMMA TypeStep == TypeOK /\ [Next]_vars => TypeOK'
<1> SUFFICES ASSUME TypeOK, [Next]_vars PROVE TypeOK'
  OBVIOUS
<1> USE Sizes
<1>1. ASSUME NEW i \in Ids, Reschedule(i) PROVE TypeOK'
  BY <1>1 DEF TypeOK, Reschedule, Inserted, Row, RowType, QueueUnchanged, Status, Kinds
<1>2. ASSUME NEW i \in Ids, Remind(i) PROVE TypeOK'
  BY <1>2 DEF TypeOK, Remind, Inserted, Row, RowType, QueueUnchanged, Status, Kinds
<1>3. ASSUME NEW i \in Ids, Cancel(i) PROVE TypeOK'
  BY <1>3 DEF TypeOK, Cancel, Inserted, Row, RowType, QueueUnchanged, Status, Kinds, BookingStatus
<1>4. ASSUME NEW i \in Ids, Reissue(i) PROVE TypeOK'
  BY <1>4 DEF TypeOK, Reissue, Inserted, Superseding, Row, RowType, QueueUnchanged, Status, Kinds
<1>5. ASSUME NEW i \in Ids, Retry(i) PROVE TypeOK'
  <2>1. row' \in [Ids -> RowType]
    <3>1. [row[i] EXCEPT !.status = "PENDING", !.attempts = 0, !.due = 0] \in RowType
      BY RowFields, RowChange, Zenon
    <3> QED BY <1>5, <3>1 DEF Retry, TypeOK
  <2>2. spent' \in [Ids -> Nat]
    BY <1>5, RowFields DEF Retry, TypeOK, RowType
  <2> QED BY <1>5, <2>1, <2>2 DEF TypeOK, Retry
<1>6. ASSUME CheckIn PROVE TypeOK'
  BY <1>6 DEF TypeOK, CheckIn, QueueUnchanged, BookingStatus
<1>7. ASSUME NEW w \in Workers, NEW i \in Ids, Skip(w, i) \/ DeadLetter(w, i) PROVE TypeOK'
  BY <1>7 DEF TypeOK, RowType, Skip, DeadLetter, Status
<1>8. ASSUME NEW w \in Workers, NEW i \in Ids, Lease(w, i) PROVE TypeOK'
  <2>1. Backoff(row[i].attempts) \in 0..LeaseCap
    BY BackoffType DEF TypeOK, RowType
  <2>2. Leased(row[i]) \in RowType
    BY RowFields, RowChange, Zenon
  <2>3. row' \in [Ids -> RowType]
    BY <1>8, <2>2 DEF TypeOK, Lease
  <2>4. hand' \in [Workers -> HandType]
    BY <1>8, <2>1 DEF TypeOK, HandType, Lease
  <2> QED BY <1>8, <2>3, <2>4 DEF TypeOK, Lease
<1>9. ASSUME NEW w \in Workers, Accept(w) PROVE TypeOK'
  <2>1. [hand[w] EXCEPT !.at = "accepted"] \in HandType
    BY <1>9, HandId DEF TypeOK, HandType, Accept, Idle
  <2>2. delivered' \in [Ids -> Nat]
    BY <1>9, HandId DEF TypeOK, Accept
  <2> QED BY <1>9, <2>1, <2>2 DEF TypeOK, Accept
<1>10. ASSUME NEW w \in Workers, MarkSent(w) \/ Reject(w) \/ FailSend(w) PROVE TypeOK'
  <2>1. PICK s \in {"SENT", "FAILED", "PENDING"} : Settled(w, s)
    BY <1>10 DEF MarkSent, Reject, FailSend
  <2>2. hand[w].id \in Ids /\ s \in Status
    BY <1>10, HandId DEF MarkSent, Reject, FailSend, Status
  <2>3. row' \in [Ids -> RowType]
    BY <2>1, <2>2, RowFields DEF TypeOK, Settled, RowType
  <2> QED BY <2>1, <2>3 DEF TypeOK, HandType, Settled, Free
<1>11. ASSUME NEW w \in Workers, Abandon(w) PROVE TypeOK'
  BY <1>11 DEF TypeOK, HandType, Abandon, Free
<1>12. CASE Tick
  <2>1. ASSUME NEW w \in Workers
        PROVE  [hand[w] EXCEPT !.lease = Less(@)] \in HandType
    BY LessType DEF TypeOK, Idle, HandType, Less
  <2>2. \A i \in Ids : [row[i] EXCEPT !.due = Less(@)] \in RowType
    BY RowFields, RowChange, Zenon
  <2> QED BY <1>12, <2>1, <2>2 DEF TypeOK, Tick
<1>13. CASE UNCHANGED vars \/ Quiet
  BY <1>13 DEF TypeOK, vars, Quiet
<1> QED
  BY <1>1, <1>2, <1>3, <1>4, <1>5, <1>6, <1>7, <1>8, <1>9, <1>10, <1>11, <1>12, <1>13 DEF Next

\* The rows, the workers' hands, the booking and the history keep their types.
THEOREM OutboxTypes == Spec => []TypeOK
BY TypeInit, TypeStep, PTL DEF Spec

----------------------------------------------------------------------------
(* Rows in hand *)

\* What a settling statement does, whichever it is.
LEMMA SettleStep ==
    ASSUME TypeOK, NEW w \in Workers, MarkSent(w) \/ Reject(w) \/ FailSend(w)
    PROVE  \E s \in {"SENT", "FAILED", "PENDING"} :
             /\ Settled(w, s) /\ hand[w].at # "idle" /\ hand[w].id \in Ids
             /\ s = "SENT" => hand[w].at = "accepted"
BY HandId DEF MarkSent, Reject, FailSend

\* What a queueing transaction does: a blank row becomes a waiting one, and account mail that
\* waits may be skipped.
LEMMA InsertStep ==
    ASSUME TypeOK, NEW i \in Ids, Reschedule(i) \/ Remind(i) \/ Cancel(i) \/ Reissue(i)
    PROVE  /\ UNCHANGED <<hand, delivered, spent, crashes, retries>>
           /\ Fresh(i)
           /\ row'[i].status = "PENDING" /\ row'[i].attempts = 0
           /\ \A j \in Ids \ {i} :
                /\ row'[j].kind = row[j].kind /\ row'[j].attempts = row[j].attempts
                /\ row'[j].due = row[j].due
                /\ \/ row'[j].status = row[j].status
                   \/ /\ row[j].status = "PENDING" /\ row[j].kind = "account"
                      /\ row'[j].status = "SKIPPED" /\ row'[i].kind = "account"
<1>1. ASSUME Reschedule(i) \/ Remind(i) \/ Cancel(i)
      PROVE  \E k \in Kinds, t \in 0..MaxStart :
                Fresh(i) /\ QueueUnchanged /\ row' = Inserted(row, i, k, t)
  <2>1. booking.start \in 0..MaxStart
    BY DEF TypeOK
  <2>2. booking.start < MaxStart => booking.start + 1 \in 0..MaxStart
    BY <2>1, Sizes
  <2> QED BY <1>1, <2>1, <2>2 DEF Reschedule, Remind, Cancel, Kinds
<1>2. CASE Reschedule(i) \/ Remind(i) \/ Cancel(i)
  BY <1>1, <1>2 DEF TypeOK, RowType, Inserted, Row, QueueUnchanged
<1>3. CASE Reissue(i)
  <2>1. \A j \in Ids : row'[j] = IF j = i THEN Row("PENDING", "account", 0)
                                         ELSE Superseding(row)[j]
    BY <1>3 DEF Reissue, Inserted, Superseding
  <2>2. ASSUME NEW j \in Ids \ {i}
        PROVE  /\ row'[j].kind = row[j].kind /\ row'[j].attempts = row[j].attempts
               /\ row'[j].due = row[j].due
               /\ \/ row'[j].status = row[j].status
                  \/ /\ row[j].status = "PENDING" /\ row[j].kind = "account"
                     /\ row'[j].status = "SKIPPED"
    BY <2>1, RowFields DEF Superseding, RowType
  <2>3. row'[i] = Row("PENDING", "account", 0)
    BY <2>1
  <2> QED BY <1>3, <2>2, <2>3 DEF Reissue, Row, QueueUnchanged
<1> QED BY <1>2, <1>3

\* What time does: countdowns run, nothing else.
LEMMA TickStep ==
    ASSUME TypeOK, Tick
    PROVE  /\ UNCHANGED <<booking, delivered, spent, crashes, retries>>
           /\ \A j \in Ids :
                /\ row'[j].kind = row[j].kind /\ row'[j].attempts = row[j].attempts
                /\ row'[j].status = row[j].status /\ row'[j].due = Less(row[j].due)
           /\ \A w \in Workers :
                /\ hand'[w].at = hand[w].at /\ hand'[w].id = hand[w].id
                /\ hand'[w].lease = Less(hand[w].lease)
<1>1. \A w \in Workers : hand'[w] = [hand[w] EXCEPT !.lease = Less(@)]
  BY DEF Tick
<1>2. ASSUME NEW w \in Workers
      PROVE  /\ hand'[w].at = hand[w].at /\ hand'[w].id = hand[w].id
             /\ hand'[w].lease = Less(hand[w].lease)
  <2>1. hand[w] = Idle \/ hand[w] \in [at : {"sending", "accepted"}, id : Ids, lease : 0..LeaseCap]
    BY DEF TypeOK, HandType
  <2> QED BY <1>1, <2>1 DEF Idle
<1>3. \A j \in Ids : row'[j] = [row[j] EXCEPT !.due = Less(@)]
  BY DEF Tick
<1>4. ASSUME NEW j \in Ids
      PROVE  /\ row'[j].kind = row[j].kind /\ row'[j].attempts = row[j].attempts
             /\ row'[j].status = row[j].status /\ row'[j].due = Less(row[j].due)
  BY <1>3, RowFields DEF RowType
<1> QED BY <1>2, <1>4 DEF Tick

\* What a claim does that sends nothing.
LEMMA SkipStep ==
    ASSUME TypeOK, NEW w \in Workers, NEW i \in Ids, Skip(w, i) \/ DeadLetter(w, i)
    PROVE  /\ UNCHANGED <<hand, delivered, spent, retries>>
           /\ row[i].status = "PENDING" /\ row'[i].status \in {"SKIPPED", "FAILED"}
           /\ row'[i].status = "SKIPPED" => row[i].kind # "account"
           /\ row'[i].kind = row[i].kind /\ row'[i].due = row[i].due
           /\ row'[i].attempts \in {row[i].attempts, row[i].attempts + 1}
           /\ \A j \in Ids : j # i => row'[j] = row[j]
<1>1. CASE Skip(w, i)
  <2>1. row'[i] = [row[i] EXCEPT !.status = "SKIPPED"] /\ row[i].kind # "account"
    BY <1>1 DEF Skip, Stale, StaleReminder, OfDeadBooking, TypeOK
  <2> QED BY <1>1, <2>1, RowFields DEF Skip, Head, Due, RowType, TypeOK
<1>2. CASE DeadLetter(w, i)
  <2>1. row'[i] = [row[i] EXCEPT !.status = "FAILED", !.attempts = @ + 1]
    BY <1>2 DEF DeadLetter, TypeOK
  <2> QED BY <1>2, <2>1, RowFields DEF DeadLetter, Head, Due, RowType, TypeOK
<1> QED BY <1>1, <1>2

\* What a lease does.
LEMMA LeaseStep ==
    ASSUME TypeOK, NEW w \in Workers, NEW i \in Ids, Lease(w, i)
    PROVE  /\ row[i].status = "PENDING" /\ row[i].due = 0 /\ hand[w].at = "idle"
           /\ \A j \in Ids : j # i => row'[j] = row[j]
           /\ row'[i].attempts = row[i].attempts + 1
           /\ row'[i].kind = row[i].kind /\ row'[i].status = row[i].status
           /\ row'[i].due = Backoff(row[i].attempts)
           /\ \A v \in Workers : v # w => hand'[v] = hand[v]
           /\ hand'[w].at = "sending" /\ hand'[w].id = i
           /\ hand'[w].lease = Backoff(row[i].attempts)
           /\ UNCHANGED <<delivered, spent, retries>>
<1>1. row'[i] = Leased(row[i]) /\ \A j \in Ids : j # i => row'[j] = row[j]
  BY DEF Lease, TypeOK
<1>2. hand'[w] = [at |-> "sending", id |-> i, lease |-> Backoff(row[i].attempts)]
  BY DEF Lease, TypeOK
<1>3. \A v \in Workers : v # w => hand'[v] = hand[v]
  BY DEF Lease, TypeOK
<1>4. /\ row'[i].attempts = row[i].attempts + 1
      /\ row'[i].kind = row[i].kind /\ row'[i].status = row[i].status
      /\ row'[i].due = Backoff(row[i].attempts)
  BY <1>1, RowFields DEF Leased, RowType
<1> QED BY <1>1, <1>2, <1>3, <1>4 DEF Lease, Head, Due

\* What the end of a send does, settled or not.
LEMMA LetGoStep ==
    ASSUME TypeOK, NEW w \in Workers, MarkSent(w) \/ Reject(w) \/ FailSend(w) \/ Abandon(w)
    PROVE  /\ hand[w].at # "idle" /\ hand[w].id \in Ids /\ hand'[w] = Idle
           /\ \A v \in Workers : v # w => hand'[v] = hand[v]
           /\ UNCHANGED <<delivered, spent, retries>>
           /\ \A j \in Ids :
                /\ row'[j].kind = row[j].kind /\ row'[j].attempts = row[j].attempts
                /\ row'[j].due = row[j].due
                /\ \/ row'[j].status = row[j].status
                   \/ j = hand[w].id /\ row'[j].status \in {"SENT", "FAILED", "PENDING"}
<1>1. CASE MarkSent(w) \/ Reject(w) \/ FailSend(w)
  <2>1. PICK s \in {"SENT", "FAILED", "PENDING"} :
          Settled(w, s) /\ hand[w].at # "idle" /\ hand[w].id \in Ids
    BY <1>1, SettleStep
  <2>2. ASSUME NEW j \in Ids
        PROVE  /\ row'[j].kind = row[j].kind /\ row'[j].attempts = row[j].attempts
               /\ row'[j].due = row[j].due
               /\ \/ row'[j].status = row[j].status
                  \/ j = hand[w].id /\ row'[j].status = s
    BY <2>1, RowFields DEF Settled, RowType, TypeOK
  <2> QED BY <2>1, <2>2 DEF Settled, Free, TypeOK
<1>2. CASE Abandon(w)
  BY <1>2, HandId DEF Abandon, Free, TypeOK
<1> QED BY <1>1, <1>2

\* An id not used yet has a blank row that no worker holds.
Unused ==
    /\ \A i \in Ids : row[i].status = "NONE" => row[i].kind = "notice" /\ row[i].attempts = 0
    /\ \A w \in Workers : hand[w].at # "idle" => row[hand[w].id].status # "NONE"

LEMMA UnusedInit == Init => Unused
BY DEF Init, Unused, Row, Idle, Ids

LEMMA UnusedStep == TypeOK /\ Unused /\ [Next]_vars => Unused'
<1> SUFFICES ASSUME TypeOK, Unused, [Next]_vars PROVE Unused'
  OBVIOUS
<1>1. ASSUME NEW i \in Ids, Reschedule(i) \/ Remind(i) \/ Cancel(i) \/ Reissue(i)
      PROVE  Unused'
  BY <1>1, InsertStep, HandId DEF Unused
<1>2. ASSUME NEW i \in Ids, Retry(i) PROVE Unused'
  BY <1>2, HandId DEF Unused, TypeOK, RowType, Retry
<1>3. ASSUME NEW w \in Workers, NEW i \in Ids, Skip(w, i) \/ DeadLetter(w, i) PROVE Unused'
  BY <1>3, SkipStep, HandId DEF Unused
<1>4. ASSUME NEW w \in Workers, NEW i \in Ids, Lease(w, i) PROVE Unused'
  BY <1>4, LeaseStep, HandId DEF Unused
<1>5. ASSUME NEW w \in Workers, Accept(w) PROVE Unused'
  BY <1>5, HandId DEF Unused, TypeOK, Accept
<1>6. ASSUME NEW w \in Workers, MarkSent(w) \/ Reject(w) \/ FailSend(w) PROVE Unused'
  <2>1. PICK s \in {"SENT", "FAILED", "PENDING"} :
          Settled(w, s) /\ hand[w].at # "idle" /\ hand[w].id \in Ids
    BY <1>6, SettleStep
  <2> QED BY <2>1, HandId DEF Unused, TypeOK, RowType, Settled, Free, Idle
<1>7. ASSUME NEW w \in Workers, Abandon(w) PROVE Unused'
  BY <1>7 DEF Unused, TypeOK, Abandon, Free, Idle
<1>8. CASE Tick
  BY <1>8, TickStep, HandId DEF Unused
<1>9. CASE CheckIn \/ UNCHANGED vars \/ Quiet
  BY <1>9 DEF Unused, CheckIn, QueueUnchanged, vars, Quiet
<1> QED
  BY <1>1, <1>2, <1>3, <1>4, <1>5, <1>6, <1>7, <1>8, <1>9 DEF Next

----------------------------------------------------------------------------
(* SENT means delivered *)

\* The worker that will mark a row SENT knows that the relay took it.
Accepted == \A w \in Workers : hand[w].at = "accepted" => delivered[hand[w].id] > 0

LEMMA SentInit == Init => Accepted /\ SentMeansDelivered
BY DEF Init, Accepted, SentMeansDelivered, Row, Idle, Ids

LEMMA SentStep ==
    TypeOK /\ Accepted /\ SentMeansDelivered /\ [Next]_vars => (Accepted /\ SentMeansDelivered)'
<1> SUFFICES ASSUME TypeOK, Accepted, SentMeansDelivered, [Next]_vars
             PROVE  Accepted' /\ SentMeansDelivered'
  OBVIOUS
<1>1. ASSUME UNCHANGED <<hand, delivered>>,
             \A i \in Ids : row'[i].status = "SENT" => row[i].status = "SENT"
      PROVE  Accepted' /\ SentMeansDelivered'
  BY <1>1 DEF Accepted, SentMeansDelivered
<1>2. ASSUME NEW i \in Ids, Reschedule(i) \/ Remind(i) \/ Cancel(i) \/ Reissue(i)
      PROVE  Accepted' /\ SentMeansDelivered'
  BY <1>1, <1>2, InsertStep
<1>3. ASSUME NEW i \in Ids, Retry(i) PROVE Accepted' /\ SentMeansDelivered'
  BY <1>1, <1>3 DEF TypeOK, RowType, Retry
<1>4. ASSUME NEW w \in Workers, NEW i \in Ids, Skip(w, i) \/ DeadLetter(w, i)
      PROVE  Accepted' /\ SentMeansDelivered'
  BY <1>1, <1>4, SkipStep
<1>5. ASSUME NEW w \in Workers, NEW i \in Ids, Lease(w, i)
      PROVE  Accepted' /\ SentMeansDelivered'
  BY <1>5, LeaseStep DEF Accepted, SentMeansDelivered
<1>6. ASSUME NEW w \in Workers, Accept(w) PROVE Accepted' /\ SentMeansDelivered'
  <2>1. \A j \in Ids : delivered'[j] >= delivered[j]
    BY <1>6 DEF TypeOK, Accept
  <2>2. delivered'[hand[w].id] > 0 /\ hand'[w].id = hand[w].id
    BY <1>6, HandId DEF TypeOK, Accept
  <2>3. \A v \in Workers : v # w => hand'[v] = hand[v]
    BY <1>6 DEF TypeOK, Accept
  <2>4. \A v \in Workers : hand[v].at = "accepted" => hand[v].id \in Ids
    BY HandId
  <2>5. row' = row /\ delivered' \in [Ids -> Nat]
    BY <1>6, TypeStep DEF Accept, TypeOK
  <2>6. Accepted'
    BY <2>1, <2>2, <2>3, <2>4, <2>5 DEF TypeOK, Accepted
  <2> QED BY <2>1, <2>5, <2>6 DEF TypeOK, SentMeansDelivered
<1>7. ASSUME NEW w \in Workers, MarkSent(w) \/ Reject(w) \/ FailSend(w)
      PROVE  Accepted' /\ SentMeansDelivered'
  <2>1. PICK s \in {"SENT", "FAILED", "PENDING"} :
          /\ Settled(w, s) /\ hand[w].at # "idle" /\ hand[w].id \in Ids
          /\ s = "SENT" => hand[w].at = "accepted"
    BY <1>7, SettleStep
  <2>2. \A j \in Ids : row'[j].status = IF j = hand[w].id THEN s ELSE row[j].status
    BY <2>1 DEF TypeOK, RowType, Settled
  <2>3. \A v \in Workers : hand'[v] = IF v = w THEN Idle ELSE hand[v]
    BY <2>1 DEF TypeOK, Settled, Free
  <2>4. delivered' = delivered
    BY <2>1 DEF Settled
  <2> QED BY <2>1, <2>2, <2>3, <2>4 DEF Accepted, SentMeansDelivered, Idle
<1>8. ASSUME NEW w \in Workers, Abandon(w) PROVE Accepted' /\ SentMeansDelivered'
  BY <1>8 DEF TypeOK, Accepted, SentMeansDelivered, Abandon, Free, Idle
<1>9. ASSUME Tick PROVE Accepted' /\ SentMeansDelivered'
  BY <1>9, TickStep DEF Accepted, SentMeansDelivered
<1>10. CASE CheckIn \/ UNCHANGED vars \/ Quiet
  BY <1>10 DEF Accepted, SentMeansDelivered, CheckIn, QueueUnchanged, vars, Quiet
<1> QED
  BY <1>2, <1>3, <1>4, <1>5, <1>6, <1>7, <1>8, <1>9, <1>10 DEF Next

\* A row marked SENT was taken by the relay.
THEOREM OutboxSent == Spec => []SentMeansDelivered
BY TypeInit, TypeStep, SentInit, SentStep, PTL DEF Spec

----------------------------------------------------------------------------
(* Copies and attempts *)

LEMMA SendingFinite == ASSUME NEW i \in Ids
                       PROVE  IsFiniteSet(Sending(i)) /\ Cardinality(Sending(i)) \in Nat
BY WorkersAssumption, FS_Subset, FS_CardinalityType DEF Sending

LEMMA CopiesInit == Init => CopiesWithinAttempts
<1> SUFFICES ASSUME Init, NEW i \in Ids
             PROVE  delivered[i] + Cardinality(Sending(i)) <= spent[i] + row[i].attempts
  BY DEF CopiesWithinAttempts
<1>1. Sending(i) = {}
  BY DEF Init, Sending, Idle
<1>2. delivered[i] = 0 /\ spent[i] = 0 /\ row[i].attempts = 0
  BY DEF Init, Row
<1> QED BY <1>1, <1>2, FS_EmptySet

\* Fewer sends under way and no fewer attempts: the bound still holds.
LEMMA CopiesShrink ==
    ASSUME TypeOK, TypeOK', CopiesWithinAttempts, NEW i \in Ids,
           delivered'[i] = delivered[i], Sending(i)' \subseteq Sending(i),
           spent'[i] + row'[i].attempts >= spent[i] + row[i].attempts
    PROVE  delivered'[i] + Cardinality(Sending(i)') <= spent'[i] + row'[i].attempts
<1>1. Cardinality(Sending(i)') <= Cardinality(Sending(i)) /\ Cardinality(Sending(i)') \in Nat
  BY SendingFinite, FS_Subset, FS_CardinalityType
<1>2. /\ Cardinality(Sending(i)) \in Nat /\ delivered[i] \in Nat /\ spent[i] \in Nat
      /\ row[i].attempts \in Nat /\ spent'[i] \in Nat /\ row'[i].attempts \in Nat
  BY SendingFinite DEF TypeOK, RowType
<1>3. delivered[i] + Cardinality(Sending(i)) <= spent[i] + row[i].attempts
  BY DEF CopiesWithinAttempts
<1> QED BY <1>1, <1>2, <1>3

LEMMA CopiesStep ==
    TypeOK /\ TypeOK' /\ Unused /\ CopiesWithinAttempts /\ [Next]_vars => CopiesWithinAttempts'
<1> SUFFICES ASSUME TypeOK, TypeOK', Unused, CopiesWithinAttempts, [Next]_vars, NEW i \in Ids
             PROVE  delivered'[i] + Cardinality(Sending(i)') <= spent'[i] + row'[i].attempts
  BY DEF CopiesWithinAttempts
<1> DEFINE Goal == delivered'[i] + Cardinality(Sending(i)') <= spent'[i] + row'[i].attempts
<1>0. /\ row[i].attempts \in Nat /\ row'[i].attempts \in Nat /\ spent[i] \in Nat
      /\ spent'[i] \in Nat /\ delivered[i] \in Nat
  BY DEF TypeOK, RowType
<1>1. ASSUME NEW j \in Ids, Reschedule(j) \/ Remind(j) \/ Cancel(j) \/ Reissue(j) PROVE Goal
  <2>1. row'[i].attempts = row[i].attempts
    BY <1>1, InsertStep DEF Unused, Fresh
  <2>2. UNCHANGED <<hand, delivered, spent>>
    BY <1>1, InsertStep
  <2> QED BY <1>0, <2>1, <2>2, CopiesShrink DEF Sending
<1>2. ASSUME NEW j \in Ids, Retry(j) PROVE Goal
  <2>1. spent'[i] + row'[i].attempts = spent[i] + row[i].attempts
    BY <1>0, <1>2 DEF Retry, TypeOK, RowType
  <2>2. UNCHANGED <<hand, delivered>>
    BY <1>2 DEF Retry
  <2> QED BY <1>0, <2>1, <2>2, CopiesShrink DEF Sending
<1>3. ASSUME NEW w \in Workers, NEW j \in Ids, Skip(w, j) \/ DeadLetter(w, j) PROVE Goal
  <2>1. row'[i].attempts \in {row[i].attempts, row[i].attempts + 1}
    BY <1>3, SkipStep
  <2>2. UNCHANGED <<hand, delivered, spent>>
    BY <1>3, SkipStep
  <2>3. spent'[i] + row'[i].attempts >= spent[i] + row[i].attempts
    BY <1>0, <2>1, <2>2
  <2> QED BY <2>2, <2>3, CopiesShrink DEF Sending
<1>4. ASSUME NEW w \in Workers, Lease(w, i) PROVE Goal
  <2>1. Sending(i)' = Sending(i) \cup {w} /\ w \notin Sending(i)
    BY <1>4, LeaseStep DEF Sending
  <2>2. Cardinality(Sending(i)') = Cardinality(Sending(i)) + 1
    BY <2>1, SendingFinite, FS_AddElement
  <2>3. /\ delivered'[i] = delivered[i] /\ spent'[i] = spent[i]
        /\ row'[i].attempts = row[i].attempts + 1
    BY <1>4, LeaseStep
  <2>4. delivered[i] + Cardinality(Sending(i)) <= spent[i] + row[i].attempts
    BY DEF CopiesWithinAttempts
  <2> QED BY <1>0, <2>2, <2>3, <2>4, SendingFinite
<1>5. ASSUME NEW w \in Workers, NEW j \in Ids, j # i, Lease(w, j) PROVE Goal
  <2>1. Sending(i)' = Sending(i)
    BY <1>5, LeaseStep DEF Sending
  <2>2. row'[i] = row[i] /\ delivered' = delivered /\ spent' = spent
    BY <1>5, LeaseStep
  <2> QED BY <1>0, <2>1, <2>2, CopiesShrink
<1>6. ASSUME NEW w \in Workers, Accept(w) PROVE Goal
  <2>1. /\ hand[w].id \in Ids /\ row' = row /\ spent' = spent
        /\ hand'[w].at = "accepted" /\ \A v \in Workers : v # w => hand'[v] = hand[v]
        /\ delivered' = [delivered EXCEPT ![hand[w].id] = @ + 1]
    BY <1>6, HandId DEF Accept, TypeOK
  <2>2. CASE hand[w].id = i
    <3>1. w \in Sending(i) /\ Sending(i)' = Sending(i) \ {w}
      BY <1>6, <2>1, <2>2 DEF Sending, Accept
    <3>2. Cardinality(Sending(i)') = Cardinality(Sending(i)) - 1
      BY <3>1, SendingFinite, FS_RemoveElement
    <3>3. delivered'[i] = delivered[i] + 1
      BY <2>1, <2>2 DEF TypeOK
    <3>4. delivered[i] + Cardinality(Sending(i)) <= spent[i] + row[i].attempts
      BY DEF CopiesWithinAttempts
    <3> QED BY <1>0, <2>1, <3>2, <3>3, <3>4, SendingFinite
  <2>3. CASE hand[w].id # i
    <3>1. Sending(i)' \subseteq Sending(i) /\ delivered'[i] = delivered[i]
      BY <2>1, <2>3 DEF Sending, TypeOK
    <3> QED BY <1>0, <2>1, <3>1, CopiesShrink
  <2> QED BY <2>2, <2>3
<1>7. ASSUME NEW w \in Workers, MarkSent(w) \/ Reject(w) \/ FailSend(w) \/ Abandon(w) PROVE Goal
  <2>1. Sending(i)' \subseteq Sending(i)
    BY <1>7, LetGoStep DEF Sending, Idle
  <2>2. row'[i].attempts = row[i].attempts /\ delivered' = delivered /\ spent' = spent
    BY <1>7, LetGoStep
  <2> QED BY <1>0, <2>1, <2>2, CopiesShrink
<1>8. CASE Tick
  <2>1. Sending(i)' = Sending(i)
    BY <1>8, TickStep DEF Sending
  <2>2. row'[i].attempts = row[i].attempts /\ delivered' = delivered /\ spent' = spent
    BY <1>8, TickStep
  <2> QED BY <1>0, <2>1, <2>2, CopiesShrink
<1>9. CASE CheckIn \/ UNCHANGED vars \/ Quiet
  <2>1. UNCHANGED <<row, hand, delivered, spent>>
    BY <1>9 DEF CheckIn, QueueUnchanged, vars, Quiet
  <2> QED BY <1>0, <2>1, CopiesShrink DEF Sending
<1> QED
  BY <1>1, <1>2, <1>3, <1>4, <1>5, <1>6, <1>7, <1>8, <1>9 DEF Next

\* Copies delivered and sends under way never exceed the attempts recorded.
THEOREM OutboxCopies == Spec => []CopiesWithinAttempts
BY TypeInit, TypeStep, UnusedInit, UnusedStep, CopiesInit, CopiesStep, PTL DEF Spec

----------------------------------------------------------------------------
(* Leases *)

\* Until somebody uses the retry button, a row is due no earlier than any lease on it ends.
LeaseCovered ==
    retries = 0 => \A w \in Workers : hand[w].lease > 0 => hand[w].lease <= row[hand[w].id].due

\* An idle worker has no lease.
LEMMA LeaseHolder ==
    ASSUME TypeOK, NEW w \in Workers
    PROVE  /\ hand[w].lease \in 0..LeaseCap
           /\ hand[w].lease > 0 => hand[w].at # "idle" /\ hand[w].id \in Ids
BY Sizes DEF TypeOK, HandType, Idle

LEMMA LeaseInit == Init => LeaseCovered /\ LeaseHeldByOne
BY DEF Init, LeaseCovered, LeaseHeldByOne, Idle

LEMMA LeaseInvStep ==
    TypeOK /\ TypeOK' /\ Unused /\ LeaseCovered /\ LeaseHeldByOne /\ [Next]_vars
        => (LeaseCovered /\ LeaseHeldByOne)'
<1> SUFFICES ASSUME TypeOK, TypeOK', Unused, LeaseCovered, LeaseHeldByOne, [Next]_vars
             PROVE  LeaseCovered' /\ LeaseHeldByOne'
  OBVIOUS
<1> DEFINE Goal == LeaseCovered' /\ LeaseHeldByOne'
<1>0. \A i \in Ids : row[i].due \in 0..LeaseCap /\ row'[i].due \in 0..LeaseCap
  BY DEF TypeOK, RowType
\* The same leases, or some given up, and rows that become due no earlier.
<1>1. ASSUME retries' = retries,
             \A w \in Workers : hand'[w].lease > 0 =>
                 hand'[w].lease = hand[w].lease /\ hand'[w].id = hand[w].id,
             \A i \in Ids : row[i].status # "NONE" => row'[i].due >= row[i].due
      PROVE  Goal
  <2>1. ASSUME retries' = 0, NEW w \in Workers, hand'[w].lease > 0
        PROVE  hand'[w].lease <= row'[hand'[w].id].due
    <3>1. hand[w].lease > 0 /\ hand'[w].id = hand[w].id /\ hand'[w].lease = hand[w].lease
      BY <1>1, <2>1
    <3>2. hand[w].id \in Ids /\ row[hand[w].id].status # "NONE"
      BY <3>1, LeaseHolder DEF Unused
    <3>3. hand[w].lease <= row[hand[w].id].due
      BY <1>1, <2>1, <3>1 DEF LeaseCovered
    <3> QED BY <1>0, <1>1, <3>1, <3>2, <3>3, LeaseHolder
  <2>2. LeaseHeldByOne'
    BY <1>1 DEF LeaseHeldByOne
  <2> QED BY <2>1, <2>2 DEF LeaseCovered
<1>2. ASSUME NEW j \in Ids, Reschedule(j) \/ Remind(j) \/ Cancel(j) \/ Reissue(j) PROVE Goal
  <2>1. \A i \in Ids : row[i].status # "NONE" => row'[i].due = row[i].due
    BY <1>2, InsertStep DEF Fresh
  <2> QED BY <1>0, <1>1, <1>2, <2>1, InsertStep
<1>3. ASSUME NEW j \in Ids, Retry(j) PROVE Goal
  <2>1. retries' # 0
    BY <1>3, Sizes DEF Retry, TypeOK
  <2> QED BY <2>1 DEF LeaseCovered, LeaseHeldByOne
<1>4. ASSUME NEW w \in Workers, NEW j \in Ids, Skip(w, j) \/ DeadLetter(w, j) PROVE Goal
  <2>1. \A i \in Ids : row'[i].due = row[i].due
    BY <1>4, SkipStep
  <2> QED BY <1>0, <1>1, <1>4, <2>1, SkipStep
<1>5. ASSUME NEW w \in Workers, NEW j \in Ids, Lease(w, j) PROVE Goal
  <2>1. CASE retries' # 0
    BY <2>1 DEF LeaseCovered, LeaseHeldByOne
  <2>2. CASE retries' = 0
    <3>1. retries = 0 /\ row[j].due = 0
      BY <1>5, <2>2, LeaseStep
    <3>2. ASSUME NEW v \in Workers, hand[v].lease > 0 PROVE hand[v].id # j
      BY <3>1, <3>2, LeaseHolder DEF LeaseCovered
    <3>3. \A v \in Workers : v # w => hand'[v] = hand[v]
      BY <1>5, LeaseStep
    <3>4. hand'[w].id = j /\ hand'[w].lease = row'[j].due
      BY <1>5, LeaseStep
    <3>5. LeaseHeldByOne'
      BY <3>1, <3>2, <3>3, <3>4 DEF LeaseHeldByOne
    <3>6. ASSUME NEW v \in Workers, hand'[v].lease > 0
          PROVE  hand'[v].lease <= row'[hand'[v].id].due
      <4>1. CASE v = w
        BY <1>0, <3>4, <4>1
      <4>2. CASE v # w
        <5>1. hand'[v] = hand[v] /\ hand[v].id # j /\ hand[v].id \in Ids
          BY <3>2, <3>3, <3>6, <4>2, LeaseHolder
        <5>2. row'[hand[v].id] = row[hand[v].id]
          BY <1>5, <5>1, LeaseStep
        <5> QED BY <3>1, <3>6, <5>1, <5>2 DEF LeaseCovered
      <4> QED BY <4>1, <4>2
    <3> QED BY <3>5, <3>6 DEF LeaseCovered
  <2> QED BY <2>1, <2>2
<1>6. ASSUME NEW w \in Workers, Accept(w) PROVE Goal
  <2>1. row' = row /\ retries' = retries
    BY <1>6 DEF Accept
  <2>2. \A v \in Workers : hand'[v].lease = hand[v].lease /\ hand'[v].id = hand[v].id
    <3>1. hand'[w].lease = hand[w].lease /\ hand'[w].id = hand[w].id
      BY <1>6, HandId DEF Accept, TypeOK, HandType, Idle
    <3> QED BY <1>6, <3>1 DEF Accept, TypeOK
  <2> QED BY <1>0, <1>1, <2>1, <2>2
<1>7. ASSUME NEW w \in Workers, MarkSent(w) \/ Reject(w) \/ FailSend(w) \/ Abandon(w) PROVE Goal
  <2>1. \A v \in Workers : hand'[v].lease > 0 => hand'[v] = hand[v]
    BY <1>7, LetGoStep DEF Idle
  <2>2. \A i \in Ids : row'[i].due = row[i].due
    BY <1>7, LetGoStep
  <2>3. retries' = retries
    BY <1>7, LetGoStep
  <2> QED BY <1>0, <1>1, <2>1, <2>2, <2>3
<1>8. CASE Tick
  <2>1. ASSUME retries' = 0, NEW w \in Workers, hand'[w].lease > 0
        PROVE  /\ hand[w].lease > 0 /\ hand'[w].id = hand[w].id
               /\ hand'[w].lease <= row'[hand'[w].id].due
    <3>1. hand'[w].lease = Less(hand[w].lease) /\ hand'[w].id = hand[w].id /\ retries = 0
      BY <1>8, <2>1, TickStep
    <3>2. hand[w].lease > 0 /\ hand'[w].lease = hand[w].lease - 1
      BY <2>1, <3>1, LeaseHolder DEF Less
    <3>3. hand[w].id \in Ids /\ hand[w].lease <= row[hand[w].id].due
      BY <3>1, <3>2, LeaseHolder DEF LeaseCovered
    <3>4. row'[hand[w].id].due = Less(row[hand[w].id].due)
      BY <1>8, <3>3, TickStep
    <3>5. Less(row[hand[w].id].due) = row[hand[w].id].due - 1
      BY <1>0, <3>2, <3>3, LeaseHolder DEF Less
    <3> QED BY <1>0, <3>1, <3>2, <3>3, <3>4, <3>5, LeaseHolder
  <2>2. LeaseHeldByOne'
    BY <1>8, <2>1, TickStep DEF LeaseHeldByOne
  <2> QED BY <2>1, <2>2 DEF LeaseCovered
<1>9. CASE CheckIn \/ UNCHANGED vars \/ Quiet
  <2>1. UNCHANGED <<row, hand, retries>>
    BY <1>9 DEF CheckIn, QueueUnchanged, vars, Quiet
  <2> QED BY <1>0, <1>1, <2>1
<1> QED
  BY <1>2, <1>3, <1>4, <1>5, <1>6, <1>7, <1>8, <1>9 DEF Next

\* While nobody has used the retry button, no two workers hold running leases on one row.
THEOREM OutboxLease == Spec => []LeaseHeldByOne
BY TypeInit, TypeStep, UnusedInit, UnusedStep, LeaseInit, LeaseInvStep, PTL DEF Spec

----------------------------------------------------------------------------
(* Invitations *)

\* Ids are used in order, so that a later row of account mail is a later invitation.
InOrder == \A i, j \in Ids : row[i].status = "NONE" /\ i < j => row[j].status = "NONE"

LEMMA NewestInit == Init => InOrder /\ NewestLinkGoesOut
BY Sizes DEF Init, InOrder, NewestLinkGoesOut, Row, Ids

LEMMA NewestStep ==
    TypeOK /\ Unused /\ InOrder /\ NewestLinkGoesOut /\ [Next]_vars
        => (InOrder /\ NewestLinkGoesOut)'
<1> SUFFICES ASSUME TypeOK, Unused, InOrder, NewestLinkGoesOut, [Next]_vars
             PROVE  InOrder' /\ NewestLinkGoesOut'
  OBVIOUS
<1> DEFINE Goal == InOrder' /\ NewestLinkGoesOut'
\* Rows keep their kinds, are used or not as before, and none is skipped now.
<1>1. ASSUME \A i \in Ids :
               /\ row'[i].kind = row[i].kind
               /\ row'[i].status = "NONE" <=> row[i].status = "NONE"
               /\ row'[i].kind = "account" /\ row'[i].status = "SKIPPED"
                      => row[i].status = "SKIPPED"
      PROVE  Goal
  BY <1>1 DEF InOrder, NewestLinkGoesOut
<1>2. ASSUME NEW i \in Ids, Reschedule(i) \/ Remind(i) \/ Cancel(i) \/ Reissue(i) PROVE Goal
  <2>1. /\ row[i].status = "NONE" /\ row[i].kind = "notice" /\ row'[i].status = "PENDING"
        /\ \A j \in Ids : row[j].status = "NONE" => i <= j
    BY <1>2, InsertStep DEF Fresh, Unused
  <2>2. ASSUME NEW j \in Ids, j # i
        PROVE  /\ row'[j].kind = row[j].kind
               /\ (row'[j].status = "NONE") <=> (row[j].status = "NONE")
               /\ row'[j].status = "SKIPPED" => \/ row[j].status = "SKIPPED"
                                                \/ /\ row'[i].kind = "account"
                                                   /\ row[j].status = "PENDING"
    <3>1. \/ row'[j].status = row[j].status
          \/ /\ row[j].status = "PENDING" /\ row'[j].status = "SKIPPED"
             /\ row'[i].kind = "account"
      BY <1>2, <2>2, InsertStep
    <3>2. row'[j].kind = row[j].kind
      BY <1>2, <2>2, InsertStep
    <3> QED BY <3>1, <3>2
  <2>3. InOrder'
    BY <2>1, <2>2 DEF InOrder, Ids
  <2>4. ASSUME NEW j \in Ids, row'[j].kind = "account", row'[j].status = "SKIPPED"
        PROVE  \E k \in Ids : k > j /\ row'[k].kind = "account"
    <3>1. j # i
      BY <2>1, <2>4
    <3>2. CASE row[j].status = "SKIPPED"
      <4>1. PICK k \in Ids : k > j /\ row[k].kind = "account"
        BY <2>2, <2>4, <3>1, <3>2 DEF NewestLinkGoesOut
      <4> QED BY <2>1, <2>2, <4>1
    <3>3. CASE row'[i].kind = "account" /\ row[j].status = "PENDING"
      <4>1. j < i
        BY <2>1, <3>1, <3>3 DEF InOrder, Ids
      <4> QED BY <3>3, <4>1 DEF Ids
    <3> QED BY <2>2, <2>4, <3>1, <3>2, <3>3
  <2> QED BY <2>3, <2>4 DEF NewestLinkGoesOut
<1>3. ASSUME NEW i \in Ids, Retry(i) PROVE Goal
  <2>1. row'[i] = [row[i] EXCEPT !.status = "PENDING", !.attempts = 0, !.due = 0]
    BY <1>3 DEF Retry, TypeOK
  <2>2. row'[i].kind = row[i].kind /\ row'[i].status = "PENDING" /\ row[i].status = "FAILED"
    BY <1>3, <2>1, RowFields DEF RowType, Retry
  <2>3. \A j \in Ids : j # i => row'[j] = row[j]
    BY <1>3 DEF Retry, TypeOK
  <2> QED BY <1>1, <2>2, <2>3
<1>4. ASSUME NEW w \in Workers, NEW i \in Ids, Skip(w, i) \/ DeadLetter(w, i) PROVE Goal
  BY <1>1, <1>4, SkipStep
<1>5. ASSUME NEW w \in Workers, NEW i \in Ids, Lease(w, i) PROVE Goal
  BY <1>1, <1>5, LeaseStep
<1>6. ASSUME NEW w \in Workers, MarkSent(w) \/ Reject(w) \/ FailSend(w) \/ Abandon(w) PROVE Goal
  <2>1. row[hand[w].id].status # "NONE"
    BY <1>6, LetGoStep DEF Unused
  <2> QED BY <1>1, <1>6, <2>1, LetGoStep
<1>7. ASSUME Tick PROVE Goal
  BY <1>1, <1>7, TickStep
<1>8. ASSUME (\E w \in Workers : Accept(w)) \/ CheckIn \/ UNCHANGED vars \/ Quiet PROVE Goal
  BY <1>1, <1>8 DEF Accept, CheckIn, vars, Quiet
<1> QED
  BY <1>2, <1>3, <1>4, <1>5, <1>6, <1>7, <1>8 DEF Next

\* The newest invitation is never the one that is skipped.
THEOREM OutboxNewest == Spec => []NewestLinkGoesOut
BY TypeInit, TypeStep, UnusedInit, UnusedStep, NewestInit, NewestStep, PTL DEF Spec


----------------------------------------------------------------------------
(* Stale mail *)

\* No notice is of a start still to come, and a mail that says the booking is over tells the truth.
Truthful ==
    \A j \in Ids : /\ row[j].kind = "notice" => row[j].start <= booking.start
                   /\ row[j].kind = "end" => booking.status = "CANCELLED"

LEMMA TruthfulInit == Init => Truthful
BY Sizes DEF Init, Truthful, Row

\* What happens to a row in the queue changes neither its kind nor the start it is about.
LEMMA SubjectKept ==
    ASSUME TypeOK, NEW i \in Ids,
           \/ Retry(i)
           \/ \E w \in Workers : Skip(w, i) \/ DeadLetter(w, i) \/ Lease(w, i)
    PROVE  /\ UNCHANGED booking
           /\ \A j \in Ids : row'[j].kind = row[j].kind /\ row'[j].start = row[j].start
<1>1. \A j \in Ids \ {i} : row'[j] = row[j]
  BY DEF Retry, Skip, DeadLetter, Lease, TypeOK
<1>2. row[i] \in RowType
  BY RowFields
<1>3. \/ row'[i] = [row[i] EXCEPT !.status = "PENDING", !.attempts = 0, !.due = 0]
      \/ row'[i] = [row[i] EXCEPT !.status = "SKIPPED"]
      \/ row'[i] = [row[i] EXCEPT !.status = "FAILED", !.attempts = @ + 1]
      \/ row'[i] = Leased(row[i])
  BY DEF Retry, Skip, DeadLetter, Lease, TypeOK
<1>4. row'[i].kind = row[i].kind /\ row'[i].start = row[i].start
  BY <1>2, <1>3 DEF RowType, Leased
<1>5. QED
  BY <1>1, <1>4 DEF Retry, Skip, DeadLetter, Lease

LEMMA SettleKept ==
    ASSUME TypeOK, NEW w \in Workers, MarkSent(w) \/ Reject(w) \/ FailSend(w)
    PROVE  /\ UNCHANGED booking
           /\ \A j \in Ids : row'[j].kind = row[j].kind /\ row'[j].start = row[j].start
<1>1. PICK s \in {"SENT", "FAILED", "PENDING"} : Settled(w, s) /\ hand[w].id \in Ids
  BY SettleStep
<1>2. \A j \in Ids : row[j] \in RowType
  BY RowFields
<1>3. QED
  BY <1>1, <1>2 DEF Settled, RowType, TypeOK

\* A queued mail is about the booking as this very step leaves it.
LEMMA InsertTruthful ==
    ASSUME TypeOK, Truthful, NEW i \in Ids, Reschedule(i) \/ Remind(i) \/ Cancel(i) \/ Reissue(i)
    PROVE  Truthful'
<1>1. booking.start \in 0..MaxStart /\ booking \in [status : BookingStatus, start : 0..MaxStart]
  BY DEF TypeOK
<1>2. /\ booking'.start >= booking.start
      /\ booking.status = "CANCELLED" => booking'.status = "CANCELLED"
  BY <1>1, Sizes DEF Reschedule, Remind, Cancel, Reissue
<1>3. PICK k, t : /\ row'[i] = Row("PENDING", k, t)
                  /\ k = "notice" => t <= booking'.start
                  /\ k = "end" => booking'.status = "CANCELLED"
  <2>1. CASE Reschedule(i)
    BY <1>1, <2>1, Sizes DEF Reschedule, Inserted, TypeOK
  <2>2. CASE Remind(i)
    BY <2>2 DEF Remind, Inserted, TypeOK
  <2>3. CASE Cancel(i)
    BY <1>1, <2>3 DEF Cancel, Inserted, TypeOK
  <2>4. CASE Reissue(i)
    <3>1. row'[i] = Row("PENDING", "account", 0)
      BY <2>4 DEF Reissue, Inserted, Superseding
    <3>2. QED
      BY <3>1
  <2>5. QED
    BY <2>1, <2>2, <2>3, <2>4
<1>4. row'[i].kind = k /\ row'[i].start = t
  BY <1>3 DEF Row
<1>5. ASSUME NEW j \in Ids \ {i} PROVE row'[j].kind = row[j].kind /\ row'[j].start = row[j].start
  <2>1. row'[j] \in {row[j], [row[j] EXCEPT !.status = "SKIPPED"]}
    BY DEF Reschedule, Remind, Cancel, Reissue, Inserted, Superseding, TypeOK
  <2>2. QED
    BY <2>1, RowFields DEF RowType
<1>6. \A j \in Ids : row[j].start \in 0..MaxStart
  BY DEF TypeOK, RowType
<1>7. booking'.start \in Int
  BY <1>1, Sizes DEF Reschedule, Remind, Cancel, Reissue
<1>8. QED
  BY <1>1, <1>2, <1>3, <1>4, <1>5, <1>6, <1>7, Sizes DEF Truthful

LEMMA TruthfulStep == TypeOK /\ Truthful /\ [Next]_vars => Truthful'
<1>1. SUFFICES ASSUME TypeOK, Truthful, [Next]_vars PROVE Truthful'
  OBVIOUS
<1>2. ASSUME NEW i \in Ids, Reschedule(i) \/ Remind(i) \/ Cancel(i) \/ Reissue(i) PROVE Truthful'
  BY <1>1, <1>2, InsertTruthful
<1>3. ASSUME NEW i \in Ids,
             Retry(i) \/ \E w \in Workers : Skip(w, i) \/ DeadLetter(w, i) \/ Lease(w, i)
      PROVE  Truthful'
  BY <1>1, <1>3, SubjectKept DEF Truthful
<1>4. ASSUME NEW w \in Workers, MarkSent(w) \/ Reject(w) \/ FailSend(w) PROVE Truthful'
  BY <1>1, <1>4, SettleKept DEF Truthful
<1>5. CASE CheckIn
  <2>1. booking'.start = booking.start /\ booking.status = "CONFIRMED" /\ row' = row
    BY <1>1, <1>5 DEF CheckIn, TypeOK
  <2>2. QED
    BY <1>1, <2>1 DEF Truthful
<1>6. CASE Tick
  <2>1. UNCHANGED booking
    BY <1>6 DEF Tick
  <2>2. ASSUME NEW j \in Ids PROVE row'[j].kind = row[j].kind /\ row'[j].start = row[j].start
    <3>1. row'[j] = [row[j] EXCEPT !.due = Less(@)]
      BY <1>6 DEF Tick
    <3>2. QED
      BY <1>1, <3>1, RowFields DEF RowType
  <2>3. QED
    BY <1>1, <2>1, <2>2 DEF Truthful
<1>7. CASE (\E w \in Workers : Accept(w) \/ Abandon(w)) \/ Quiet \/ UNCHANGED vars
  BY <1>1, <1>7 DEF Accept, Abandon, Quiet, vars, Truthful
<1>8. QED
  BY <1>1, <1>2, <1>3, <1>4, <1>5, <1>6, <1>7 DEF Next

\* Only a lease begins a send.
LEMMA SendBegins ==
    ASSUME TypeOK, Next, NEW w \in Workers, NEW i \in Ids, w \notin Sending(i),
           hand'[w].at = "sending", hand'[w].id = i
    PROVE  Lease(w, i)
<1>1. ~(hand[w].at = "sending" /\ hand[w].id = i)
  BY DEF Sending
<1>2. ASSUME NEW j \in Ids, Reschedule(j) \/ Remind(j) \/ Cancel(j) \/ Reissue(j) PROVE FALSE
  BY <1>1, <1>2, InsertStep
<1>3. ASSUME UNCHANGED hand PROVE FALSE
  BY <1>1, <1>3
<1>4. CASE (\E j \in Ids : Retry(j)) \/ CheckIn \/ Quiet
  BY <1>3, <1>4 DEF Retry, CheckIn, QueueUnchanged, Quiet, vars
<1>5. ASSUME NEW v \in Workers, NEW j \in Ids, Skip(v, j) \/ DeadLetter(v, j) PROVE FALSE
  BY <1>3, <1>5, SkipStep
<1>6. ASSUME NEW v \in Workers, NEW j \in Ids, Lease(v, j) PROVE Lease(w, i)
  <2>1. CASE v = w
    <3>1. j = i
      BY <1>6, <2>1, LeaseStep
    <3>2. QED
      BY <1>6, <2>1, <3>1
  <2>2. CASE v # w
    BY <1>1, <1>6, <2>2, LeaseStep
  <2>3. QED
    BY <2>1, <2>2
<1>7. ASSUME NEW v \in Workers, Accept(v) PROVE FALSE
  <2>1. CASE v = w
    <3>1. hand[w] \in [at : {"sending", "accepted"}, id : Ids, lease : 0..LeaseCap]
      BY <1>7, <2>1 DEF Accept, TypeOK, HandType, Idle
    <3>2. hand'[w] = [hand[w] EXCEPT !.at = "accepted"]
      BY <1>7, <2>1 DEF Accept, TypeOK
    <3>3. QED
      BY <3>1, <3>2
  <2>2. CASE v # w
    BY <1>1, <1>7, <2>2 DEF Accept, TypeOK
  <2>3. QED
    BY <2>1, <2>2
<1>8. ASSUME NEW v \in Workers, MarkSent(v) \/ Reject(v) \/ FailSend(v) \/ Abandon(v) PROVE FALSE
  BY <1>1, <1>8, LetGoStep DEF Idle
<1>9. CASE Tick
  BY <1>1, <1>9, TickStep
<1>10. QED
  BY <1>2, <1>4, <1>5, <1>6, <1>7, <1>8, <1>9 DEF Next

\* A mail that could only confuse, a confirmation of a booking somebody was told is over or a
\* reminder of a start somebody was told has moved, is not begun to be sent, whatever crashed, was
\* delivered late or retried before (StaleMailStops; drain.ts drainOne).
THEOREM OutboxStale == Spec => StaleMailStops
<1>1. ASSUME TypeOK, Truthful, Next, NEW w \in Workers, NEW i \in Ids, w \notin Sending(i),
             hand'[w].at = "sending", hand'[w].id = i, row[i].kind \in {"notice", "reminder"}, NEW j \in Ids,
             \/ row[j].kind = "end"
             \/ row[i].kind = "reminder" /\ row[j].kind = "notice" /\ row[j].start > row[i].start
      PROVE  FALSE
  <2>1. ~StaleReminder(i) /\ ~OfDeadBooking(i)
    BY <1>1, SendBegins DEF Lease, Stale
  <2>2. booking.status # "CANCELLED" /\ (row[i].kind = "reminder" => booking.start = row[i].start)
    BY <1>1, <2>1 DEF StaleReminder, OfDeadBooking
  <2>3. row[j].kind = "notice" => row[j].start <= booking.start
    BY <1>1 DEF Truthful
  <2>4. row[j].start \in Int /\ row[i].start \in Int
    BY <1>1, RowFields, Sizes DEF RowType
  <2>5. QED
    BY <1>1, <2>2, <2>3, <2>4 DEF Truthful
<1>2. TypeOK /\ Truthful /\ [Next]_vars =>
        [\A w \in Workers, i \in Ids :
           /\ w \notin Sending(i) /\ hand'[w].at = "sending" /\ hand'[w].id = i
           /\ row[i].kind \in {"notice", "reminder"}
           => ~\E j \in Ids :
               /\ delivered[j] > 0
               /\ \/ row[j].kind = "end"
                  \/ /\ row[i].kind = "reminder" /\ row[j].kind = "notice"
                     /\ row[j].start > row[i].start]_vars
  BY <1>1
<1>3. QED
  BY <1>2, TypeInit, TypeStep, TruthfulInit, TruthfulStep, PTL DEF Spec, StaleMailStops
=============================================================================
