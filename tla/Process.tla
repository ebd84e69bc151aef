------------------------------ MODULE Process ------------------------------
(***************************************************************************)
(* One API process: the kick after a commit, the scheduler with its three  *)
(* jobs (jobs/index.ts), readiness (/readyz, app.ts), shutdown (server.ts) *)
(* and restart.  Another instance, as in a deployment that overlaps, may   *)
(* hold the advisory lock of a job at any time.                            *)
(*                                                                         *)
(* A job's round does its work in Outbox (notify.send), BookingTx          *)
(* (booking.sweep) and Identity (maintenance.daily).  Here it takes any    *)
(* time, fails at any step or never ends.  Timers fire on time: a unit of  *)
(* the clock is long against the delay of an event loop.  The clock is     *)
(* kept as ages and countdowns.                                            *)
(***************************************************************************)
EXTENDS Integers, FiniteSets

CONSTANTS
    Requests,
    SweepEvery, DrainEvery,   \* 60_000, 10_000
    Stale,                    \* 3 * 60_000
    Day, Night,               \* a day, and 03:15 in it
    Rivalry,                  \* the jobs the other instance runs
    MaxTrouble                \* bound on rounds that fail, shutdowns and crashes

Jobs   == {"booking.sweep", "notify.send", "maintenance.daily"}
Locked == Jobs \ {"notify.send"}
Never  == Stale + 2
Old    == Stale + 1           \* ages saturate here

ASSUME ProcessAssumption ==
    /\ SweepEvery \in Nat \ {0} /\ DrainEvery \in Nat \ {0} /\ Stale \in Nat /\ SweepEvery <= Stale
    /\ Rivalry \subseteq Locked /\ Day \in Nat \ {0} /\ Night \in 0..(Day - 1)

VARIABLES
    time,       \* time of day
    mode,       \* "up" until SIGTERM (stopped = false), "stopping", "closed": the pool ended, "down"
    due,        \* units until each timer fires
    busy,       \* the runner's flags
    rounds,     \* inFlight, with what a round has claimed and, for a sweep, its age
    settle,     \* the rounds that stop() waits for
    lock,       \* who holds each job's advisory lock: here, elsewhere, nobody
    lastOk,     \* age of jobState["booking.sweep"].lastSuccessAt
    immediate,  \* a setImmediate(kickDrain) is pending
    request,    \* "new", "open", "done" or "lost"
    mail,       \* the notification a request commits
    idle,       \* history: how long a queued mail has found the process without a round of mails
    trouble

scheduler == <<due, busy, rounds, settle, lastOk, immediate>>
vars == <<time, mode, scheduler, lock, request, mail, idle, trouble>>

\* msUntilBangkok0315: always later than now.
UntilNight(t) == IF t < Night THEN Night - t ELSE Night + Day - t
Interval(j) == CASE j = "booking.sweep" -> SweepEvery
                 [] j = "notify.send" -> DrainEvery
                 [] j = "maintenance.daily" -> UntilNight(time)

RoundsOf(j) == {r \in rounds : r.job = j}
FreshId == CHOOSE n \in 1..(Cardinality(rounds) + 1) : \A r \in rounds : r.id # n
NewRound(j) == [id |-> FreshId, job |-> j, phase |-> "load", age |-> 0, mails |-> {}]

Init ==
    /\ time = 0 /\ mode = "down" /\ due = [j \in Jobs |-> 0] /\ busy = [j \in Jobs |-> FALSE]
    /\ rounds = {} /\ settle = {} /\ lock = [j \in Locked |-> {}] /\ lastOk = Never
    /\ immediate = FALSE /\ request = [q \in Requests |-> "new"]
    /\ mail = [q \in Requests |-> "none"] /\ idle = 0 /\ trouble = 0

----------------------------------------------------------------------------
(* The runner *)

\* Deviation: ticks do not look at the flag.
StartsBusy(j) == mode = "up"
Starts(j) == mode = "up" /\ ~busy[j]

\* A tick of a job: skipped while the last round still runs and after stop().
Run(j) ==
    IF Starts(j)
    THEN /\ rounds' = rounds \cup {NewRound(j)} /\ busy' = [busy EXCEPT ![j] = TRUE]
         /\ idle' = IF j = "notify.send" THEN 0 ELSE idle
    ELSE UNCHANGED <<rounds, busy, idle>>

\* setInterval, and the chained setTimeout of daily.
Fire(j) ==
    /\ mode = "up" /\ due[j] = 0
    /\ due' = [due EXCEPT ![j] = Interval(j)]
    /\ Run(j)
    /\ UNCHANGED <<time, mode, settle, lock, lastOk, immediate, request, mail, trouble>>

\* The kick of a commit, once the event loop gets to it.
Kicked ==
    /\ immediate /\ immediate' = FALSE
    /\ Run("notify.send")
    /\ UNCHANGED <<time, mode, due, settle, lock, lastOk, request, mail, trouble>>

----------------------------------------------------------------------------
(* A round *)

\* Deviation: only a round that succeeds clears the flag.
EndStuck(r, ok) ==
    /\ rounds' = rounds \ {r} /\ busy' = [busy EXCEPT ![r.job] = ~ok]
    /\ lastOk' = IF ok /\ r.job = "booking.sweep" THEN 0 ELSE lastOk
\* then, catch and finally of the runner.
End(r, ok) ==
    /\ rounds' = rounds \ {r} /\ busy' = [busy EXCEPT ![r.job] = FALSE]
    /\ lastOk' = IF ok /\ r.job = "booking.sweep" THEN 0 ELSE lastOk

Works(r, mails) == rounds' = (rounds \ {r}) \cup {[r EXCEPT !.phase = "work", !.mails = mails]}

\* pg_try_advisory_xact_lock
Acquires(j) == lock[j] = {}

\* lockedRound: the lock or nothing; a round that is skipped ends well.
TryLock(r) ==
    /\ r.phase = "load" /\ r.job \in Locked
    /\ IF Acquires(r.job)
       THEN /\ lock' = [lock EXCEPT ![r.job] = lock[r.job] \cup {"here"}] /\ Works(r, {})
            /\ UNCHANGED <<busy, lastOk>>
       ELSE End(r, TRUE) /\ UNCHANGED lock
    /\ UNCHANGED <<time, mode, due, settle, immediate, request, mail, idle, trouble>>

\* runDrainOnce claims what is there now.
ClaimMail(r) ==
    /\ r.phase = "load" /\ r.job = "notify.send"
    /\ LET Queued == {q \in Requests : mail[q] = "queued"} IN
         /\ Works(r, Queued)
         /\ mail' = [q \in Requests |-> IF q \in Queued THEN "claimed" ELSE mail[q]]
    /\ UNCHANGED <<time, mode, due, busy, settle, lock, lastOk, immediate, request, idle, trouble>>

Unlocked(R) == [j \in Locked |-> IF \E r \in R : r.job = j /\ r.phase = "work" THEN lock[j] \ {"here"} ELSE lock[j]]
\* Deviation: what a failed round claimed stays claimed.
SettlesSent(R, to) ==
    mail' = [q \in Requests |-> IF to = "sent" /\ \E r \in R : q \in r.mails THEN to ELSE mail[q]]
Settles(R, to) == mail' = [q \in Requests |-> IF \E r \in R : q \in r.mails THEN to ELSE mail[q]]

Complete(r) ==
    /\ r.phase = "work" /\ End(r, TRUE)
    /\ lock' = Unlocked({r}) /\ Settles({r}, "sent")
    /\ UNCHANGED <<time, mode, due, settle, immediate, request, idle, trouble>>

\* An error anywhere: rolled back, logged, swallowed; what was claimed comes back (Outbox).
Fail(r) ==
    /\ trouble < MaxTrouble /\ trouble' = trouble + 1
    /\ End(r, FALSE)
    /\ lock' = Unlocked({r}) /\ Settles({r}, "queued")
    /\ UNCHANGED <<time, mode, due, settle, immediate, request, idle>>

----------------------------------------------------------------------------
(* Requests *)

Arrive(q) ==
    /\ request[q] = "new" /\ mode = "up"
    /\ request' = [request EXCEPT ![q] = "open"]
    /\ UNCHANGED <<time, mode, scheduler, lock, mail, idle, trouble>>

\* The transaction commits its booking with the mail, then kicks and answers.
Commit(q) ==
    /\ request[q] = "open" /\ mode \in {"up", "stopping"}
    /\ request' = [request EXCEPT ![q] = "done"] /\ mail' = [mail EXCEPT ![q] = "queued"]
    /\ immediate' = TRUE
    /\ UNCHANGED <<time, mode, due, busy, rounds, settle, lock, lastOk, idle, trouble>>

----------------------------------------------------------------------------
(* The process *)

\* The first sweep runs at boot, the other jobs wait for their timers.
Boot ==
    /\ mode = "down" /\ mode' = "up"
    /\ due' = [j \in Jobs |-> Interval(j)]
    /\ busy' = [j \in Jobs |-> j = "booking.sweep"] /\ rounds' = {NewRound("booking.sweep")}
    /\ lastOk' = Never
    /\ UNCHANGED <<time, settle, lock, immediate, request, mail, idle, trouble>>

\* SIGTERM: stopped, timers cleared, the rounds in flight are waited for; no new connection.
Stop ==
    /\ mode = "up" /\ mode' = "stopping"
    /\ trouble < MaxTrouble /\ trouble' = trouble + 1
    /\ settle' = {r.id : r \in rounds}
    /\ UNCHANGED <<time, due, busy, rounds, lock, lastOk, immediate, request, mail, idle>>

Serving == \E q \in Requests : request[q] = "open"
Settled == \A r \in rounds : r.id \notin settle

\* Deviation: the pool goes with the server.
ClosesEarly == ~Serving
Closes == ~Serving /\ Settled

\* The pool ends when the server has closed and the scheduler has stopped.
ClosePool ==
    /\ mode = "stopping" /\ Closes
    /\ mode' = "closed"
    /\ UNCHANGED <<time, scheduler, lock, request, mail, idle, trouble>>

\* The process is gone, in order or not; PostgreSQL ends its transactions.
Gone ==
    /\ mode # "down" /\ mode' = "down"
    /\ \/ mode = "closed" /\ UNCHANGED trouble
       \/ mode # "closed" /\ trouble < MaxTrouble /\ trouble' = trouble + 1
    /\ rounds' = {} /\ busy' = [j \in Jobs |-> FALSE] /\ settle' = {} /\ immediate' = FALSE
    /\ due' = [j \in Jobs |-> 0] /\ lastOk' = Never
    /\ lock' = Unlocked(rounds) /\ Settles(rounds, "queued") /\ idle' = 0
    /\ request' = [q \in Requests |-> IF request[q] = "open" THEN "lost" ELSE request[q]]
    /\ UNCHANGED time

\* The other instance takes a job's lock, and ends its transaction.
Elsewhere(j) ==
    /\ \/ lock[j] = {} /\ lock' = [lock EXCEPT ![j] = {"elsewhere"}]
       \/ "elsewhere" \in lock[j] /\ lock' = [lock EXCEPT ![j] = lock[j] \ {"elsewhere"}]
    /\ UNCHANGED <<time, mode, scheduler, request, mail, idle, trouble>>

Older(age) == IF age < Old THEN age + 1 ELSE age
Waiting == mode = "up" /\ RoundsOf("notify.send") = {} /\ \E q \in Requests : mail[q] = "queued"

\* Time passes when no timer is due and no immediate waits.
Advance ==
    /\ mode = "up" => ~immediate /\ \A j \in Jobs : due[j] > 0
    /\ time' = (time + 1) % Day
    /\ due' = [j \in Jobs |-> IF mode = "up" THEN due[j] - 1 ELSE due[j]]
    /\ rounds' = {[r EXCEPT !.age = IF r.job = "booking.sweep" THEN Older(r.age) ELSE 0] : r \in rounds}
    /\ lastOk' = Older(lastOk)
    /\ idle' = IF Waiting THEN idle + 1 ELSE 0
    /\ UNCHANGED <<mode, busy, settle, lock, immediate, request, mail, trouble>>

----------------------------------------------------------------------------
Work(r) == TryLock(r) \/ ClaimMail(r) \/ Complete(r) \/ Fail(r)
Tick == Kicked \/ \E j \in Jobs : Fire(j)
Next ==
    \/ \E r \in rounds : Work(r)
    \/ Tick \/ Boot \/ Stop \/ ClosePool \/ Gone \/ Advance
    \/ \E j \in Rivalry : Elsewhere(j)
    \/ \E q \in Requests : Arrive(q) \/ Commit(q)
Spec == Init /\ [][Next]_vars

\* Rounds end, the event loop turns, time passes, and the supervisor starts the process again.
Fairness ==
    /\ WF_vars(\E r \in RoundsOf("notify.send") : ClaimMail(r) \/ Complete(r))
    /\ WF_vars(Tick \/ Boot \/ ClosePool \/ (mode = "closed" /\ Gone)) /\ WF_vars(Advance)
    /\ \A q \in Requests : WF_vars(Commit(q))
    /\ WF_vars(\E r \in rounds : r.id \in settle /\ (TryLock(r) \/ Complete(r)))
FairSpec == Spec /\ Fairness

----------------------------------------------------------------------------
(* Properties *)

\* A round is what NewRound makes and Works and Advance change.
IsRound(r) ==
    r \in [id : {r.id}, job : Jobs, phase : {"load", "work"}, age : 0..Old, mails : SUBSET Requests]
\* Every variable keeps its shape.
TypeOK ==
    /\ time \in 0..(Day - 1) /\ mode \in {"up", "stopping", "closed", "down"}
    /\ due \in [Jobs -> Nat] /\ busy \in [Jobs -> BOOLEAN] /\ \A r \in rounds : IsRound(r)
    /\ lock \in [Locked -> SUBSET {"here", "elsewhere"}]
    /\ lastOk \in 0..Never /\ immediate \in BOOLEAN
    /\ request \in [Requests -> {"new", "open", "done", "lost"}]
    /\ mail \in [Requests -> {"none", "queued", "claimed", "sent"}]
    /\ idle \in Nat /\ trouble \in Nat

\* A round or a request never meets an ended pool (the contract of Scheduler.stop).
PoolOutlivesWork == mode = "closed" => ~Serving /\ rounds = {}

\* A mail whose kick was lost, because a round had already claimed, or whose round failed,
\* waits at most one interval for the idle process ("the 10s loop backstops it").
LoopBackstopsKick == idle <= DrainEvery

\* /readyz
Ready == lastOk <= Stale
\* A process whose sweep hangs stops being ready in time, even if it was ready before.
WedgedIsNotReady == \A r \in RoundsOf("booking.sweep") : r.age > Stale => ~Ready
\* What a commit queued leaves, whatever kick was dropped and wherever the process stopped.
CommittedMailLeaves == \A q \in Requests : mail[q] = "queued" ~> mail[q] = "sent"
=============================================================================
