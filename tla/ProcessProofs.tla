---------------------------- MODULE ProcessProofs ----------------------------
(***************************************************************************)
(* For any intervals and any number of requests: the pool outlives the     *)
(* work, the loop makes up for lost kicks within its interval, and a sweep *)
(* that hangs is noticed.  All three rest on the runner's flag: a job has  *)
(* at most one round, and its flag is up exactly while that runs.          *)
(***************************************************************************)
EXTENDS Process, TLAPS

Mailing == "notify.send"
Sweeping == "booking.sweep"

\* The flag and the round.
Single ==
    /\ \A j \in Jobs : busy[j] = (\E r \in rounds : r.job = j)
    /\ \A r, s \in rounds : r.job = s.job => r = s
\* stop() has every round that still runs in its list, for none starts after it.
Waited ==
    /\ mode \in {"stopping", "closed"} => \A r \in rounds : r.id \in settle
    /\ mode = "down" => rounds = {}
\* An idle process's next tick is no further away than what is left of the interval.
Counted ==
    /\ idle <= DrainEvery
    /\ mode = "up" => due[Mailing] + idle <= DrainEvery
    /\ busy[Mailing] => idle = 0
    /\ mode = "down" => idle = 0
\* Nothing succeeded since the sweep that runs now began.
Aged == \A r \in rounds : r.job = Sweeping => r.age <= lastOk
Inv == TypeOK /\ Single /\ Waited /\ PoolOutlivesWork /\ Counted /\ Aged

LEMMA Names ==
    /\ Mailing \in Jobs /\ Sweeping \in Jobs /\ Mailing # Sweeping /\ Locked \subseteq Jobs
    /\ Mailing \notin Locked /\ Interval(Mailing) = DrainEvery
    /\ Stale \in Nat /\ Old = Stale + 1 /\ Never = Stale + 2
    /\ DrainEvery \in Nat /\ SweepEvery \in Nat
BY ProcessAssumption DEF Mailing, Sweeping, Jobs, Locked, Interval, Old, Never

LEMMA Intervals == ASSUME TypeOK, NEW j \in Jobs PROVE Interval(j) \in Nat
BY ProcessAssumption DEF TypeOK, Interval, UntilNight, Jobs

LEMMA NewRoundShape ==
    ASSUME NEW j \in Jobs
    PROVE  IsRound(NewRound(j)) /\ NewRound(j).job = j /\ NewRound(j).age = 0
<1>1. NewRound(j).job = j /\ NewRound(j).age = 0 /\ NewRound(j).phase = "load"
      /\ NewRound(j).mails = {} /\ NewRound(j).id = FreshId
  BY DEF NewRound
<1>2. QED
  BY <1>1, Names DEF IsRound, NewRound

LEMMA InitInv == Init => Inv
<1> SUFFICES ASSUME Init PROVE Inv
  OBVIOUS
<1>1. TypeOK
  <2>1. 0 \in 0..(Day - 1) /\ Never \in 0..Never
    BY Names, ProcessAssumption
  <2>2. /\ due \in [Jobs -> Nat] /\ busy \in [Jobs -> BOOLEAN] /\ \A r \in rounds : IsRound(r)
        /\ lock \in [Locked -> SUBSET {"here", "elsewhere"}]
        /\ request \in [Requests -> {"new", "open", "done", "lost"}]
        /\ mail \in [Requests -> {"none", "queued", "claimed", "sent"}]
    BY DEF Init
  <2>3. QED
    BY <2>1, <2>2 DEF Init, TypeOK
<1>2. Single /\ Waited /\ PoolOutlivesWork /\ Counted /\ Aged
  BY Names DEF Init, Single, Waited, PoolOutlivesWork, Counted, Aged
<1>3. QED
  BY <1>1, <1>2 DEF Inv

----------------------------------------------------------------------------
(* What steps do to rounds and flags *)

Runs == rounds' = rounds /\ busy' = busy
\* The part of the invariant that is about rounds, flags and the last success.
Rounds ==
    /\ busy \in [Jobs -> BOOLEAN] /\ \A r \in rounds : IsRound(r)
    /\ lastOk \in 0..Never
    /\ Single /\ Aged

LEMMA RunStep ==
    ASSUME Rounds, idle \in Nat, busy[Mailing] => idle = 0, NEW j \in Jobs, Run(j), UNCHANGED lastOk
    PROVE  /\ Rounds' /\ idle' \in {0, idle}
           /\ busy'[Mailing] => idle' = 0
           /\ mode # "up" => UNCHANGED <<rounds, busy, idle>>
           /\ j = Mailing /\ mode = "up" => idle' = 0
<1>1. CASE Starts(j)
  <2>1. rounds' = rounds \cup {NewRound(j)} /\ busy' = [busy EXCEPT ![j] = TRUE]
        /\ idle' = IF j = Mailing THEN 0 ELSE idle
    BY <1>1 DEF Run, Mailing
  <2>2. ~ \E r \in rounds : r.job = j
    BY <1>1 DEF Starts, Rounds, Single
  <2>3. busy' \in [Jobs -> BOOLEAN]
    BY <2>1 DEF Rounds
  <2>4. \A r \in rounds' : IsRound(r)
    BY <2>1, NewRoundShape DEF Rounds
  <2>5. \A i \in Jobs : busy'[i] = (\E r \in rounds' : r.job = i)
    <3>1. busy'[j] = TRUE /\ \A i \in Jobs \ {j} : busy'[i] = busy[i]
      BY <2>1 DEF Rounds
    <3>2. \A i \in Jobs \ {j} : (\E r \in rounds' : r.job = i) = (\E r \in rounds : r.job = i)
      BY <2>1, NewRoundShape
    <3>3. \E r \in rounds' : r.job = j
      BY <2>1, NewRoundShape
    <3>4. QED
      BY <3>1, <3>2, <3>3 DEF Rounds, Single
  <2>6. \A r, s \in rounds' : r.job = s.job => r = s
    BY <2>1, <2>2, NewRoundShape DEF Rounds, Single
  <2>7. Aged'
    <3>1. ASSUME NEW r \in rounds', r.job = Sweeping PROVE r.age <= lastOk'
      <4>1. CASE r \in rounds
        BY <3>1, <4>1 DEF Rounds, Aged
      <4>2. CASE r = NewRound(j)
        <5>1. r.age = 0 /\ lastOk \in Nat
          BY <4>2, NewRoundShape, Names DEF Rounds
        <5>2. QED
          BY <5>1
      <4>3. QED
        BY <2>1, <4>1, <4>2
    <3>2. QED
      BY <3>1 DEF Aged
  <2>8. busy'[Mailing] => idle' = 0
    BY <2>1, Names DEF Rounds
  <2>9. mode = "up"
    BY <1>1 DEF Starts
  <2>10. QED
    BY <2>1, <2>3, <2>4, <2>5, <2>6, <2>7, <2>8, <2>9 DEF Rounds, Single
<1>2. CASE ~Starts(j)
  <2>1. UNCHANGED <<rounds, busy, idle>>
    BY <1>2 DEF Run
  <2>2. Rounds'
    BY <2>1 DEF Rounds, Single, Aged
  <2>3. QED
    BY <2>1, <2>2, <1>2 DEF Starts
<1>3. QED
  BY <1>1, <1>2

\* A round that ends leaves its job idle.
LEMMA EndStep ==
    ASSUME Rounds, NEW r \in rounds, NEW ok \in BOOLEAN, End(r, ok)
    PROVE  Rounds' /\ rounds' \subseteq rounds /\ \A j \in Jobs : busy'[j] => busy[j]
<1>1. r.job \in Jobs
  BY DEF Rounds, IsRound
<1>2. rounds' = rounds \ {r} /\ busy' = [busy EXCEPT ![r.job] = FALSE]
  BY DEF End
<1>3. busy' \in [Jobs -> BOOLEAN] /\ (\A s \in rounds' : IsRound(s))
      /\ (\A s, t \in rounds' : s.job = t.job => s = t)
  BY <1>1, <1>2 DEF Rounds, Single
<1>4. \A s \in rounds' : s.job # r.job
  BY <1>2 DEF Rounds, Single
<1>5. \A j \in Jobs : busy'[j] = (\E s \in rounds' : s.job = j)
  <2>1. busy'[r.job] = FALSE /\ \A j \in Jobs \ {r.job} : busy'[j] = busy[j]
    BY <1>1, <1>2 DEF Rounds
  <2>2. \A j \in Jobs \ {r.job} : (\E s \in rounds' : s.job = j) = (\E s \in rounds : s.job = j)
    BY <1>2
  <2>3. QED
    BY <1>1, <1>4, <2>1, <2>2 DEF Rounds, Single
<1>6. lastOk' \in 0..Never
  BY Names DEF End, Rounds
<1>7. Aged'
  <2>1. CASE r.job = Sweeping
    BY <1>4, <2>1 DEF Aged
  <2>2. CASE r.job # Sweeping
    BY <1>2, <2>2 DEF End, Sweeping, Rounds, Aged
  <2>3. QED
    BY <2>1, <2>2
<1>8. QED
  BY <1>1, <1>2, <1>3, <1>5, <1>6, <1>7 DEF Rounds, Single

LEMMA Worked ==
    ASSUME NEW r, IsRound(r), NEW mails \in SUBSET Requests
    PROVE  LET w == [r EXCEPT !.phase = "work", !.mails = mails] IN
           IsRound(w) /\ w.job = r.job /\ w.id = r.id /\ w.age = r.age
BY DEF IsRound

LEMMA Grown ==
    ASSUME NEW r, IsRound(r), NEW age \in 0..Old
    PROVE  LET o == [r EXCEPT !.age = age] IN
           IsRound(o) /\ o.job = r.job /\ o.id = r.id /\ o.age = age
BY DEF IsRound

\* A round that goes on is the same round.
LEMMA WorkStep ==
    ASSUME Rounds, NEW r \in rounds, NEW mails \in SUBSET Requests, Works(r, mails), UNCHANGED <<busy, lastOk>>
    PROVE  Rounds' /\ \A s \in rounds' : \E t \in rounds : s.id = t.id
<1> DEFINE w == [r EXCEPT !.phase = "work", !.mails = mails]
<1>1. IsRound(r)
  BY DEF Rounds
<1>2. IsRound(w) /\ w.job = r.job /\ w.id = r.id /\ w.age = r.age
  BY <1>1, Worked
<1>3. rounds' = (rounds \ {r}) \cup {w}
  BY DEF Works
<1> HIDE DEF w
<1>4. \A j \in Jobs : (\E s \in rounds' : s.job = j) = (\E s \in rounds : s.job = j)
  BY <1>2, <1>3
<1>5. \A s, t \in rounds' : s.job = t.job => s = t
  BY <1>2, <1>3 DEF Rounds, Single
<1>6. Aged'
  BY <1>2, <1>3 DEF Rounds, Aged
<1>7. \A s \in rounds' : IsRound(s)
  BY <1>2, <1>3 DEF Rounds
<1>8. \A s \in rounds' : \E t \in rounds : s.id = t.id
  BY <1>2, <1>3
<1>9. busy' \in [Jobs -> BOOLEAN] /\ lastOk' \in 0..Never
  BY DEF Rounds
<1>10. Single'
  BY <1>4, <1>5 DEF Rounds, Single
<1>11. QED
  BY <1>6, <1>7, <1>8, <1>9, <1>10 DEF Rounds

LEMMA OlderBounds ==
    /\ \A a \in 0..Old : Older(a) \in 0..Old
    /\ \A a \in 0..Never : Older(a) \in 0..Never
    /\ \A a \in 0..Old, b \in 0..Never : a <= b => Older(a) <= Older(b)
BY Names DEF Older

\* Everything is a unit older, and jobs are what they were.
LEMMA AdvanceRounds ==
    ASSUME Rounds, Advance
    PROVE  Rounds' /\ \A s \in rounds' : \E t \in rounds : s.id = t.id
<1> DEFINE o(r) == [r EXCEPT !.age = IF r.job = Sweeping THEN Older(r.age) ELSE 0]
<1>1. rounds' = {o(r) : r \in rounds} /\ busy' = busy /\ lastOk' = Older(lastOk)
  BY DEF Advance, Sweeping
<1>2. ASSUME NEW r \in rounds
      PROVE  /\ IsRound(o(r)) /\ o(r).job = r.job /\ o(r).id = r.id
             /\ r.job = Sweeping => o(r).age = Older(r.age)
  <2>1. IsRound(r)
    BY DEF Rounds
  <2>2. r.age \in 0..Old
    BY <2>1 DEF IsRound
  <2>3. Older(r.age) \in 0..Old /\ 0 \in 0..Old
    BY <2>2, OlderBounds, Names
  <2>4. CASE r.job = Sweeping
    BY <2>1, <2>3, <2>4, Grown
  <2>5. CASE r.job # Sweeping
    BY <2>1, <2>3, <2>5, Grown
  <2>6. QED
    BY <2>4, <2>5
<1> HIDE DEF o
<1>3. \A j \in Jobs : (\E s \in rounds' : s.job = j) = (\E s \in rounds : s.job = j)
  BY <1>1, <1>2
<1>4. \A s, t \in rounds' : s.job = t.job => s = t
  BY <1>1, <1>2 DEF Rounds, Single
<1>5. Aged'
  <2>1. ASSUME NEW r \in rounds, r.job = Sweeping PROVE o(r).age <= Older(lastOk)
    <3>1. r.age \in 0..Old /\ lastOk \in 0..Never /\ r.age <= lastOk
      BY <2>1 DEF Rounds, Aged, IsRound
    <3>2. QED
      BY <1>2, <2>1, <3>1, OlderBounds
  <2>2. QED
    BY <1>1, <1>2, <2>1 DEF Aged
<1>6. Single'
  BY <1>1, <1>3, <1>4 DEF Rounds, Single
<1>7. (\A s \in rounds' : IsRound(s)) /\ lastOk' \in 0..Never /\ busy' \in [Jobs -> BOOLEAN]
  BY <1>1, <1>2, OlderBounds DEF Rounds
<1>8. QED
  BY <1>1, <1>2, <1>5, <1>6, <1>7 DEF Rounds

----------------------------------------------------------------------------
(* Steps *)

LEMMA InvRounds == Inv => Rounds
BY DEF Inv, TypeOK, Rounds

LEMMA RoundsStay == ASSUME Rounds, UNCHANGED <<rounds, busy, lastOk>> PROVE Rounds'
<1>1. rounds' = rounds /\ busy' = busy /\ lastOk' = lastOk
  OBVIOUS
<1>2. Single'
  BY <1>1 DEF Rounds, Single
<1>3. Aged'
  BY <1>1 DEF Rounds, Aged
<1>4. QED
  BY <1>1, <1>2, <1>3 DEF Rounds

LEMMA Emptied ==
    ASSUME rounds' = {}, busy' = [j \in Jobs |-> FALSE], lastOk' = Never
    PROVE  Rounds'
BY Names DEF Rounds, Single, Aged

LEMMA BootRounds == ASSUME Boot PROVE Rounds'
<1>1. rounds' = {NewRound(Sweeping)} /\ busy' = [j \in Jobs |-> j = Sweeping] /\ lastOk' = Never
  BY DEF Boot, Sweeping
<1>2. busy' \in [Jobs -> BOOLEAN] /\ \A j \in Jobs : busy'[j] = (j = Sweeping)
  BY <1>1
<1>3. IsRound(NewRound(Sweeping)) /\ NewRound(Sweeping).job = Sweeping /\ NewRound(Sweeping).age = 0
  BY NewRoundShape, Names
<1>4. Single'
  <2>1. \A j \in Jobs : (\E r \in rounds' : r.job = j) = (j = Sweeping)
    BY <1>1, <1>3
  <2>2. \A r, s \in rounds' : r.job = s.job => r = s
    BY <1>1
  <2>3. QED
    BY <1>2, <2>1, <2>2 DEF Single
<1>5. Aged'
  BY <1>1, <1>3, Names DEF Aged
<1>6. QED
  BY <1>1, <1>2, <1>3, <1>4, <1>5, Names DEF Rounds

LEMMA WorkRounds ==
    ASSUME Inv, NEW r \in rounds, Work(r)
    PROVE  Rounds' /\ (\A s \in rounds' : \E t \in rounds : s.id = t.id) /\ (\A j \in Jobs : busy'[j] => busy[j])
<1>1. Rounds
  BY InvRounds
<1>2. ASSUME NEW ok \in BOOLEAN, End(r, ok)
      PROVE  Rounds' /\ (\A s \in rounds' : \E t \in rounds : s.id = t.id) /\ (\A j \in Jobs : busy'[j] => busy[j])
  BY <1>1, <1>2, EndStep
<1>3. ASSUME NEW mails \in SUBSET Requests, Works(r, mails), UNCHANGED <<busy, lastOk>>
      PROVE  Rounds' /\ (\A s \in rounds' : \E t \in rounds : s.id = t.id) /\ (\A j \in Jobs : busy'[j] => busy[j])
  BY <1>1, <1>3, WorkStep
<1>4. CASE TryLock(r)
  BY <1>2, <1>3, <1>4 DEF TryLock
<1>5. CASE ClaimMail(r)
  <2>1. {q \in Requests : mail[q] = "queued"} \in SUBSET Requests
    OBVIOUS
  <2>2. QED
    BY <1>3, <1>5, <2>1 DEF ClaimMail
<1>6. CASE Complete(r) \/ Fail(r)
  BY <1>2, <1>6 DEF Complete, Fail
<1>7. QED
  BY <1>4, <1>5, <1>6 DEF Work

\* A tick starts a round in a running process and nowhere else.
LEMMA TickRounds ==
    ASSUME Inv, Tick
    PROVE  /\ Rounds' /\ idle' \in {0, idle} /\ UNCHANGED <<mode, settle, request>>
           /\ busy'[Mailing] => idle' = 0
           /\ mode # "up" => UNCHANGED <<rounds, busy, idle>>
           /\ mode = "up" => (due'[Mailing] = due[Mailing] \/ (due'[Mailing] = DrainEvery /\ idle' = 0))
<1>1. Rounds /\ idle \in Nat /\ (busy[Mailing] => idle = 0)
  BY InvRounds DEF Inv, TypeOK, Counted
<1>2. CASE Kicked
  <2>1. Run(Mailing) /\ UNCHANGED <<mode, settle, request, due, lastOk>>
    BY <1>2 DEF Kicked, Mailing
  <2>2. QED
    BY <1>1, <2>1, RunStep, Names
<1>3. CASE \E j \in Jobs : Fire(j)
  <2>1. PICK j \in Jobs : Fire(j)
    BY <1>3
  <2>2. Run(j) /\ UNCHANGED <<mode, settle, request, lastOk>> /\ due' = [due EXCEPT ![j] = Interval(j)] /\ mode = "up"
    BY <2>1 DEF Fire
  <2>3. due'[Mailing] = IF j = Mailing THEN DrainEvery ELSE due[Mailing]
    BY <2>2, Names DEF Inv, TypeOK
  <2>4. /\ Rounds' /\ idle' \in {0, idle} /\ (busy'[Mailing] => idle' = 0)
        /\ j = Mailing => idle' = 0
    BY <1>1, <2>2, RunStep
  <2>5. mode = "up" => (due'[Mailing] = due[Mailing] \/ (due'[Mailing] = DrainEvery /\ idle' = 0))
    <3>1. j = Mailing => idle' = 0
      BY <2>4
    <3>2. CASE j = Mailing
      BY <2>3, <3>1, <3>2
    <3>3. CASE j # Mailing
      BY <2>3, <3>3
    <3>4. QED
      BY <3>2, <3>3
  <2>6. mode = "up" /\ UNCHANGED <<mode, settle, request>>
    BY <2>2
  <2>7. QED
    BY <2>4, <2>5, <2>6
<1>4. QED
  BY <1>2, <1>3 DEF Tick

LEMMA NextRounds == ASSUME Inv, Next PROVE Rounds'
<1>1. ASSUME NEW r \in rounds, Work(r) PROVE Rounds'
  BY <1>1, WorkRounds
<1>2. CASE Tick
  BY <1>2, TickRounds
<1>3. CASE Boot
  BY <1>3, BootRounds
<1>4. CASE Gone
  BY <1>4, Emptied DEF Gone
<1>5. CASE Advance
  BY <1>5, InvRounds, AdvanceRounds
<1>6. CASE UNCHANGED <<rounds, busy, lastOk>>
  BY <1>6, InvRounds, RoundsStay
<1>7. QED
  BY <1>1, <1>2, <1>3, <1>4, <1>5, <1>6 DEF Next, Stop, ClosePool, Elsewhere, Arrive, Commit, scheduler

----------------------------------------------------------------------------
(* The shutdown *)

LEMMA NextWaited == ASSUME Inv, Next PROVE Waited' /\ PoolOutlivesWork'
<1> USE DEF Inv, Waited
<1>0. mode \in {"up", "stopping", "closed", "down"}
  BY DEF TypeOK
<1>1. ASSUME NEW r \in rounds, Work(r) PROVE Waited' /\ PoolOutlivesWork'
  <2>1. UNCHANGED <<mode, settle, request>>
    BY <1>1 DEF Work, TryLock, ClaimMail, Complete, Fail
  <2>2. \A s \in rounds' : \E t \in rounds : s.id = t.id
    BY <1>1, WorkRounds
  <2>3. QED
    BY <2>1, <2>2 DEF PoolOutlivesWork, Serving
<1>2. CASE Tick
  BY <1>0, <1>2, TickRounds DEF PoolOutlivesWork, Serving
<1>3. CASE Boot \/ Stop \/ Gone
  BY <1>3 DEF Boot, Stop, Gone, PoolOutlivesWork
<1>4. CASE ClosePool
  BY <1>4 DEF ClosePool, Closes, Settled, scheduler, PoolOutlivesWork, Serving
<1>5. CASE Advance
  <2>1. \A s \in rounds' : \E t \in rounds : s.id = t.id
    BY <1>5, InvRounds, AdvanceRounds
  <2>2. UNCHANGED <<mode, settle, request>>
    BY <1>5 DEF Advance
  <2>3. QED
    BY <2>1, <2>2 DEF PoolOutlivesWork, Serving
<1>6. ASSUME NEW j \in Rivalry, Elsewhere(j) PROVE Waited' /\ PoolOutlivesWork'
  BY <1>6 DEF Elsewhere, scheduler, PoolOutlivesWork, Serving
<1>7. ASSUME NEW q \in Requests, Arrive(q) \/ Commit(q) PROVE Waited' /\ PoolOutlivesWork'
  BY <1>7 DEF Arrive, Commit, scheduler, PoolOutlivesWork
<1>8. QED
  BY <1>1, <1>2, <1>3, <1>4, <1>5, <1>6, <1>7 DEF Next

----------------------------------------------------------------------------
(* The loop *)

LEMMA NextCounted == ASSUME Inv, Next PROVE Counted'
<1> USE Names DEF Counted
<1>0. due[Mailing] \in Nat /\ idle \in Nat /\ busy[Mailing] \in BOOLEAN
  BY DEF Inv, TypeOK
<1>1. ASSUME NEW r \in rounds, Work(r) PROVE Counted'
  <2>1. UNCHANGED <<mode, due, idle>>
    BY <1>1 DEF Work, TryLock, ClaimMail, Complete, Fail
  <2>2. busy'[Mailing] => busy[Mailing]
    BY <1>1, WorkRounds
  <2>3. QED
    BY <2>1, <2>2 DEF Inv
<1>2. CASE Tick
  <2>1. CASE mode = "up"
    BY <1>0, <1>2, <2>1, TickRounds DEF Inv
  <2>2. CASE mode # "up"
    BY <1>0, <1>2, <2>2, TickRounds DEF Inv
  <2>3. QED
    BY <2>1, <2>2
<1>3. CASE Boot
  <2>1. idle' = 0 /\ mode' = "up" /\ due'[Mailing] = DrainEvery
    BY <1>3 DEF Boot, Inv
  <2>2. QED
    BY <2>1
<1>4. CASE Gone
  BY <1>4 DEF Gone
<1>5. CASE Advance
  <2>1. UNCHANGED <<mode, busy>> /\ idle' = IF Waiting THEN idle + 1 ELSE 0
    BY <1>5 DEF Advance
  <2>2. CASE mode = "up"
    <3>1. due'[Mailing] = due[Mailing] - 1 /\ due[Mailing] > 0
      BY <1>5, <2>2 DEF Advance
    <3>2. Waiting => ~busy[Mailing]
      BY DEF Waiting, RoundsOf, Inv, Single, Mailing
    <3>3. QED
      BY <1>0, <2>1, <2>2, <3>1, <3>2 DEF Inv
  <2>3. CASE mode # "up"
    BY <2>1, <2>3 DEF Waiting
  <2>4. QED
    BY <2>2, <2>3
<1>6. CASE Stop
  BY <1>6 DEF Stop, Inv
<1>7. CASE UNCHANGED <<due, busy, idle>> /\ (UNCHANGED mode \/ mode' = "closed")
  BY <1>7 DEF Inv
<1>8. QED
  BY <1>1, <1>2, <1>3, <1>4, <1>5, <1>6, <1>7 DEF Next, ClosePool, Elsewhere, Arrive, Commit, scheduler

----------------------------------------------------------------------------
(* Types *)

LEMMA MailTypes ==
    ASSUME TypeOK, NEW R \in SUBSET rounds
    PROVE  /\ Unlocked(R) \in [Locked -> SUBSET {"here", "elsewhere"}]
           /\ \A to \in {"sent", "queued"} :
                Settles(R, to) => mail' \in [Requests -> {"none", "queued", "claimed", "sent"}]
<1>1. Unlocked(R) \in [Locked -> SUBSET {"here", "elsewhere"}]
  BY DEF Unlocked, TypeOK
<1>2. \A to \in {"sent", "queued"} :
        Settles(R, to) => mail' \in [Requests -> {"none", "queued", "claimed", "sent"}]
  BY DEF Settles, TypeOK
<1>3. QED
  BY <1>1, <1>2

LEMMA NextTypes == ASSUME Inv, Next PROVE TypeOK'
<1> DEFINE Rest == /\ time' \in 0..(Day - 1) /\ mode' \in {"up", "stopping", "closed", "down"}
                   /\ due' \in [Jobs -> Nat]
                   /\ lock' \in [Locked -> SUBSET {"here", "elsewhere"}] /\ immediate' \in BOOLEAN
                   /\ request' \in [Requests -> {"new", "open", "done", "lost"}]
                   /\ mail' \in [Requests -> {"none", "queued", "claimed", "sent"}]
                   /\ idle' \in Nat /\ trouble' \in Nat
<1>0. TypeOK
  BY DEF Inv
<1>1. ASSUME NEW r \in rounds, Work(r) PROVE Rest
  <2>1. {r} \in SUBSET rounds
    OBVIOUS
  <2>2. CASE TryLock(r)
    <3>1. lock' \in [Locked -> SUBSET {"here", "elsewhere"}]
      <4>1. CASE lock' = lock
        BY <1>0, <4>1 DEF TypeOK
      <4>2. CASE lock' = [lock EXCEPT ![r.job] = lock[r.job] \cup {"here"}] /\ r.job \in Locked
        BY <1>0, <4>2 DEF TypeOK
      <4>3. QED
        BY <2>2, <4>1, <4>2 DEF TryLock
    <3>2. QED
      BY <1>0, <2>2, <3>1 DEF TryLock, TypeOK
  <2>3. CASE ClaimMail(r)
    BY <1>0, <2>3 DEF ClaimMail, TypeOK
  <2>4. CASE Complete(r)
    BY <1>0, <2>1, <2>4, MailTypes DEF Complete, TypeOK
  <2>5. CASE Fail(r)
    <3>1. lock' \in [Locked -> SUBSET {"here", "elsewhere"}]
          /\ mail' \in [Requests -> {"none", "queued", "claimed", "sent"}]
      BY <1>0, <2>1, <2>5, MailTypes DEF Fail
    <3>2. trouble' \in Nat
      BY <1>0, <2>5 DEF Fail, TypeOK
    <3>3. UNCHANGED <<time, mode, due, immediate, request, idle>>
      BY <2>5 DEF Fail
    <3>4. QED
      BY <1>0, <3>1, <3>2, <3>3 DEF TypeOK
  <2>6. QED
    BY <1>1, <2>2, <2>3, <2>4, <2>5 DEF Work
<1>2. ASSUME Tick PROVE Rest
  <2>1. idle' \in Nat
    BY <1>0, <1>2, TickRounds DEF TypeOK
  <2>2. due' \in [Jobs -> Nat]
    BY <1>0, <1>2, Intervals DEF Tick, Kicked, Fire, TypeOK
  <2>3. QED
    BY <1>0, <1>2, <2>1, <2>2 DEF Tick, Kicked, Fire, TypeOK
<1>3. ASSUME Boot PROVE Rest
  <2>1. [j \in Jobs |-> Interval(j)] \in [Jobs -> Nat]
    BY <1>0, Intervals
  <2>2. QED
    BY <1>0, <1>3, <2>1 DEF Boot, TypeOK
<1>4. ASSUME Stop PROVE Rest
  BY <1>0, <1>4 DEF Stop, TypeOK
<1>5. ASSUME ClosePool PROVE Rest
  BY <1>0, <1>5 DEF ClosePool, scheduler, TypeOK
<1>6. ASSUME Gone PROVE Rest
  <2>1. lock' \in [Locked -> SUBSET {"here", "elsewhere"}]
        /\ mail' \in [Requests -> {"none", "queued", "claimed", "sent"}]
    BY <1>0, <1>6, MailTypes DEF Gone
  <2>2. request' \in [Requests -> {"new", "open", "done", "lost"}] /\ due' \in [Jobs -> Nat]
    BY <1>0, <1>6 DEF Gone, TypeOK
  <2>3. trouble' \in Nat
    BY <1>0, <1>6 DEF Gone, TypeOK
  <2>4. mode' = "down" /\ immediate' = FALSE /\ idle' = 0 /\ time' = time
    BY <1>6 DEF Gone
  <2>5. QED
    BY <1>0, <2>1, <2>2, <2>3, <2>4 DEF TypeOK
<1>7. ASSUME Advance PROVE Rest
  <2>1. time' \in 0..(Day - 1)
    BY <1>0, <1>7, ProcessAssumption DEF Advance, TypeOK
  <2>2. due' \in [Jobs -> Nat]
    <3>1. ASSUME NEW j \in Jobs PROVE (IF mode = "up" THEN due[j] - 1 ELSE due[j]) \in Nat
      BY <1>0, <1>7 DEF Advance, TypeOK
    <3>2. QED
      BY <1>7, <3>1 DEF Advance
  <2>3. QED
    BY <1>0, <1>7, <2>1, <2>2 DEF Advance, TypeOK
<1>8. ASSUME NEW j \in Rivalry, Elsewhere(j) PROVE Rest
  <2>1. j \in Locked
    BY ProcessAssumption
  <2>2. QED
    BY <1>0, <1>8, <2>1 DEF Elsewhere, scheduler, TypeOK
<1>9. ASSUME NEW q \in Requests, Arrive(q) \/ Commit(q) PROVE Rest
  BY <1>0, <1>9 DEF Arrive, Commit, scheduler, TypeOK
<1>10. Rest
  BY <1>1, <1>2, <1>3, <1>4, <1>5, <1>6, <1>7, <1>8, <1>9 DEF Next
<1>11. Rounds'
  BY NextRounds
<1>12. QED
  BY <1>10, <1>11 DEF TypeOK, Rounds

----------------------------------------------------------------------------
LEMMA NextInv == Inv /\ [Next]_vars => Inv'
<1> SUFFICES ASSUME Inv, [Next]_vars PROVE Inv'
  OBVIOUS
<1>1. CASE Next
  BY <1>1, NextTypes, NextRounds, NextWaited, NextCounted DEF Inv, Rounds
<1>2. CASE UNCHANGED vars
  <2>1. Rounds'
    BY <1>2, InvRounds, RoundsStay DEF vars, scheduler
  <2>2. (Waited /\ PoolOutlivesWork /\ Counted)'
    BY <1>2 DEF vars, scheduler, Inv, Waited, PoolOutlivesWork, Serving, Counted
  <2>3. TypeOK'
    BY <1>2 DEF vars, scheduler, Inv, TypeOK
  <2>4. QED
    BY <2>1, <2>2, <2>3 DEF Inv, Rounds
<1>3. QED
  BY <1>1, <1>2

\* Timers, flags, rounds, locks and requests keep their shape, whatever fails.
THEOREM TypeCorrect == Spec => []TypeOK
<1>1. Spec => []Inv
  BY InitInv, NextInv, PTL DEF Spec
<1>2. Inv => TypeOK
  BY DEF Inv
<1>3. QED
  BY <1>1, <1>2, PTL

\* When the pool ends no round runs and no request is open (server.ts, Scheduler.stop).
THEOREM PoolLast == Spec => []PoolOutlivesWork
<1>1. Spec => []Inv
  BY InitInv, NextInv, PTL DEF Spec
<1>2. Inv => PoolOutlivesWork
  BY DEF Inv
<1>3. QED
  BY <1>1, <1>2, PTL

\* A queued mail finds an idle process without a round for one interval at most.
THEOREM LoopSuffices == Spec => []LoopBackstopsKick
<1>1. Spec => []Inv
  BY InitInv, NextInv, PTL DEF Spec
<1>2. Inv => LoopBackstopsKick
  BY DEF Inv, Counted, LoopBackstopsKick
<1>3. QED
  BY <1>1, <1>2, PTL

\* A sweep that has run for longer than the readiness limit has made the process not ready.
THEOREM WedgeShows == Spec => []WedgedIsNotReady
<1>1. Spec => []Inv
  BY InitInv, NextInv, PTL DEF Spec
<1>2. Inv => WedgedIsNotReady
  BY Names DEF Inv, TypeOK, IsRound, Aged, Sweeping, WedgedIsNotReady, RoundsOf, Ready
<1>3. QED
  BY <1>1, <1>2, PTL
=============================================================================
