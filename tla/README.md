# ReserveFlow: TLA+ models and proofs

ReserveFlow is a meeting-room booking system: a Hono API over PostgreSQL (`apps/api`), two single-page
applications that are its clients (`apps/web` for employees, `apps/admin` for administrators), and
jobs that run in the API's process. Its guarantees rest on what concurrent transactions do to a handful
of tables, and on what two browsers make of answers that are late, lost or out of date; these modules
are about both. Paths below are relative to `src/apps/api/src` unless they say otherwise.

1. Inventory, 2. Plan, 3. Modules, 4. Runs, 5. Fairness, 6. Proofs, 7. What the code does otherwise,
8. What is not modelled

## 1. Inventory

| Component | State | Operations | Talks to | Correct when | Module |
|---|---|---|---|---|---|
| Booking transactions (`modules/bookings`, `modules/checkin`, `lib/tx.ts`) | `bookings`, `booking_attendees`; advisory locks per room and idempotency key; row locks | create, reschedule, replace guest list, check-in by id and by QR code, demo shift, cancel | locks users, reads rooms and settings, writes outbox and audit in the same transaction | slots never overlap and keep the gap, edits are not lost, one key makes one booking, terminal states are final | `BookingTx` |
| Booking sweep (`jobs/sweep.ts`) | the booking rows | release no-shows, complete, remind | row locks against the API, outbox, audit | every booking ends, each step once, boundaries agree with check-in | `BookingTx` |
| User administration (`modules/users`) | `users`, setup tokens, sessions | create, update, import, invite, reset, deactivate (with cascade), reactivate, delete | cancels bookings under room locks | a disabled user keeps nothing that is still to start, one administrator stays, an import meets no unique index it did not see | `Identity`, `BookingTx` |
| Authentication (`auth/`) | sessions, failed attempts, tokens | sign-in, set-password, the check of the actor | users | a link sets one password, a lockout counts | `Identity` |
| Room administration (`modules/rooms`) | `rooms`, features, photos | create, switch on and off, features, photos | room lock | no booking enters a room that is off | `BookingTx`, `Console` |
| Settings (`lib/settings.ts`, `modules/settings`) | three tables, a 60 s process cache | read, update with ETag, hours, holidays | every validation | a save is over the document it matched, a stale cache heals | `Settings` |
| Window rules (`lib/window.ts`, `modules/availability`) | none | validateWindow, availability, alternatives | settings, hours, holidays | what is offered can be booked; grid and midnight are right | `Window` |
| Outbox (`jobs/drain.ts`, `modules/notifications`) | `notifications` with lease, attempts, status | claim, send, settle, dead-letter, skip, retry button | mail relay, setup tokens | bounded duplicates, nothing stuck, stale mail stops | `Outbox` |
| Job runner and process (`jobs/index.ts`, `server.ts`, `/readyz`) | busy flags, timers, advisory round lock, the pool | tick, kick, stop, boot | sweep, drain, maintenance | one round at a time, a failed one is repeated, stop waits, a wedged process says so | `Process` |
| Rate limiter (`lib/rate-limit.ts`) | log of hits for each key | check | routes | never more than the limit in a window; Retry-After is long enough | `RateLimiter` |
| Reports (`modules/reports`) | none | utilization, outcomes, heatmap | bookings, hours, rooms | the figures count minutes and agree with each other | `Reports` |
| Employee application (`apps/web`) | query cache, forms, idempotency key | book, edit, move, cancel, check in; pick a slot; quick search | API over a network | a retry is never held against its user; a change replaces what was shown | `Pages`, `Picker` |
| Administrators' application (`apps/admin`) | query cache, forms, dialogs | settings, rooms, users, import, deactivation | API over a network | "saved" means saved; nothing a colleague did is undone; no dead buttons | `Settings`, `Console`, `Accounts` |
| Schema (`apps/api/drizzle`, `db/schema`) | constraints | | | exclusion, dedupe, idempotency and unique constraints | in the above |
| Audit and department reads, serialisation, mail templates, calendar files, configuration, seeds, API description | none of their own | | | | |

Hard in this code: a booking writer reads some things before its transaction (the head of a PATCH or a
cancellation, the check-in method), some before it waits for a lock, and some after; READ COMMITTED
re-reads a row after a lock wait but not a subquery; the configured gap is known to no constraint; a
transaction is run again after a deadlock; the sweep takes row locks and no room lock; the deactivation
cascade takes user locks first and rooms second. A mail is sent between two transactions. A settings
cache is filled by a read that an invalidation may overtake. A page compares what is typed with
what it fetched at some earlier time, sends requests whose answers may never come, and computes for itself
what the server will decide. `PROJECT.json` lists each hazard at its line, with the property that
would catch it.

## 2. Plan

Done, in this order:

1. `BookingTx`, `RoomCalendar` and `BookingCalendar` (refinement), `BookingGap`, `BookingTxProofs`;
   `BookingRules`, `BookingRulesProofs`.
2. `Outbox`, `OutboxProofs`.
3. `Identity`, `IdentityProofs`: one active administrator stays, links work once, files apply and settle.
4. `Process`, `ProcessProofs`; `Settings` with the cache and the page.
5. `Window`, `Reports`, `Picker`, `PickerProofs`.
6. `RateLimiter`.
7. The clients: `Pages` (with `RateLimiter` in `Callers`, with `CallersProofs`); `Console` and `Accounts` (with `Settings` in
   `AdminApp`, with `AdminAppProofs`).

Left, most important first:

1. `LockOrder`: the room locks one at a time, in the order the code takes them, with user, key and row
   locks; deadlock freedom as an invariant on the wait graph. `BookingTx` takes a set of rooms in one
   step and so cannot show it.
2. The clients that are left: the administrators' booking page, the QR landing page, the list of own
   bookings.
3. The read side of visibility: who sees which field of a booking (`modules/bookings/serialize.ts`).

## 3. Modules

| Module | Contents |
|---|---|
| `BookingTx` | the booking transactions, the sweep and the clock; the properties |
| `RoomCalendar` | abstract: entries that are claimed, moved and given up at once, always apart |
| `BookingCalendar` | the refinement mapping from `BookingTx` to `RoomCalendar` |
| `BookingGap` | the inductive invariant behind the gap |
| `BookingTxProofs` | type correctness and what a step makes of the requests; the gap, no overlap, finality and the refinement |
| `BookingRules`, `BookingRulesProofs` | the inductive invariants behind the other rules of a booking; keys, edits, owners, rooms, history, mails and `can` |
| `Outbox`, `OutboxProofs` | the mail queue, the processes that drain it and what fills it; what it keeps for any number of each |
| `Identity`, `IdentityProofs` | users, setup links, sign-in and import; types, that one administrator remains, that a link works once and that files apply and settle |
| `Process`, `ProcessProofs` | one API process: jobs, kicks, locks, readiness, shutdown, restart; its safety for all intervals |
| `Settings` | the settings tables, the cache and the settings page |
| `Console` | room form, import dialog, deactivation dialog |
| `Accounts` | users page with its drawer and dialogs |
| `AdminApp`, `AdminAppProofs` | `Settings`, `Accounts` and `Console` as one application; its five properties for any number of pages, files, fields and requests |
| `RateLimiter` | the sliding log of a limiter |
| `Pages` | one tab of the employee application over a network that loses things |
| `Callers`, `CallersProofs` | `Pages` and `RateLimiter`: what a client meets; retries, versions and slots for any network, the limit and Retry-After for every limit and window |
| `Window` | operators: `validateWindow`, availability, alternatives, the preview of changed hours |
| `Reports` | operators: the three report queries and the page's sums |
| `Picker`, `PickerProofs` | the pages that offer slots, over `Window` and `Reports`; what they offer, availability, opening hours and reports for all settings and calendars |
| `MC...` | small instances for TLC |

Definitions headed "Deviation" are plausible bugs next to the definition they deviate from; no
specification uses them. Each run's properties were shown to fail when the definition is replaced
by its deviation, so none of them holds by the shape of the model.

How the modules divide the system: a handler whose interleaving matters is modelled step by step in one
module (`BookingTx`, `Identity`, `Settings`, `Outbox`) and is one step of the server in the modules about its
clients (`Pages`, `Console`, `Accounts`). `BookingTx` commits mails that `Outbox` delivers; a round that is one
action in `Process` is the sweep of `BookingTx`, the drain of `Outbox` or the nightly clean-up of `Identity`.

### BookingTx

| Variable | Code |
|---|---|
| `now` | `clock_timestamp()` of the database, in slots of the booking grid |
| `booking` | rows of `bookings` with their attendees; status `NONE` is an id not used yet |
| `disabledAt` | `users.disabled_at`, which the schema keeps in step with `users.status` |
| `roomOn` | `rooms.active` |
| `outbox` | rows of `notifications` as enqueued, unique by booking, template, recipient and dedupe key |
| `trail` | the booking's audit actions, oldest first |
| `req` | per request: which handler, where it is in it, what it has read, which locks it holds |
| `sweep` | whether a round runs, and its `now()` |

A request goes `Submit...` (the route: what it reads and refuses before a transaction), then one step
per statement group whose interleaving matters: `Validate`, `LockKey`, `ReadHead`, `LockUsers`,
`LockRooms`, `Decide...`, `Write...`. The names of the program counters are these groups. A write is
one action with the constraint checks, the audit row, the mails and the release of every lock at
commit; what a transaction has not committed nobody sees, so nothing is lost by writing at the commit.
`Abort` is any failed statement or lost connection; after a deadlock or serialization failure
`withTx` runs the function once more, which is its second disjunct. Advisory locks, `FOR SHARE` and
`FOR UPDATE` are guards (`KeyFree`, `RoomsFree`, `ShareFree`, `ExclFree`, `RowFree`): a step that
would wait is not enabled. An UPDATE that waits for a row evaluates its conditions on the row it gets,
which is how `WriteCheckin` reads them; the subquery of `checkInByRoom` is not evaluated again, so
`SelectQr` picks the row and `WriteQr` updates it whatever it has become. `Can` is the `can` object of
`GET /bookings/:id` (`modules/bookings/routes.ts:464`).

Abstracted: titles, descriptions and other payload (an edit that moves nothing is a PATCH with no
`asked` field), the visibility filter, HTTP wording (one code `refused` for the refusals no property
tells apart), opening hours, grid, holidays and maximum lengths (windows come from `Spans`, all of
which pass them; `Window` has the rules), and ids (a fresh uuid is the next unused id, `FreeId`). A mail is
its template, recipient, dedupe key and window. Attendees are users: external addresses behave like users
that never sign in. The rooms of a transaction are locked in one step.

### Outbox

| Variable | Code |
|---|---|
| `row` | rows of `notifications`; `due` counts down to `next_attempt_at` in units of the first back-off, 30 seconds; `start` is `payload.start_at` |
| `hand` | what `sendClaimed` of a process is doing: sending, or holding the relay's answer; `lease` counts down the lease it took |
| `booking` | the status and start the claim joins in |
| `delivered` | history: how often the relay took the mail |
| `spent` | history: attempts that the retry button reset |

`drainOne` claims in one transaction under the round's advisory lock, so `Skip`, `DeadLetter` and
`Lease` are one action each, on the first row that is due (`Head`). The send runs after that commit
with nothing locked: `Accept` is the relay taking the mail, `Reject` its refusal with the FAILED
mark, `MarkSent` the SENT mark, `FailSend` the catch block, which is reached from a send that threw,
an answer that was lost and a mark that failed, so also after a delivery. `Abandon` is a process that
dies, or a catch block whose own statement fails. All settling statements are by id and look at no
status, and a send may outlive its lease (SMTP timeouts are 10 seconds a phase, the first lease 30
in all), so a row can be settled twice, skipped in between or retried in between. What `BookingTx`
has in detail is coarse here: a booking moves, is checked in or ends, and queues its mail in the
same step. An administrator's reissue supersedes the account mail that waits (`Superseding`). `Leftovers` are
rows whose template key no renderer knows any more. All mails of the booking go to one recipient;
the copies of others are rows like any other.

### Identity

| Variable | Code |
|---|---|
| `user` | `users` with the credential account: status, role, e-mail, failed attempts, lock; a user is named by the employee code |
| `token` | `password_setup_tokens`, each with the state of the notification that carries it |
| `session`, `history` | who has a session row; who owns bookings or audit rows and so cannot be deleted |
| `gate`, `row`, `claim` | the advisory lock `users:last-admin`, the row locks on users, the token rows claimed by a set-password that has not committed |
| `req` | per request: handler, place in it, the import's plan, whether it was run again |

An administrative request is authenticated (`Submit`), takes the gate (`TakeGate`), locks its target
(`LockTarget`), decides (`Check`) and commits (`Create`, `Patch`, `Deactivate`, `Reactivate`, `Reissue`, `Delete`).
An import classifies its rows by what it reads and then writes them (`Classify`, `Apply`). `Claim` and `SetPassword`
take a token row and then the user row, the opposite order of a reissue: `Deadlock` is the detector's choice
and the retry of `lib/tx.ts`. Sign-in reads, verifies, opens a session or counts a miss in separate
statements (`Read`, `Restart`, `Verify`, `OpenSession`, `Enter`, `Miss`), with no transaction around them. `Maintain` is
the nightly clean-up. Names, departments and the hash of a password are left out; the cascade on bookings is
`BookingTx`'s.

### Process

`mode`, `due`, `busy`, `rounds`, `settle`, `lock`, `lastOk` and `immediate` are the server, the timers, the runner's
flags, the rounds in flight, the promises `stop()` waits for, the advisory lock of each job, `lastSuccessAt` and
the pending `setImmediate` of a kick. `Fire` and `Kicked` run a job unless it is busy; a round tries its lock
(`TryLock`; one that does not get it succeeds), works, and ends with `Complete` or `Fail`; it may also
never end. `Stop`, `ClosePool` and `Gone` are the shutdown of `server.ts`, `Gone` also a crash; `Boot` starts
again. `Elsewhere` is another instance that takes and lets go of a job's lock. The clock is kept as ages and
countdowns. `mail` is the notification a request commits.

### Settings, Console, Accounts, AdminApp

| Variable | Code |
|---|---|
| `doc`, `lock` | the rows of `settings`, `business_hours` and `holidays`; `pg_advisory_xact_lock('settings')` |
| `form`, `fetch`, `save` | the settings page: fetched document, draft and banner; the `GET` under way, one SELECT a step; `useSaveSettings`, one PUT after the other |
| `cache`, `loads` | the cache of `lib/settings.ts`, and `loadSettings` calls between their SELECT and `cache.set` |
| `room`, `disabled`, `line`, `back`, `screen` | `Console`: the row and features of one room; whether the user to be deactivated is disabled; requests and answers on their way; the open screen |
| `query` | `Console`: what the tab's query of that room has cached (`roomQuery`, `apps/admin/src/api/queries.ts`) |
| `kept`, `ran` | `Console`, histories: what either half of the room has held since the screen was opened or Save was pressed; the files imported and the files whose dry run was shown |
| `subject`, `account`, `colleagues`, `listed`, `facets`, `detail`, `sheet`, `dialog`, `asked`, `told` | `Accounts`: one users row and the count of other administrators; what three queries of the page cached; drawer and dialog; requests and answers on their way |

A PUT is `TakeLock`, `Before` (read the document, compare the ETag), `Commit`, `Invalidate`; `Miss` and `Fill` are
a load that an invalidation may overtake. A section is one value. A PUT's answer is lost before the
server sees the request or after it is done with it. The page does not press Save while a remount is
pending.
`Console` is a form that makes two requests of one press, and two dialogs. The query of the room outlives the screens and
is stale for five minutes (`staleTime`), and the route's loader reads only what is not cached: so `OpenRoom` mounts the
form on `query`, however old; `ReadRoom` is a GET and its answer in one step (an answer that a colleague's change
overtakes on its way is a read that came earlier); and the row a press compares its features with is the one cached at the press (`FeaturesChanged`). A mounted form keeps
its fields when a new row arrives. The reads of future bookings behind the form and the deactivation dialog are advisory: whether
one has come decides if a question may be answered (`Impact`), and what it says, which decides if closing a room asks at all, is
left open (`Toggle`). `Accounts` keeps the
three caches apart, because the drawer outlives the list it was opened from, and has the page's own copy of
the guards (`apps/admin/src/lib/users.ts`) beside the service's. The tab's administrator is not demoted or
disabled meanwhile (such an account sees the sign-in page), and the hourly budget of links is `RateLimiter`'s.
Settings, users page and console share no row and no browser state, so a behaviour of `AdminApp` is one of
the three, and the variables of the others stay as they begin.

### RateLimiter, Pages, Callers

`RateLimiter` has the map of the limiter (`hits`), the lazy sweep of a crowded map, and two histories: every
call served since the process started, and the time the last refused caller was told. `Restart` empties the map.

`Pages` has `rows` and `signedIn` on the server, `wire` and `replies` for the network, and `page`: where the tab is, the
form's idempotency key and the attempt it stands for, the cached booking with its version, the open
panel, the requests it waits for. `Handle` is a request at the server (one step, as `BookingTx` implements the
calendar), `Receive` an answer at the page, `Break` a connection that fails before or after the server has
seen the request. Time is not modelled, so a request may also be refused for a reason the module does not know.
Everybody else books, moves, edits, cancels, checks in, ends and releases bookings, this tab's included (`SomebodyBooks`,
`SomebodyEdits`, `StatusMoves`), and may revoke the session. A row keeps the slot it was created for beside the slot it has (`made`, a
history): a replayed create returns its booking wherever somebody has moved it meanwhile. The reopening of section 7
is not among the status moves.
`Callers` has a tab or a limiter in each behaviour: a tab's request may be answered 429 at any time, and the
limiter does not look at what it turns away.

### Window, Reports, Picker

`Window` is operators over instants: `Checks` has the checks of `validateWindow` in their order, `Blocking` the probe,
`Reasons` and `BusyUntil` the answer of `GET /availability`, `Alternatives` the rooms of a refusal, `Stranded` the
preview of `apps/admin/src/lib/settings-impact.ts`. `Reports` is the three queries over a set of bookings at one
instant, and the sums of the page. `Picker` is a page (room page, calendar, reschedule panel) with the calendar it
last fetched and the time of its last render, and the handlers of `SlotGrid` and the selects; the quick
search's menus are operators on the same state. A unit of time is one of the model; the timezone
is an offset that is not a multiple of a day.

## 4. Runs

| Run (module) | Properties | Shows |
|---|---|---|
| `races` (`MCBookingTx`) | `BufferKept` `DisabledOwnerHoldsNothing` `OneBookingPerKey` `NoLostEdit` `ImplementsCalendar` `NoErrorAfterCommit` `InactiveRoomNeverEntered` | two requests of any kind, one of them perhaps the cascade or the room switch, that fail and are retried, over two rooms with a gap of one |
| `lifecycle` (`MCBookingTx`) | `LegalHistory` `CalendarsConverge` `CanIsHonest` | edits, guests, cancellations, check-ins and the sweep on one booking, with failing transactions |
| `liveness` (`MCBookingTx`) | `EventuallyOver` `EveryRequestAnswered` | fair scheduling of check-ins, the cascade and the sweep, with transactions and rounds that fail |
| `outbox_attempts` (`MCOutbox`) | `CopiesWithinAttempts` `LeaseHeldByOne` `NewestLinkGoesOut` | two workers over account mail with reissues, a crash, late settles and a retry |
| `outbox_drains` (`MCOutbox`) | `StaleMailStops` `QueueDrains` | one process, fair: moves, reminders, check-in, cancellation, a left-over row, a crash, a retry |
| `identity` (`MCIdentity`) | `OneAdminStays` `LinkWorksOnce` `ImportNeverCollides` `ImportSettles` | administrators, two import files and the owners of links at once |
| `process` (`MCProcess`) | `PoolOutlivesWork` `LoopBackstopsKick` `WedgedIsNotReady` `CommittedMailLeaves` | kicks, timers, another instance's lock, rounds that hang or fail, shutdown and restart |
| `admin` (`MCAdminApp`) | `SavedWasStored` `StaleNoLongerThan` `OverTheMatchedDocument` `OthersFieldsSurvive` `OfferedIsServed` | the settings and users pages against the API and each other; the room form on a cached row, over a lossy network and beside a colleague |
| `callers` (`MCCallers`) | `NeverMoreThanLimit` `RetryIsServed` `NothingDoneIsRefused` `CreatedIsThisSlot` `ChangesWhatWasShown` `PageCatchesUp` | the employee's tab over a lossy network, and the limiter |
| `picker` (`MCPicker`) | `OfferedIsAccepted` `MinuteByMinute` `AvailabilityHonest` `ReportsCountMinutes` | what pages, availability and reports say of a window, against what the server decides and what minutes mean |
| `reopen` (`MCBookingTx`) | `TerminalIsFinal` | violated, section 7 |
| `unseen_import` (`MCConsole`) | `RealRunWasPreviewed` | violated, section 7 |

The bounds are named constants, all given in the `.cfg` files.

**Bookings.** Two requests (one in `reopen`, where it only meets the sweep), three ids and two rooms in `races`, one of
each in the other runs, two users of whom one is an administrator, a clock of 0 to 2 or 3. Why these
are enough: every property is about at most two bookings of at most two rooms (a move), and every
race in the code is between two transactions, or a transaction and the sweep or the clock. A third
transaction adds no new kind of wait, because locks are exclusive and each writer meets the others
one at a time. The clock reaches past the end of a window wherever expiry, release or completion
matters. What the instances do not settle, larger numbers of everything, the theorems do for the
properties they cover. Requests are interchangeable (nothing is chosen among them), so the safety runs use
symmetry on them; the liveness run does not. `Over` is the one place the booking system may
stop: every request answered, clock at its bound.

**Queue.** Two rows and two workers in `outbox_attempts`, three rows (one of them a left-over) and
one worker in `outbox_drains`, an attempt cap of 2 and a lease cap of 2 (8 and 64 in the code), one
crash, one use of the retry button. A cap of 2 has a first attempt, a last one and, after a crash or a
late answer, one beyond; a lease cap of 2 has a back-off below the cap, one at it and one cut off by it.
Three rows hold a confirmation or a move, a cancellation that makes it stale, and a row that no renderer
knows. `outbox_drains` has one worker, which is what its fairness is about: the queue drains although a
single process does it. `StaleMailStops` speaks of the begin of a send and is proved for any number of workers,
since claims exclude each other; with two, a send that has begun may end after the other's. `Quiet` is the
one place the queue may stop: nothing waits and no worker is busy.

**Accounts.** Two administrators, one with a lock that has run out, an invited account with a link, a code
not yet in use; two requests of any kind and then one afterthought (a sign-in or a reactivation), which is enough
for two administrators who act on each other, an import beside a create, a reset beside a link. One file demotes
both administrators and promotes the invited account; the other creates a code and repeats its address on the
next line. Seven tokens never run out. Two misses lock an account (5 in the code). The menu is finite, so
the run may stop.

**Process.** One request, every interval one unit, days of two, one round failure, shutdown or crash. A
restart after trouble is followed by an undisturbed process; the ages saturate just past the readiness limit.

**Administrators.** Two settings pages, one load, two presses of Save, two edits and a refetch, a tick of half
the cache's minute; holiday years are left out (they are sections like the hours). In the console two values of a field, one feature, one file, two requests of
the tab and one act of somebody else: a press with its PATCH and PUT, and a second press or a change that the tab has not
read. States are told apart by the part that is open (`OpenPart`), because the other parts do not move. `unseen_import` needs two files. For the users page one press and one act, where a second press finds the
state a first may have left behind because `AccountsInit` starts from every content of the account. Users
may stop, so deadlock is checked neither in these runs nor in `callers`.

**Callers.** Two slots, two titles, three presses (two of them may change a booking), one act of somebody
else: a lost answer, its retry, and one change in between. The limiter: two keys in one map, two calls in a
window of three units, a second of two, so that a Retry-After is rounded and two windows overlap.

**Picker.** Two rooms, days of 12 units with an offset of 4, a week of two days, three sets of rules (a step of one
and a maximum; a step that divides neither the hours nor every meeting, with a holiday; a gap and a closed day), four
meetings of other people, a clock of two instants. Windows up to two days long cross every
boundary there is; reports are asked for at four times, for rooms created before, within and after
the first day.

## 5. Fairness

`BookingTx`: weak fairness of the clock, of starting a sweep round and of
each request's next step after it has been submitted; strong fairness of a round's work, since a round may fail and the
next begins anew (`SweepLost`, `SweepBegin`): not each of infinitely many rounds fails. The code justifies it: Node's event loop runs every
handler that can continue, PostgreSQL grants an advisory or row lock to a waiter once it is free, and
the scheduler starts the round again on a timer. Nothing makes a client submit a request, and no
fairness is asked of `Submit`, `Abort` or `SweepLost`. A transaction that holds a lock is never
waiting for the network of a client, so weak fairness is enough for the locks in the liveness run,
in which requests are finitely many; starvation by an endless stream of competitors is not excluded
by the code and not claimed. The run has one room, and a transaction takes its rooms in one step: that the order of
the rooms' locks keeps two transactions from waiting for each other is not what `EveryRequestAnswered` shows.

`Outbox`: weak fairness of time and of each worker's work. The round starts every
10 seconds and claims until nothing is due; a send that was begun is answered, refused or timed out.
Nothing is asked of the writers that fill the queue, of the retry button or of crashes, which are finitely many.

`Process`: weak fairness of time, of the event loop with its timers (`Tick`, `Boot`, `ClosePool`), of the drain's rounds,
of a commit under way, and of the rounds a shutdown waits for. A round of the sweep or of the nightly job may hang
for ever otherwise. `Boot` after an exit is the supervisor's restart.

`Pages`: weak fairness of the page's poll alone, a timer of the browser that runs while the booking page is open. It is an
idealisation: that some GET of the poll succeeds and that the tab is visible, for a hidden one does not poll.

## 6. Proofs

Checked by TLAPS for every value of the constants. The assumptions are named in the modules that declare the constants;
TLC evaluates them in every run.

**Bookings.** `NamesAssumption` (there are users, rooms and ids; administrators are users), `InputsAssumption`
(windows start before they end), `SettingsAssumption` (settings are naturals, as the settings schema has
them) and `SeedAssumption` (rows that are there at the start have distinct ids and keep the gap).

| Theorem | Statement |
|---|---|
| `BookingTxProofs!TypeCorrect` | `Spec => []TypeOK` |
| `GapKept` | `Spec => []BufferKept` |
| `NeverOverlap` | `Spec => []NoOverlap` |
| `TerminalFinal` | `"qr" \notin Ops` implies `Spec => TerminalIsFinal` |
| `CalendarImplemented` | `"qr" \notin Ops` implies `Spec => ImplementsCalendar` |
| `RulesKept` | `Spec => [](TypeOK /\ RulesInvariant)` |
| `KeyNamesOne` | `Spec => []OneBookingPerKey` |
| `NoErrorOnceCommitted` | `Spec => NoErrorAfterCommit` |
| `EditsKept` | `Spec => NoLostEdit` |
| `PagesAreHonest` | `Spec => CanIsHonest` |
| `HistoryLegal` | `"qr" \notin Ops` implies `Spec => []LegalHistory` |
| `DisabledHoldNothing` | `"qr" \notin Ops` implies `Spec => []DisabledOwnerHoldsNothing` |
| `RoomsEnteredOpen` | `"qr" \notin Ops` implies `Spec => InactiveRoomNeverEntered` |
| `GuestsAreTold` | `"qr", "demo" \notin Ops` implies `Spec => []GuestsConverge` |
| `CalendarsAreTold` | `"qr", "demo" \notin Ops` implies `Spec /\ []OwnersAreNoGuests => []CalendarsConverge` |

*The gap.* `BufferKept` is not inductive: a writer inserts because a probe some steps ago found the slot clear.
`GapInvariant` adds what makes the probe still true at the write. `Probed` says the target is clear
now, in a room whose lock the writer holds; `RoomLocks` that rooms are held by one request each;
`RowLocks` and `HeadsFresh` that the row a move writes is the one whose head the lock set came from
as long as the version matches; `RowsExist` that a request is about a row that is there. Each step is
then one of three: a request changes only its own record (`OwnStep`); a write lets go of slots
(`Ebbs`), which makes no probe false; or it puts one row into its target (`Places`), which is in a room
nobody else has locked, so no other probe is about that room. The QR check-in probes nothing, and may bring
back a row that was over by the time it is written. What it was promised is a part of `Probed`: its row was
CONFIRMED when it was picked, so its slot was clear of all others, and the room's lock has kept it so. The same cases
(`EveryStep`) are stutter, `Vacate` and `Claim`/`Move` of the calendar, and give finality.
`NeverOverlap` rests on less: every write that gives a row a slot it did not hold consults the
exclusion constraint, whatever the locks did.

*The rules.* Two lemmas say what the model can do, once for all parts. `Walk`: a step leaves every request but one as
it is, and that one is sent, goes on, is run again or is answered. `Life`: a step leaves every booking as it is, or
it is born, moved, edited or shifted by a request that is about to write, or checked in, cancelled, released,
completed or reminded; each case carries the version, the audit row and the mails that come with it. On them
rests `RulesInvariant`, in the parts of module `BookingRules`:

- `KeysKept`: of those who hold a key's lock, nobody else's booking has the key. `OneBookingPerKey` is a part of it, and is
  not inductive without: the look-up and the insert are steps apart. A create that is refused before it took the lock
  looks the key up again, which is `NoErrorAfterCommit`.
- `PatchesAsk`, with `HeadsFresh` of the gap: the columns a PATCH writes for what it was not asked to
  change are those of the head it read, and the version it compares at the write says that head is still the row.
- `UserLocks`, `OwnersKnown`: a writer that will put a booking somewhere holds its owner's row and found the owner
  active; a deactivation holds the same row exclusively from before it looks for bookings. So between its
  look and its commit none is added.
- `RoomsOpen`: the room was read as active under the lock that a switch takes as well.
- `MethodsChosen`: only an administrator checks in by the administrator's window, which `can` knows.
- `MailsDated`, `GuestHeadsFresh`: no mail bears a version that is still to come. A booking's newest calendar mails are then
  those of the step that made its version, and `Converged` is kept by each kind of step in `Life`.
- `Histories` (without the QR check-in) counts audit rows: one for every version, the last in step with the status.

TLC checked these parts before they were proved, on the instances of `races` and `lifecycle`.

Two operations are left out of some statements, each because it really breaks them or because what it needs is not
known to hold. The QR check-in can reopen a row (section 7): this is no step of the calendar, no legal
history and no live booking a cancellation mail tells of. It can likewise bring back a booking the deactivation cascade has
cancelled, and it reads whether the room is on before it waits. The demo shift moves a booking and by design tells
nobody. `CalendarsAreTold` assumes that no owner is listed as a guest of the own booking. The pages never do that and the
run's instance cannot; the server would let it (section 7), and then the statement is false. `GuestsAreTold` is
what remains without the assumption.

**Queue.** `SizesAssumption` (the bounds and caps are naturals, the caps positive) and
`WorkersAssumption` (finitely many processes).

| Theorem | Statement |
|---|---|
| `OutboxTypes` | `Spec => []TypeOK` |
| `OutboxSent` | `Spec => []SentMeansDelivered` |
| `OutboxCopies` | `Spec => []CopiesWithinAttempts` |
| `OutboxLease` | `Spec => []LeaseHeldByOne` |
| `OutboxNewest` | `Spec => []NewestLinkGoesOut` |
| `OutboxStale` | `Spec => StaleMailStops` |

A few lemmas say once what each kind of step does to rows and hands (`InsertStep`, `SkipStep`,
`LeaseStep`, `LetGoStep`, `TickStep`); the invariants then need one strengthening each. `Accepted`: a
worker about to write SENT holds a delivered mail. `Unused`: an id not used yet is held by nobody and has
no attempts. `LeaseCovered`: a row is due no earlier than any lease on it ends, until a retry makes it due at once.
`InOrder`: ids are used in order. The count of sends under way in `CopiesWithinAttempts` is the
cardinality of the set of workers in them, which grows by one with a lease and shrinks by one with a
delivery. `Truthful`, behind `StaleMailStops`, relates the queue to the booking: no notice is of a start still to
come (starts are numbered in the order the booking had them), and a mail that says it is over is only queued with the cancellation.

**Accounts.** `NamesAssumption`, `InputsAssumption` (requests are of their type) and `SeedAssumption` (the first
tables are of their type and have an active administrator, a token that can still be used refers to a user
who is there, and a token never issued has no mail).

| Theorem | Statement |
|---|---|
| `IdentityProofs!TypeCorrect` | `Spec => []TypeOK` |
| `AdminRemains` | `Spec => []OneAdminStays` |
| `LinkOnce` | `Spec => []LinkWorksOnce` |
| `ImportClear` | `Spec => []ImportNeverCollides` |
| `FilesSettle` | `Spec => ImportSettles` |

`OneAdminStays` is not inductive: a request takes the last role away because of a count it made earlier. The
strengthening `Safe` says that the gate is held by whoever has passed it (`Turn`), that a request past its row lock
still holds the row (`Held`), and that what it decided is still true of the tables (`Decided`): another
administrator is active, or the target is none. Every other step takes nobody's role and leaves locked rows alone
(`Gentle`), so no decision is undone between the count and the commit. An import decides and commits in one step
over the tables it is about to write (`ApplySafe`).

*Links.* `Redeemer` says of a request with a link that its token has been issued to its target, and that from the
claim to the commit it holds the token and the token is open; answered OK, the token is spent. Every other step
keeps that (`Aged`): a re-issue and a deletion wait for the claim, expiry leaves a claimed token alone, a spent
token is never opened again, and an id is issued once. Two requests answered OK for one token would have found it
both open and spent. That the redeemer's account is still there needs `Linked` (a usable token's user exists)
and `Present` (so does the target of a writer past its row lock). `Create`, `Reissue` and `Apply` are guarded by a free
token id being left, which the code's uuids always give it and the arrivals' bound gives the model; without the guard
the model would reuse one.

*Files.* `Foreseen` says of a plan that waits to be applied what its classification found: no accepted row's address is
anybody else's, a code is there or not as its action says, a skipped row differs in nothing, and no two rows
are about one code. It stays so because only commits under the gate change who is there, an address or a role
(`OutsideKeeps`), and the file's own request holds the gate. That no two accepted rows of a file meet
(`AcceptedApart`) is an induction over its length, which the definition of `Accepted` leaves in a recursive function: it is
done by the least length for which the function would not exist (`LeastLength`, from the library's `WFMin`).
`FilesSettle` then compares each row of the plan with what `After` writes for it (`Settled`).

**Administrators' application.** `SettingsAssumption` (a valid first document; the cache lasts for some time, a read for
some) and `AccountsAssumption` (a first text; the role is none of the text fields).

| `AdminAppProofs!` | Statement |
|---|---|
| `AdminTypes` | `AdminSpec => [](TypeOK /\ ConsoleTypes /\ AccountTypes)` |
| `SavesOverMatched` | `AdminSpec => OverTheMatchedDocument` |
| `CacheHeals` | `AdminSpec => []StaleNoLongerThan` |
| `SavedIsStored` | `AdminSpec => []SavedWasStored` |
| `UntouchedSurvive` | `AdminSpec => OthersFieldsSurvive` |
| `OffersAreServed` | `AdminSpec => OfferedIsServed` |

A step of `AdminApp` is a step of one part that leaves the others alone (`OnePart`), so a behaviour of it is one of
each part and inherits what is proved of that part (`PartsOfAdmin`).

*Settings.* A PUT compares the ETag in one step and commits in another. `Locked` says who holds the advisory lock between
the two, `Matched` that what was compared is still so: only the holder changes the document. `Bounded` is about
the cache: a value read is no staler than the read is long, and an entry ages no faster than it went stale, so
it is bounded by both together when it expires. No step of `Invalidate` is needed for it: the
bound is what the code keeps even when a load overtakes an invalidation.

*Room form.* `SavedWasStored` is about what the screen says; `Stored` follows it back to the server. A PUT on its way vouches
for the fields of its draft, since it only goes once the PATCH is stored; the answer of a PATCH vouches for the fields,
that of a PUT for both halves. `Done` is what a press asked for and the room has held: the fields, and the features if a PUT was due.
It needs nothing of the cached row: how old that is decides whether a PUT is due, never whether what was sent is
stored. A half that was overwritten since still counts, because `kept` is what the room has
held since Save was pressed last; an answer on its way is to a request the screen still waits for, so none tells of an earlier press.

*Users page.* `Touched` compares the open drawer with the account as the cache holds it: where they differ the
administrator typed, as long as the account was not read again under it. `Fair` carries this to the requests on their
way, and with it what the page knew when it offered the button (`Fits`); `Own` says that one's own account stays an
administrator's wherever it is read. The service's last-administrator check then refuses nothing that the page offers: it
can only bite on the tab's own account, for which the page offers neither a role, a deactivation nor a deletion.

**Process.** `ProcessAssumption` (intervals are positive, the sweep's is within the readiness limit).

| Theorem | Statement |
|---|---|
| `ProcessProofs!TypeCorrect` | `Spec => []TypeOK` |
| `PoolLast` | `Spec => []PoolOutlivesWork` |
| `LoopSuffices` | `Spec => []LoopBackstopsKick` |
| `WedgeShows` | `Spec => []WedgedIsNotReady` |

`Single` says that a runner's flag is up exactly while the one round of its job runs, `Waited` that no round
starts after `stop()` has listed what it waits for, `Counted` that the drain's next tick is no further away than
what is left of its interval, `Aged` that no sweep succeeded since the one that runs now began. The last needs
`Single`: a second sweep beside a hanging one would make the process look ready.

**Employees' pages and the limiter.** `PagesAssumption` (a first title; the bounds are naturals) and `LimiterAssumption`.

| `CallersProofs!` | Statement |
|---|---|
| `AtMostLimit` | `CallersSpec => []NeverMoreThanLimit` (with the types) |
| `RetryAfterSuffices` | `CallersSpec => []RetryIsServed` |
| `ChangesOverSeen` | `CallersSpec => ChangesWhatWasShown` |
| `RetriesAreNotRefused` | `CallersSpec => NothingDoneIsRefused` |
| `FormsEndOnTheirSlot` | `CallersSpec => CreatedIsThisSlot` |

*Limiter.* It forgets. `Complete` says that what it has forgotten is older than the window that ends now, so the log
is all that a new call can share a window with; windows that ended earlier gain no calls. `Promise` says that
fewer than the limit of the stamps still in the log will count at the time a refused caller was told.

*Pages.* `Writes` and `Tells` say once what any answer of the server does to the bookings and what its code says of
them (`AnswerFacts`, over every handler), and `Grows` what anybody may do to a booking: a new version under the same
key, made for the same slot. From that follow the parts of `PagesSafe`. `Real`: what a page or a request saw of a booking is of an earlier
version or is what it is now, so a PATCH that finds its version finds what was shown. `Carried`: a create that was
carried out has its key in the bookings, a cancellation its status; so the server's look finds it whenever a repeated
request arrives. `Awaited` and `OneSlot`: a form hears one answer to one request at a time, and while it has a key
everything under that key was made for the slot it shows, or asks for it. It is
kept because an answer that lets the user pick another slot takes the key away. Of the slot a booking has now it would
be false: others may move it between the lost answer and the retry.

**Slots.** `WindowAssumption` (a day has minutes, the offset is less than a day) and `PickerAssumption`: the settings are what
the schema of `lib/settings.ts` lets through (`SettingsSchema`), hours are minutes of their day, and a meeting is its
room and its times, starts before it ends, on one date, as `validateWindow` leaves it. There are finitely many rooms and
meetings, and dates count from zero. `ReportsAssumption`: months and hours have a length.

| `PickerProofs!` | Statement |
|---|---|
| `PickerTyped` | `Spec => []PickerType` |
| `MinutesDecide` | `Spec => []MinuteByMinute` |
| `AvailabilityTrue` | `Spec => []AvailabilityHonest` |
| `OffersAccepted` | `Spec => []OfferedIsAccepted` |
| `NoClashes` | `Spec => [](PickerType /\ NoClash)` |
| `ReportsTrue` | `Spec => []ReportsCountMinutes` |

No interleaving is at stake here; all say that two computations agree, and `PickerType` is all that the first
properties need of the state. What a run of three sets of rules over a day of twelve units cannot show is the arithmetic. `Parts` and `PartsOf` say that date
and minute are an instant taken apart, in any offset, and `InOrder` that they count time within a day. `InsideIsOpen` is the opening
hours: a window that ended on a later date would contain the last minute of its own, which no hours include, since a day
closes before midnight. `BlockedRowIsCovered` is the slot grid: when a meeting overlaps a window of whole rows, the later of
its first row and the window's is one that `blocks` covers, whether or not the meeting starts and ends on rows. It needs a gap of zero.
`WindowOk` is the server's side of an offer; that the week view's cell passes it needs `min_duration` to be
a multiple of the step and no longer than the maximum, which the schema says and no check of the page does.

*Reports.* `ReportsTrue` needs more of the state: two bookings of a room that were used do not overlap, or a minute would
be counted twice. A used booking is a meeting of the calendar, and those stay apart (`NoClash`), which is inductive because
`Booked` refuses whatever blocks, gap or no gap. TLC checked it on the instance of `picker` first.

A sum over a set is the value, at that set, of a recursive function the library leaves to CHOOSE. `AddsCount` says what it is when
the summands are the sizes of disjoint finite parts: the size of their union. One such function exists, since the
sizes are one; any other differs from it at a least set, and there cannot be a least. So each figure of a report is turned
into the size of a set, and two figures are compared as sets:

- `KeyMinutesAre`, `AvailableCounts`: the windows of a row are disjoint, and their minutes are the open ones (`WindowMinutes`,
  which takes the two clips of `bounds` apart with `Lexical`: instants are ordered as dates, then minutes).
- `CutMinutes`, `UsedCounts`: a cut has the minutes that meeting and window have in common, and no minute is in two cuts.
- `KeysFacts`: there is a row for every window and every booking in range, so grouping loses nothing. `RowsCount`
  then gives the sums, and `UtilizationSums` the same six sets for months and for rooms.
- `OutcomeSums`, `CancelledBy`: the day rows share out the bookings in range, and each cancellation is on one side.
- `MetAtMostSpent`: the pairs of room and minute used map one to one into the pairs of booking and minute that
  the heatmap charges. `PeakIs`: finitely many hours have a largest total.

Left to TLC: liveness, that is `EventuallyOver`, `EveryRequestAnswered`, `QueueDrains`, `CommittedMailLeaves` and
`PageCatchesUp` (TLAPS has no rule here for fairness and ENABLED). Every safety invariant and every action property that a run
checks is proved.
Conversely, `NoOverlap`, `SentMeansDelivered` and the type invariants are proved and no longer run.

## 7. What the code does otherwise

Two disagreements are runs in which TLC finds the property violated.

- `reopen`: the QR check-in selects a CONFIRMED row in a subquery and updates it by id. When the UPDATE
  waits for the sweep, which is releasing that row, the subquery is not evaluated again and the
  released booking becomes CHECKED_IN (`modules/bookings/service.ts:1173`); the data model says
  terminal states are never reopened (`docs/spec/sections/05-data-model.md:476`).
- `unseen_import`: the file input of the import dialog stays enabled while a dry run is on its way. The
  preview of the first file then appears over the second, and the commit button sends the second, which was
  never previewed (`apps/admin/src/components/csv-import-dialog.tsx:183`, against `:9-10`).

The rest was met while modelling and is stated here without a run.

Bookings and mail:

- The cancellation mail carries the window of the head read before the transaction
  (`service.ts:935`, `1022`); a move in between leaves calendars with a cancellation of the old window.
- `confirmed_at` is taken after the lock waits and the start is not checked again, so it
  can come after the start, which `05-data-model.md:501` rules out.
- The self check-in chooses its method from a read before the transaction (`routes.ts:733`) and its UPDATE does not
  test membership, as `05-data-model.md:634` has it do.
- Attempts are compared with the cap only where a send is seen to fail (`jobs/drain.ts:249`). A process
  that dies in the last attempt leaves a PENDING row that is sent once more, and again after each
  further crash; `drain.ts:94` and `jobs/README.md:17` call the cap a hard ceiling on copies.
- The catch block of a send writes PENDING or FAILED by id (`drain.ts:249`). An invitation
  that a reissue set to SKIPPED while it was being sent returns to the queue when that send fails, and
  goes out with a link that no longer works; `modules/users/service.ts:139` says a reissue supersedes what is
  outstanding.
- With two processes a confirmation can be delivered after the cancellation (section 4).
- The server takes any user as a guest, the owner too (`normalizeAttendees`, `modules/bookings/routes.ts:104`;
  `replaceAttendees`, `service.ts:864`). An owner who was listed and is taken off the list again is mailed a cancellation of a booking
  that is still theirs. The pages do not offer it. Met as the counterexample to a proof: the hypothesis of `CalendarsAreTold`.
- The reopening of `reopen` has a sibling: a QR check-in that waits for the row while the deactivation cascade cancels it
  brings back a booking of a disabled owner. And it reads `rooms.active` outside the lock, so it may check in to a room that was
  switched off while it waited.

Accounts and jobs:

- A round that does not get its advisory lock counts as a success, so readiness does not see a job that
  another instance holds for ever.
- A disabled administrator whose request to reactivate itself was authenticated before is enabled again by it.
- A reissue skips pending account mail by address, so after an address went to another user it can skip that user's mail.
- The reset of an expired lock is a statement of its own and can clear a lock that was set meanwhile.
- Changing a pending account's e-mail and then reissuing or deleting leaves a dead link in the old mailbox.
- Running the same import again may turn a row that was an error into an update.
- A session row can outlive a reset or deactivation that races the sign-in; the middleware still refuses a disabled user.
- A refusal by the per-administrator budget of links has already used one of the target's (`modules/users/routes.ts`).

Settings and administrators' pages:

- A load that read before a commit can fill the cache after `invalidateSettings`; the old policy then stands for up to a
  minute more. Only the policy PUT carries an ETag: hours and holidays of a save may overwrite a colleague's between the
  PUTs of one save.
- The settings form keeps its draft when the document is refetched and then sends it with the new ETag
  (`apps/admin/src/routes/settings.tsx:137`), so the ETag does not protect the colleague's change that the refetch
  brought; the comments at lines 20-23 and at `api/mutations.ts:338` say it does.
- The drawer of an account starts from the cached account and is not reset by the refetch that follows. Fields nobody
  moved then differ from the refetched account and are sent, which reverts a colleague's change, although
  `user-sheet.tsx:153` says "Only what actually moved". `OthersFieldsSurvive` is about forms whose account was not read again.
- The impact of a deactivation or of closing a room is shown as none when its read failed, with the button enabled
  (`deactivate-dialog.tsx:36-45`, the room form, the drawer).
- The room form PATCHes every field and has no version: the last of two administrators wins. It is mounted on a row that may
  have been read up to five minutes ago (`room-form.tsx:538`, `api/queries.ts:62`), so fields that nobody typed go back to
  what they were then.
- Whether the features go too is decided against the cached row (`room-form.tsx:85`). When a colleague has changed them
  since it was read, a form with unchanged chips sends no PUT and still says that the room was saved, showing features that the
  room may not have had since before the form was opened. `SavedWasStored` leaves exactly this out.

Employee application:

- The grids do not know `buffer_minutes`, so with a gap they offer slots the server refuses
  (`lib/window.ts:39-44` says the grid, create and reschedule can never disagree). `OfferedIsAccepted` asks for a gap of zero.
- The alternatives of a refusal ignore capacity and features: a suggested room may be too small.
- The reschedule panel keeps a selection that a refetch has shown to be taken, and its "pick alternative" does not check the range;
  the quick search keeps a start that has passed. The server refuses both.
- The edit panel compares its fields with the booking as it is cached now (`edit-panel.tsx:73`): a field nobody moved
  differs after a refetch brought somebody else's edit, and is sent with the new version, which reverts that edit.
- The key of the booking form is kept over a lost answer. A form that is edited before the retry gets the booking of
  the first attempt (`CreatedIsThisSlot` is about slots, which cannot be edited in the form). An administrator, or the owner
  in another tab, may have moved or cancelled that booking meanwhile: the form then ends on a booking of another slot, or on none
  that is live (`routes.ts:218-231`). The property is about the slot it was made for. A 429 drops the key, so the next
  press may conflict with the user's own booking. A PATCH whose answer was lost is answered VERSION_CONFLICT on the retry.
- The page of a CHECKED_IN booking does not poll.

## 8. What is not modelled

- Not in the modelled parts: session cookies and password hashing (the auth library's), rooms' creation and photos, capacity and
  features in availability, the visibility filter of bookings, deadlocks between rooms (see the plan), two tabs that share a session.
- `Picker`: meetings are those the pages and the server's checks admit. A demo shift may put a booking outside the opening hours
  (`service.ts:678` checks the gap and nothing of `validateWindow`), and such a meeting is not among them. Time is counted in whole minutes:
  `validateWindow` cuts the seconds off, and rows off the 15-minute grid are refused by a CHECK of the table that `Accepts` leaves out.
- Mail templates and calendar files: formatting of a row.
- Audit and department reads, serialisation: queries without state.
- Configuration, API description, seeds, translations: read once at start-up, or data.
- Of the employee application: the list of own bookings, the profile, the QR landing page, the set-password page. Of
  the administrators': pages that only list, and the booking page, a second client of cancel and check-in.
- PostgreSQL beyond row locks, advisory locks, constraints and READ COMMITTED as the statements use them.
