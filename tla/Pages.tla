------------------------------- MODULE Pages -------------------------------
(***************************************************************************)
(* One tab of the employee application (apps/web) and what its requests do *)
(* to the bookings, over a network that may keep a request as long as it   *)
(* likes, drop it, or drop its answer: the booking form with its           *)
(* Idempotency-Key, the booking page with its edit and reschedule panels,  *)
(* cancel dialog and check-in button, the poll behind that page, and the   *)
(* login page a revoked session ends on.  A request is one step of the     *)
(* server here: BookingTx says why it may be.  Time is not modelled, so a  *)
(* request may also be refused for a reason this module does not know.     *)
(***************************************************************************)
EXTENDS Integers, FiniteSets, FiniteSetsExt

CONSTANTS
    Slots,      \* a room and a time each, no two of them overlapping
    Titles,     \* what the edit panel may say; a booking is created with FirstTitle
    FirstTitle,
    MaxPresses, MaxChanges,   \* bounds: presses, and the last press that may be on a booking's page
    MaxOthers, MaxRows        \* bounds: acts of other people, bookings

ASSUME PagesAssumption ==
    FirstTitle \in Titles /\ {MaxPresses, MaxChanges} \subseteq Nat /\ MaxOthers \in Nat /\ MaxRows \in Nat

Ids == 1..MaxRows
Nobody == 0                       \* no booking, no key, no attempt
NoSlot == "no slot"
Live == {"CONFIRMED", "CHECKED_IN"}

VARIABLES
    rows,       \* [Ids -> booking]
    signedIn,   \* whether the session still stands
    wire,       \* requests the server has not seen
    replies,    \* answers on their way to requests the page still waits for
    page,       \* what the tab shows
    presses, others,   \* counters of the bounds
    done        \* history: <<op, booking or attempt>> this tab's requests carried out
pagesVars == <<rows, signedIn, wire, replies, page, presses, others, done>>

----------------------------------------------------------------------------
(* Records *)

\* version is what a PATCH must name; key and attempt are Nobody for other people's bookings;
\* made is a history, the slot the booking was created for, wherever it was moved since.
Free == [status |-> "FREE", slot |-> NoSlot, made |-> NoSlot, title |-> FirstTitle, version |-> 0,
         key |-> Nobody, attempt |-> Nobody]
Booked(s, k, a) ==
    [Free EXCEPT !.status = "CONFIRMED", !.slot = s, !.made = s, !.version = 1, !.key = k, !.attempt = a]
View(i) == [status |-> rows[i].status, slot |-> rows[i].slot, title |-> rows[i].title,
            version |-> rows[i].version]
NoView == [status |-> "FREE", slot |-> NoSlot, title |-> FirstTitle, version |-> 0]

\* key is the form's useRef; attempt is the submit that key stands for.  seen is the cached
\* booking, panel the one that is open, draft the title typed into it, asked the requests the
\* page waits for, note the message it shows.
Board == [at |-> "board", slot |-> NoSlot, key |-> Nobody, attempt |-> Nobody, id |-> Nobody,
          seen |-> NoView, panel |-> "none", asking |-> FALSE, draft |-> FirstTitle,
          asked |-> {}, note |-> "none"]
Form(s) == [Board EXCEPT !.at = "form", !.slot = s]
Detail(i) == [Board EXCEPT !.at = "detail", !.id = i, !.seen = View(i)]
\* The login page remembers the address it was reached from (?redirect=).
Login(p) == [Board EXCEPT !.at = "login", !.slot = p.slot, !.id = p.id]

Request(op, i, s, t, k, a) ==
    [n |-> presses + 1, op |-> op, id |-> i, slot |-> s, title |-> t, key |-> k, attempt |-> a,
     seen |-> page.seen]

PagesInit ==
    /\ rows \in {[i \in Ids |-> Free]} \cup
               {[i \in Ids |-> IF i = 1 THEN Booked(s, Nobody, Nobody) ELSE Free] : s \in Slots}
    /\ signedIn = TRUE
    /\ wire = {} /\ replies = {} /\ page = Board
    /\ presses = 0 /\ others = 0 /\ done = {}

----------------------------------------------------------------------------
(* The server *)

Holder(s) == {i \in Ids : rows[i].status \in Live /\ rows[i].slot = s}
Prior(r) == {i \in Ids : rows[i].status # "FREE" /\ rows[i].key = r.key}
Spare == {i \in Ids : rows[i].status = "FREE"}

\* What the server answers and what it makes of the bookings.
Outcome(code, i, table) == [code |-> code, id |-> i, rows |-> table]
Same(code, i) == Outcome(code, i, rows)

\* A committed prior booking comes before every check.
Create(r) ==
    IF Prior(r) # {} THEN {Same("ok", Min(Prior(r)))}
    ELSE {Same("refused", Nobody)} \cup
         IF Holder(r.slot) # {} THEN {Same("conflict", Min(Holder(r.slot)))}
         ELSE {Outcome("ok", i, [rows EXCEPT ![i] = Booked(r.slot, r.key, r.attempt)]) :
                  i \in IF Spare = {} THEN {} ELSE {Min(Spare)}}

\* Deviation: the UPDATE does not name the version.
WritableAnyVersion(r) == rows[r.id].status = "CONFIRMED"
Writable(r) == rows[r.id].status = "CONFIRMED" /\ rows[r.id].version = r.seen.version

\* PATCH /bookings/:id, of fields or of the slot.
Patch(r) ==
    IF ~Writable(r) THEN
        {Same(IF rows[r.id].version # r.seen.version THEN "stale" ELSE "refused", r.id)}
    ELSE {Same("refused", r.id)} \cup
         IF Holder(r.slot) \ {r.id} # {} THEN {Same("conflict", Min(Holder(r.slot) \ {r.id}))}
         ELSE {Outcome("ok", r.id, [rows EXCEPT ![r.id].slot = r.slot, ![r.id].title = r.title,
                                                ![r.id].version = @ + 1])}

\* A status that a repeated call finds already there is a success.
Becomes(r, to) ==
    IF rows[r.id].status = to THEN {Same("ok", r.id)}
    ELSE {Same("refused", r.id)} \cup
         IF rows[r.id].status = "CONFIRMED"
         THEN {Outcome("ok", r.id, [rows EXCEPT ![r.id].status = to, ![r.id].version = @ + 1])}
         ELSE {}

Judgement(r) ==
    IF r.op = "create" THEN Create(r)
    ELSE IF r.op \in {"edit", "move"} THEN Patch(r)
    ELSE Becomes(r, IF r.op = "cancel" THEN "CANCELLED" ELSE "CHECKED_IN")

\* The limiter and the session come before the handler; a handler may also break down whole.
Answers(r) ==
    {Same("throttled", Nobody)} \cup
    IF ~signedIn THEN {Same("unauthenticated", Nobody)}
    ELSE Judgement(r) \cup {Same("broken", Nobody)}

What(r) == <<r.op, IF r.op = "create" THEN r.attempt ELSE r.id>>

\* The server takes a request up, whenever it gets there, and answers it once.
Handle(r) ==
    \E o \in Answers(r) :
        /\ wire' = wire \ {r}
        /\ rows' = o.rows
        /\ done' = IF o.code = "ok" THEN done \cup {What(r)} ELSE done
        /\ replies' = IF r \in page.asked
                      THEN replies \cup {[req |-> r, code |-> o.code, id |-> o.id]} ELSE replies
        /\ UNCHANGED <<signedIn, page, presses, others>>

----------------------------------------------------------------------------
(* The tab *)

Go(p) == page' = p /\ UNCHANGED <<rows, signedIn, wire, presses, others, done>>
Leave(p) == Go(p) /\ replies' = {}      \* an unmounted page hears no answers
Stay(p) == Go(p) /\ UNCHANGED replies

\* A press on a button whose hook waits for no answer (isPending).
Waits(ops) == \E r \in page.asked : r.op \in ops
Send(r, p) ==
    /\ presses < MaxPresses /\ presses' = presses + 1
    /\ wire' = wire \cup {r}
    /\ page' = [p EXCEPT !.asked = @ \cup {r}, !.note = "none"]
    /\ UNCHANGED <<rows, signedIn, replies, others, done>>

\* A slot picked on the board or among the alternatives of a conflict.
OpenForm(s) == page.at = "board" /\ Leave(Form(s))
PickAlternative(s) ==
    page.at = "form" /\ page.note = "conflict" /\ Stay([page EXCEPT !.slot = s, !.note = "none"])
OpenDetail(i) == page.at = "board" /\ rows[i].key # Nobody /\ Leave(Detail(i))
Back == page.at \in {"form", "detail"} /\ Leave(Board)

\* Deviation: a key for every press.
KeyPerPress == presses + 1
\* The key is made at the first press and kept until an answer takes it.
Key == IF page.key = Nobody THEN presses + 1 ELSE page.key
Attempt == IF page.attempt = Nobody THEN presses + 1 ELSE page.attempt

PressCreate ==
    /\ page.at = "form" /\ ~Waits({"create"})
    /\ Send(Request("create", Nobody, page.slot, FirstTitle, Key, Attempt),
            [page EXCEPT !.key = Key, !.attempt = Attempt])

OnDetail == page.at = "detail"
Change(op, s, t) == presses < MaxChanges /\ Send(Request(op, page.id, s, t, Nobody, Nobody), page)
Can == OnDetail /\ page.seen.status = "CONFIRMED"   \* booking.can, as the server last sent it

OpenEdit == Can /\ Stay([page EXCEPT !.panel = "edit", !.draft = page.seen.title])
OpenMove == Can /\ Stay([page EXCEPT !.panel = "move", !.draft = FirstTitle])
Closed(p) == [p EXCEPT !.panel = "none", !.draft = FirstTitle]
ClosePanel == OnDetail /\ page.panel # "none" /\ Stay(Closed(page))
Type(t) == OnDetail /\ page.panel = "edit" /\ Stay([page EXCEPT !.draft = t])
OpenDialog == Can /\ Stay([page EXCEPT !.asking = TRUE])
CloseDialog == OnDetail /\ page.asking /\ Stay([page EXCEPT !.asking = FALSE])
\* "Reload" under a version conflict.
Reload ==
    /\ OnDetail /\ page.note = "stale" /\ signedIn
    /\ LET p == [page EXCEPT !.seen = View(page.id), !.note = "none"]
       IN  Stay(IF page.panel = "edit" THEN Closed(p) ELSE p)

PressEdit ==
    /\ OnDetail /\ page.panel = "edit" /\ page.draft # page.seen.title /\ ~Waits({"edit"})
    /\ Change("edit", page.seen.slot, page.draft)
PressMove(s) ==
    /\ OnDetail /\ page.panel = "move" /\ s # page.seen.slot /\ ~Waits({"move"})
    /\ Change("move", s, page.seen.title)
PressCancel ==
    /\ OnDetail /\ page.asking /\ ~Waits({"cancel"})
    /\ Change("cancel", page.seen.slot, page.seen.title)
PressCheckIn ==
    /\ Can /\ ~Waits({"checkin"})
    /\ Change("checkin", page.seen.slot, page.seen.title)

\* GET /bookings/:id: the poll, a refetch on focus, an invalidation after a write.  A 401 ends
\* on the login page like any other.
Refetch ==
    /\ OnDetail
    /\ IF signedIn THEN View(page.id) # page.seen /\ Stay([page EXCEPT !.seen = View(page.id)])
       ELSE Leave(Login(page))
\* Deviation: the poll stops once a panel is open.
PolledIfClosed == page.seen.status = "CONFIRMED" /\ page.panel = "none"
Polled == page.seen.status = "CONFIRMED"
Poll == Polled /\ Refetch

----------------------------------------------------------------------------
(* Answers *)

Heard(x) == [page EXCEPT !.asked = @ \ {x.req}]
\* Deviation: the key outlives the answer.
ForgetsNothing(code) == FALSE
\* Any 4xx judges the attempt: the next press is a new one.
Forgets(code) == code \in {"conflict", "refused", "stale", "throttled"}
Judged(x) == [Heard(x) EXCEPT !.note = IF x.code \in {"conflict", "stale"} THEN x.code ELSE "none",
                              !.key = IF Forgets(x.code) THEN Nobody ELSE @,
                              !.attempt = IF x.code = "broken" THEN @ ELSE Nobody]

AfterOk(x) ==
    CASE x.req.op = "create" -> Detail(x.id)
      [] x.req.op \in {"edit", "move"} -> Closed(Heard(x))
      [] x.req.op = "cancel" -> [Heard(x) EXCEPT !.asking = FALSE]
      [] OTHER -> Heard(x)

Receive(x) ==
    /\ replies' = IF x.code = "unauthenticated" \/ x.req.op = "create" THEN {} ELSE replies \ {x}
    /\ Go(IF x.code = "ok" THEN AfterOk(x)
          ELSE IF x.code = "unauthenticated" THEN Login(page) ELSE Judged(x))

\* The connection breaks before or after the server has seen the request.
Break(r) ==
    /\ replies' = {x \in replies : x.req # r}
    /\ Go([page EXCEPT !.asked = @ \ {r}])

\* A successful sign-in returns to the address, with a page built anew.
SignIn ==
    /\ page.at = "login"
    /\ page' = IF page.id # Nobody THEN Detail(page.id) ELSE Form(page.slot)
    /\ signedIn' = TRUE
    /\ UNCHANGED <<rows, wire, replies, presses, others, done>>

----------------------------------------------------------------------------
(* Everybody else *)

Elsewhere == others < MaxOthers /\ others' = others + 1 /\ UNCHANGED <<wire, replies, page, presses, done>>
Rewrite(i, row) == rows' = [rows EXCEPT ![i] = row] /\ UNCHANGED signedIn

SomebodyBooks(s) ==
    /\ Elsewhere /\ Holder(s) = {} /\ Spare # {}
    /\ Rewrite(Min(Spare), Booked(s, Nobody, Nobody))
\* A cancellation by an administrator or owner, a check-in by a guest, the sweep.
StatusMoves(i, to) ==
    /\ Elsewhere
    /\ \/ rows[i].status = "CONFIRMED" /\ to \in {"CANCELLED", "CHECKED_IN", "AUTO_RELEASED"}
       \/ rows[i].status = "CHECKED_IN" /\ to = "COMPLETED"
    /\ Rewrite(i, [rows[i] EXCEPT !.status = to, !.version = @ + 1])
\* A PATCH by an administrator or by the owner in another tab, of the slot, of the title, or of what
\* is not kept here; a change of guests and a demo shift leave the same.
SomebodyEdits(i, s, t) ==
    /\ Elsewhere /\ rows[i].status = "CONFIRMED" /\ Holder(s) \ {i} = {}
    /\ Rewrite(i, [rows[i] EXCEPT !.slot = s, !.title = t, !.version = @ + 1])
\* The session is revoked: a password change elsewhere, an expiry, a deactivation.
Revoke == Elsewhere /\ signedIn /\ signedIn' = FALSE /\ UNCHANGED rows

----------------------------------------------------------------------------
Presses == PressCreate \/ PressEdit \/ PressCancel \/ PressCheckIn \/ \E s \in Slots : PressMove(s)

PagesNext ==
    \/ \E r \in wire : Handle(r)
    \/ \E s \in Slots : OpenForm(s) \/ PickAlternative(s) \/ SomebodyBooks(s)
    \/ \E i \in Ids : OpenDetail(i)
    \/ Back \/ OpenEdit \/ OpenMove \/ ClosePanel \/ OpenDialog \/ CloseDialog \/ Reload
    \/ \E t \in Titles : Type(t)
    \/ Presses
    \/ Refetch
    \/ \E x \in replies : Receive(x)
    \/ \E r \in page.asked : Break(r)
    \/ SignIn
    \/ \E i \in Ids, to \in {"CANCELLED", "CHECKED_IN", "AUTO_RELEASED", "COMPLETED"} : StatusMoves(i, to)
    \/ \E i \in Ids, s \in Slots, t \in Titles : SomebodyEdits(i, s, t)
    \/ Revoke

\* The browser runs the poll's timer; nothing else has to happen.
PagesSpec == PagesInit /\ [][PagesNext]_pagesVars /\ WF_pagesVars(Poll)

----------------------------------------------------------------------------
(* Properties *)

\* A retry of what a lost answer hid is never refused: the server answers a create that was
\* committed with that booking and not with a conflict, least of all with itself, and a
\* cancellation or check-in that was carried out with success while the status still stands.
NothingDoneIsRefused ==
    [][\A x \in replies' \ replies :
           /\ x.req.op = "create" /\ x.code \in {"conflict", "refused"} => What(x.req) \notin done
           /\ x.req.op = "cancel" /\ x.code = "refused" => What(x.req) \notin done
           /\ x.req.op = "checkin" /\ x.code = "refused" =>
                  What(x.req) \notin done \/ rows[x.id].status # "CHECKED_IN"]_pagesVars

\* The booking a form ends on was made for the slot the form asks for, wherever others have moved it
\* before its answer came: a replay never brings back a slot an earlier attempt of the form was about.
CreatedIsThisSlot ==
    [][page.at = "form" /\ page'.at = "detail" => rows[page'.id].made = page.slot]_pagesVars

\* A change made from the booking page replaces exactly what the page was showing when the
\* button was pressed, whoever wrote in between and however late the request arrives.
ChangesWhatWasShown ==
    [][\A r \in wire \ wire' :
           r.op \in {"edit", "move"} /\ rows'[r.id] # rows[r.id] => View(r.id) = r.seen]_pagesVars

\* A page that still offers to move or cancel a booking which is over does not go on so.
PageCatchesUp ==
    \A i \in Ids :
        (page.at = "detail" /\ page.id = i /\ page.seen.status = "CONFIRMED"
            /\ rows[i].status \in {"CANCELLED", "AUTO_RELEASED"})
        ~> ~(page.at = "detail" /\ page.id = i /\ page.seen.status = "CONFIRMED")
=============================================================================
