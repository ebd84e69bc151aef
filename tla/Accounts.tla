------------------------------ MODULE Accounts ------------------------------
(***************************************************************************)
(* The users page of the administrators' application: the list, the drawer *)
(* that edits one account (components/user-sheet.tsx) and the dialogs that *)
(* deactivate, reactivate and delete it, while other administrators and    *)
(* the account's owner act and answers are delayed or lost.  One account   *)
(* is followed, `subject'; it may be the administrator's own.  The tab's   *)
(* administrator stays one: an account that loses the role or is disabled  *)
(* gets no answer but the sign-in page.  The transactions are Identity's   *)
(* business; here each is one step of the server.  What is typed collides  *)
(* with the account itself alone, and the hourly budget of links is        *)
(* RateLimiter's.                                                          *)
(***************************************************************************)
EXTENDS Integers, FiniteSets

CONSTANTS
    Fields,      \* full_name, email, mobile, department_id
    Texts, FirstText,
    MaxPresses, MaxActs   \* bounds: requests of the tab, acts of other people

ASSUME AccountsAssumption ==
    /\ FirstText \in Texts /\ "role" \notin Fields
    /\ MaxPresses \in Nat /\ MaxActs \in Nat

VARIABLES
    subject,     \* "self" or "other": whose account is followed
    account,     \* its users row
    colleagues,  \* active administrators other than the tab's and the subject
    listed, facets,       \* the page's queries: the row in the list, the count of active administrators
    detail,      \* the drawer's query, which outlives the drawer
    sheet,       \* the drawer
    dialog,      \* the open confirmation and the row it was opened on
    asked,       \* requests the server has not seen
    told,        \* answers on their way
    presses, acts         \* counters of the bounds
accountVars == <<subject, account, colleagues, listed, facets, detail, sheet, dialog,
                 asked, told, presses, acts>>

Self == subject = "self"
Absent == [there |-> FALSE, text |-> [f \in Fields |-> FirstText], role |-> "EMPLOYEE",
           status |-> "INVITED", password |-> FALSE, signedIn |-> FALSE, owns |-> FALSE]
Invited(text) == [Absent EXCEPT !.there = TRUE, !.text = text]
Administrator(r) == r.there /\ r.role = "ADMIN" /\ r.status = "ACTIVE"
\* COUNT of the users who are ACTIVE and ADMIN.
ActiveAdmins == 1 + colleagues + (IF ~Self /\ Administrator(account) THEN 1 ELSE 0)

\* for: the drawer is new's or an account's; typed: the fields the administrator touched;
\* reread: the account changed under the open form; waits: the requests of this very drawer or
\* dialog, for a mutation and its callback are gone with the component that made it.
NoSheet == [for |-> "none", text |-> Absent.text, role |-> "EMPLOYEE", typed |-> {},
            reread |-> FALSE, waits |-> {}]
NoDialog == [op |-> "none", seen |-> Absent, waits |-> {}]

----------------------------------------------------------------------------
(* lib/users.ts *)

\* Deviation: one's own account is not told from the others.
GuardsLastAdmin(r) == IF Administrator(r) /\ facets <= 1 THEN {"last-admin"} ELSE {}
userGuards(r) ==
    (IF Self THEN {"self"} ELSE {}) \cup
    (IF Administrator(r) /\ facets <= 1 THEN {"last-admin"} ELSE {})
canHardDelete(r) == ~Self /\ r.status = "INVITED" /\ ~r.signedIn /\ ~r.owns

----------------------------------------------------------------------------
(* Reads.  A query is read again when it is invalidated, on focus, or when  *)
(* a component mounts on data older than its staleTime.                     *)

World == <<subject, account, colleagues, asked, told, presses, acts>>
ReadList ==
    /\ listed # account /\ listed' = account
    /\ UNCHANGED <<World, facets, detail, sheet, dialog>>
ReadFacets ==
    /\ facets # ActiveAdmins /\ facets' = ActiveAdmins
    /\ UNCHANGED <<World, listed, detail, sheet, dialog>>
Mounted == sheet.for = "account"
\* The form's state was initialised at mount and stays as it is.
ReadDetail ==
    /\ Mounted /\ account.there /\ detail # account
    /\ detail' = account /\ sheet' = [sheet EXCEPT !.reread = TRUE]
    /\ UNCHANGED <<World, listed, facets, dialog>>

----------------------------------------------------------------------------
(* The drawer *)

Draws(s) == sheet' = s /\ UNCHANGED <<World, listed, facets, detail, dialog>>
OpenNew == sheet.for = "none" /\ dialog = NoDialog /\ Draws([NoSheet EXCEPT !.for = "new"])
\* By the row's link or by its address; the form mounts on what the cache holds.
OpenSheet ==
    /\ sheet.for = "none" /\ dialog = NoDialog
    /\ detail.there \/ account.there
    /\ LET r == IF detail.there THEN detail ELSE account IN
       /\ detail' = r
       /\ sheet' = [NoSheet EXCEPT !.for = "account", !.text = r.text, !.role = r.role]
    /\ UNCHANGED <<World, listed, facets, dialog>>
CloseSheet == sheet.for # "none" /\ dialog = NoDialog /\ Draws(NoSheet)
TypeField(f, v) ==
    /\ sheet.for # "none" /\ dialog = NoDialog /\ v # sheet.text[f]
    /\ Draws([sheet EXCEPT !.text[f] = v, !.typed = @ \cup {f}])
\* FACILITY is never on offer; a new account is an employee; nobody picks a role for themselves.
PickRole(role) ==
    /\ Mounted /\ dialog = NoDialog /\ "self" \notin userGuards(detail)
    /\ role # sheet.role /\ ("last-admin" \in userGuards(detail) => role = "ADMIN")
    /\ Draws([sheet EXCEPT !.role = role, !.typed = @ \cup {"role"}])

\* Deviation: the form sends all its fields.
BodyWhole == [text |-> sheet.text, role |-> IF Self THEN {} ELSE {sheet.role}, names |-> Fields]
\* Only what differs from the account as the form knows it now.
Body == [text  |-> sheet.text,
         names |-> {f \in Fields : sheet.text[f] # detail.text[f]},
         role  |-> IF sheet.role = detail.role THEN {} ELSE {sheet.role}]
\* The page makes these three itself; the others belong to the drawer or to the dialog.
PageOps == {"invite", "reactivate", "delete"}
Waits(r) == r.op \in PageOps \/ r.n \in sheet.waits \cup dialog.waits
Idle(op) == \A r \in asked \cup {x.req : x \in told} : r.op = op => ~Waits(r)
Sends(op, body, seen) ==
    /\ Idle(op) /\ presses < MaxPresses /\ presses' = presses + 1
    /\ asked' = asked \cup {[n |-> presses', op |-> op, body |-> body, seen |-> seen,
                             typed |-> sheet.typed, reread |-> sheet.reread]}
    /\ sheet' = IF op \in {"create", "patch", "reset"} THEN [sheet EXCEPT !.waits = @ \cup {presses'}] ELSE sheet
    /\ dialog' = IF op = "deactivate" THEN [dialog EXCEPT !.waits = @ \cup {presses'}] ELSE dialog
    /\ UNCHANGED <<subject, account, colleagues, told, acts, listed, facets, detail>>
Nothing == [text |-> Absent.text, names |-> {}, role |-> {}]
PressCreate ==
    /\ sheet.for = "new" /\ dialog = NoDialog
    /\ Sends("create", [Nothing EXCEPT !.text = sheet.text], Absent)
\* An empty body is not sent: the drawer says it saved and closes.
PressUpdate ==
    /\ Mounted /\ dialog = NoDialog
    /\ IF Body.names = {} /\ Body.role = {} THEN Idle("patch") /\ Draws(NoSheet)
       ELSE Sends("patch", Body, detail)

----------------------------------------------------------------------------
(* The other buttons of the row and of the drawer *)

\* What a button is bound to: the row of the list, or the drawer's account over it.
OnScreen == IF Mounted THEN {detail} ELSE {r \in {listed} : r.there /\ sheet.for = "none"}
PressLink ==
    /\ dialog = NoDialog
    /\ \E r \in OnScreen :
         \/ ~Mounted /\ r.status = "INVITED" /\ Sends("invite", Nothing, r)
         \/ Mounted /\ r.status # "DISABLED" /\ Sends("reset", Nothing, r)
OpensDialog(op, r) == dialog' = [NoDialog EXCEPT !.op = op, !.seen = r] /\ UNCHANGED <<World, listed, facets, detail, sheet>>
OpenDialog ==
    /\ dialog = NoDialog
    /\ \E r \in OnScreen :
         \/ r.status = "DISABLED" /\ OpensDialog("reactivate", r)
         \/ r.status # "DISABLED" /\ userGuards(r) = {} /\ OpensDialog("deactivate", r)
         \/ Mounted /\ canHardDelete(r) /\ OpensDialog("delete", r)
CloseDialog ==
    /\ dialog # NoDialog /\ dialog' = NoDialog
    /\ UNCHANGED <<World, listed, facets, detail, sheet>>
Confirm == dialog # NoDialog /\ Sends(dialog.op, Nothing, dialog.seen)

----------------------------------------------------------------------------
(* The server: modules/users/service.ts *)

LastOne == Administrator(account) /\ ActiveAdmins <= 1
Refusals(r) ==
    IF r.op = "create" THEN account.there                   \* employee_code and email are unique
    ELSE \/ ~account.there                                  \* NOT_FOUND
         \/ r.op = "patch" /\ r.body.role # {} /\ (Self \/ (r.body.role # {"ADMIN"} /\ LastOne))
         \/ r.op = "deactivate" /\ (Self \/ (account.status # "DISABLED" /\ LastOne))
         \/ r.op = "reactivate" /\ account.status # "DISABLED"
         \/ r.op = "invite" /\ account.status # "INVITED"
         \/ r.op = "reset" /\ account.status = "DISABLED"
         \/ r.op = "delete" /\ (Self \/ LastOne \/ account.signedIn \/ account.owns)
Restored == IF account.password THEN "ACTIVE" ELSE "INVITED"
Written(r) ==
    CASE r.op = "create" -> Invited(r.body.text)
      [] r.op = "patch" ->
           [account EXCEPT !.text = [f \in Fields |-> IF f \in r.body.names THEN r.body.text[f] ELSE @[f]],
                           !.role = IF r.body.role = {} THEN @ ELSE CHOOSE x \in r.body.role : TRUE]
      [] r.op = "deactivate" -> [account EXCEPT !.status = "DISABLED"]
      [] r.op = "reactivate" -> [account EXCEPT !.status = Restored]
      [] r.op = "delete" -> Absent
      [] OTHER -> account
Serve(r) ==
    /\ asked' = asked \ {r}
    /\ told' = told \cup {[req |-> r, code |-> IF Refusals(r) THEN "refused" ELSE "ok"]}
    /\ account' = IF Refusals(r) THEN account ELSE Written(r)
    /\ UNCHANGED <<subject, colleagues, listed, facets, detail, sheet, dialog, presses, acts>>

\* Success closes what asked, while it is there, and a deletion whatever drawer is open; a refusal
\* is shown and leaves it open.
Finishes(r) ==
    /\ sheet' = IF r.op = "delete" \/ (r.op \in {"create", "patch"} /\ Waits(r)) THEN NoSheet ELSE sheet
    /\ dialog' = IF r.op = dialog.op /\ Waits(r) THEN NoDialog ELSE dialog
Hear(x) ==
    /\ told' = told \ {x}
    /\ IF x.code = "ok" THEN Finishes(x.req) ELSE UNCHANGED <<sheet, dialog>>
    /\ UNCHANGED <<subject, account, colleagues, listed, facets, detail, asked, presses, acts>>
\* The connection breaks before the server has seen the request, or after it has answered.
Broken ==
    /\ \/ \E r \in asked : asked' = asked \ {r} /\ UNCHANGED told
       \/ \E x \in told : told' = told \ {x} /\ UNCHANGED asked
    /\ UNCHANGED <<subject, account, colleagues, listed, facets, detail, sheet, dialog, presses, acts>>

----------------------------------------------------------------------------
(* Other administrators, and the account's owner *)

Becomes(r) ==
    /\ acts < MaxActs /\ acts' = acts + 1 /\ account.there /\ account' = r /\ r # account
    /\ UNCHANGED <<subject, colleagues, listed, facets, detail, sheet, dialog, asked, told, presses>>
Rewritten(f, v) == Becomes([account EXCEPT !.text[f] = v])
Promoted == ~Self /\ \E role \in {"EMPLOYEE", "ADMIN"} : Becomes([account EXCEPT !.role = role])
Disabled == ~Self /\ Becomes([account EXCEPT !.status = "DISABLED"])
Enabled == account.status = "DISABLED" /\ Becomes([account EXCEPT !.status = Restored])
\* The link of the invitation sets a password; a sign-in leaves a row in the audit trail.
Accepted == account.status = "INVITED" /\ Becomes([account EXCEPT !.status = "ACTIVE", !.password = TRUE])
Entered == account.status = "ACTIVE" /\ Becomes([account EXCEPT !.signedIn = TRUE])
\* Only an active account can own a new booking.
Booked == account.status = "ACTIVE" /\ Becomes([account EXCEPT !.owns = TRUE])
Hired ==
    /\ acts < MaxActs /\ acts' = acts + 1 /\ colleagues' = 1 - colleagues
    /\ UNCHANGED <<subject, account, listed, facets, detail, sheet, dialog, asked, told, presses>>

----------------------------------------------------------------------------
Mine == [Invited(Absent.text) EXCEPT !.role = "ADMIN", !.status = "ACTIVE", !.password = TRUE, !.signedIn = TRUE]
AccountsInit ==
    /\ subject \in {"self", "other"} /\ colleagues \in {0, 1}
    /\ account \in IF Self THEN {Mine}
                   ELSE {Absent, Invited(Absent.text), [Mine EXCEPT !.signedIn = FALSE]}
    /\ listed = account /\ facets = ActiveAdmins /\ detail = Absent
    /\ sheet = NoSheet /\ dialog = NoDialog /\ asked = {} /\ told = {}
    /\ presses = 0 /\ acts = 0

AccountsNext ==
    \/ ReadList \/ ReadFacets \/ ReadDetail \/ OpenNew \/ OpenSheet \/ CloseSheet
    \/ \E f \in Fields, v \in Texts : TypeField(f, v) \/ Rewritten(f, v)
    \/ \E role \in {"EMPLOYEE", "ADMIN"} : PickRole(role)
    \/ PressCreate \/ PressUpdate \/ PressLink \/ OpenDialog \/ CloseDialog \/ Confirm
    \/ \E r \in asked : Serve(r)
    \/ \E x \in told : Hear(x)
    \/ Broken
    \/ Promoted \/ Disabled \/ Enabled \/ Accepted \/ Entered \/ Booked \/ Hired

----------------------------------------------------------------------------
(* Properties *)

\* user-sheet.tsx, "only what actually moved": saving a form that never saw the account change
\* under it leaves what the administrator did not touch as others left it, although the form was
\* filled from a cache that may be long out of date.
OthersFieldsSurvive ==
    [][\A r \in asked \ asked' :
         r.op = "patch" /\ account' # account /\ ~r.reread =>
             /\ \A f \in Fields : account'.text[f] # account.text[f] => f \in r.typed
             /\ account'.role # account.role => "role" \in r.typed]_accountVars

\* "Prevented and explained, not offered and then 409'd": the server refuses nothing the page
\* offers, unless the account changed since the page read it.
OfferedIsServed ==
    [][\A x \in told' \ told : x.code = "refused" => x.req.seen # account]_accountVars
=============================================================================
