------------------------------ MODULE Identity ------------------------------
(***************************************************************************)
(* Accounts: who may act and how a person gets in.  The transactions of    *)
(* modules/users/service.ts and modules/users/import.ts, set-password and  *)
(* sign-in (auth/routes.ts), run concurrently against one database.        *)
(*                                                                         *)
(* Every administrative operation takes the global advisory lock           *)
(* users:last-admin, then the target row FOR UPDATE, then decides, then    *)
(* writes and commits.  set-password takes no global lock: it claims its   *)
(* token row first and locks the user row second, the opposite order of a  *)
(* re-issue, which locks the user row and then deletes token rows.  The    *)
(* cycle is broken by PostgreSQL's deadlock detector and withTx retries    *)
(* the victim once (lib/tx.ts).                                            *)
(*                                                                         *)
(* A user is named by the employee code.  What deactivation does to        *)
(* bookings is in BookingTx; delivery and retry of mails are in Outbox.    *)
(***************************************************************************)
EXTENDS Integers, Sequences, FiniteSets

CONSTANTS
    Users,     \* employee codes
    Emails,
    Tokens,    \* primary keys of password_setup_tokens; also their mails' dedupe keys
    Requests,  \* HTTP requests, each handled once
    Nobody,    \* no lock holder, no actor, no token
    Menu,      \* what each request may be in this instance
    Seed,      \* the users table before the first step
    Links,     \* the token table before the first step
    Limit      \* LOCKOUT_LIMIT

Roles  == {"EMPLOYEE", "ADMIN"}
Status == {"NONE", "INVITED", "ACTIVE", "DISABLED"}   \* NONE: no row with this code

\* One row of an import file: blank role and e-mail that may belong to someone else.
FileRow == [code : Users, email : Emails, role : Roles \cup {""}]
UserRow == [status : Status, role : Roles, email : Emails, hasPassword : BOOLEAN,
            failed : Nat, lock : {"open", "locked", "lapsed"}]
Token   == [state : {"none", "open", "used", "expired", "deleted"}, user : Users,
            to : Emails, mail : {"-", "PENDING", "SENT", "SKIPPED"}]

AdminOps == {"create", "patch", "deactivate", "reactivate", "invite", "reset", "delete", "import"}
Ops      == AdminOps \cup {"setPassword", "signIn"}
Input    == {i \in [op : Ops, target : Users, role : Roles \cup {""}, email : Emails \cup {""},
                    file : Seq(FileRow)] : i.op = "create" => i.email # ""}

PCs == {"new", "gate", "row", "check", "commit", "classify", "apply", "claim", "password",
        "read", "restart", "verify", "session", "enter", "miss", "done"}
Codes == {"-", "OK", "INTERNAL", "NOT_FOUND", "DUPLICATE", "CANNOT_MODIFY_SELF", "LAST_ADMIN",
          "INVALID_STATUS_TRANSITION", "USER_HAS_HISTORY", "TOKEN_EXPIRED", "ACCOUNT_DISABLED",
          "ACCOUNT_LOCKED", "INVALID_CREDENTIALS"}
Plan    == [row : FileRow, action : {"CREATE", "UPDATE", "SKIP"}]
Request == [pc : PCs, in : Input, actor : Users \cup {Nobody}, tok : Tokens \cup {Nobody},
            plan : SUBSET Plan, tries : {0, 1}, answer : Codes]

ASSUME NamesAssumption == Nobody \notin Requests \cup Users \cup Tokens /\ "" \notin Emails
ASSUME InputsAssumption == Menu \in [Requests -> SUBSET Input] /\ Limit \in Nat \ {0}
\* The seed (db/seed.ts, the first administrator) leaves an administrator who can sign in; a
\* token refers to a user who is there, and a mail to a token.
ASSUME SeedAssumption ==
    /\ Seed \in [Users -> UserRow] /\ Links \in [Tokens -> Token]
    /\ \E u \in Users : Seed[u].role = "ADMIN" /\ Seed[u].status = "ACTIVE"
    /\ \A t \in Tokens : /\ Links[t].state \in {"open", "expired"} => Seed[Links[t].user].status # "NONE"
                         /\ Links[t].state = "none" => Links[t].mail = "-"

VARIABLES
    user,     \* users with their credential account
    token,    \* password_setup_tokens, each with the notification that carries it
    session,  \* users who hold a session row
    history,  \* users who own bookings or have acted (audit_logs.actor_id)
    gate,     \* holder of the advisory lock users:last-admin
    row,      \* holders of the user rows' FOR UPDATE locks
    claim,    \* holders of token rows, claimed by an uncommitted set-password
    req       \* the requests

db    == <<user, token, session, history>>
locks == <<gate, row, claim>>
vars  == <<user, token, session, history, gate, row, claim, req>>

NoInput == [op |-> "signIn", target |-> CHOOSE u \in Users : TRUE, role |-> "", email |-> "",
            file |-> <<>>]
Idle == [pc |-> "new", in |-> NoInput, actor |-> Nobody, tok |-> Nobody, plan |-> {},
         tries |-> 0, answer |-> "-"]

Init ==
    /\ user = Seed /\ token = Links
    /\ session = {u \in Users : Seed[u].status = "ACTIVE"}
    /\ history = {} /\ gate = Nobody
    /\ row = [u \in Users |-> Nobody] /\ claim = [t \in Tokens |-> Nobody]
    /\ req = [q \in Requests |-> Idle]

----------------------------------------------------------------------------
(* Locks, answers, rows *)

In(q)     == req[q].in
Target(q) == req[q].in.target
Exists(u) == user[u].status # "NONE"
IsAdmin(u) == user[u].role = "ADMIN" /\ user[u].status = "ACTIVE"
At(q, pc) == req[q].pc = pc
Goto(q, pc) == req' = [req EXCEPT ![q].pc = pc]

\* COMMIT or ROLLBACK of q: its locks are free, the client has its answer.
Release(q) ==
    /\ gate' = IF gate = q THEN Nobody ELSE gate
    /\ row' = [u \in Users |-> IF row[u] = q THEN Nobody ELSE row[u]]
    /\ claim' = [t \in Tokens |-> IF claim[t] = q THEN Nobody ELSE claim[t]]
Answer(q, code) == req' = [req EXCEPT ![q].pc = "done", ![q].answer = code]
Finish(q, code) == Release(q) /\ Answer(q, code)
Refuse(q, code) == Finish(q, code) /\ UNCHANGED db

\* A token's id is a fresh uuid; a write that needs one waits for it (see Submit: it never has to).
Fresh == {t \in Tokens : token[t].state = "none"}
Issued(u, email) == [state |-> "open", user |-> u, to |-> email, mail |-> "PENDING"]
OpenOf(u) == {t \in Tokens : token[t].state \in {"open", "expired"} /\ token[t].user = u}
Acted(q) == history' = history \cup {req[q].actor}

----------------------------------------------------------------------------
(* Requests arrive *)

Running == {q \in Requests : req[q].pc \notin {"new", "done"}}

\* requireAuth re-reads the user row, requireAdmin its role; deleting oneself is refused
\* before the transaction.  The bound on Tokens: two are left for each request that runs,
\* so a file may create two accounts.
Submit(q, i, a) ==
    /\ At(q, "new") /\ i.op \in AdminOps
    /\ a \in session /\ IsAdmin(a)
    /\ Cardinality(Fresh) >= 2 * (Cardinality(Running) + 1)
    /\ req' = [req EXCEPT ![q] = [Idle EXCEPT
                 !.pc = IF i.op = "delete" /\ i.target = a THEN "done" ELSE "gate",
                 !.in = i, !.actor = a,
                 !.answer = IF i.op = "delete" /\ i.target = a THEN "CANNOT_MODIFY_SELF" ELSE "-"]]
    /\ UNCHANGED <<db, locks>>

\* Somebody follows the link of a mail that was sent.
Follow(q, i, t) ==
    /\ At(q, "new") /\ i.op = "setPassword"
    /\ token[t].mail = "SENT"
    /\ req' = [req EXCEPT ![q] = [Idle EXCEPT !.pc = "claim", !.in = [i EXCEPT !.target = token[t].user],
                                              !.tok = t]]
    /\ UNCHANGED <<db, locks>>

Knock(q, i) ==
    /\ At(q, "new") /\ i.op = "signIn"
    /\ req' = [req EXCEPT ![q] = [Idle EXCEPT !.pc = "read", !.in = i]]
    /\ UNCHANGED <<db, locks>>

----------------------------------------------------------------------------
(* Administration *)

\* Deviation: createUser does not queue with the other identity writers.
TakeGateUnlessCreate(q) ==
    /\ At(q, "gate")
    /\ IF In(q).op = "create" THEN gate' = gate /\ Goto(q, "commit")
       ELSE /\ gate = Nobody /\ gate' = q
            /\ Goto(q, IF In(q).op = "import" THEN "classify" ELSE "row")
    /\ UNCHANGED <<db, row, claim>>
TakeGate(q) ==
    /\ At(q, "gate") /\ gate = Nobody
    /\ gate' = q
    /\ Goto(q, CASE In(q).op = "create" -> "commit"
                 [] In(q).op = "import" -> "classify"
                 [] OTHER -> "row")
    /\ UNCHANGED <<db, row, claim>>

\* lockUsers: the row FOR UPDATE, no filter on its status.
LockTarget(q) ==
    /\ At(q, "row") /\ row[Target(q)] = Nobody
    /\ IF Exists(Target(q))
       THEN /\ row' = [row EXCEPT ![Target(q)] = q] /\ Goto(q, "check")
            /\ UNCHANGED <<db, gate, claim>>
       ELSE Refuse(q, "NOT_FOUND")

\* Deviation: the count does not look at the status.
LastAdminAnyStatus(u) == IsAdmin(u) /\ ~ \E v \in Users \ {u} : user[v].role = "ADMIN"
\* assertNotLastAdmin: the target counts, and nobody else does.
LastAdmin(u) == IsAdmin(u) /\ ~ \E v \in Users \ {u} : IsAdmin(v)

Self(q) == Target(q) = req[q].actor
Demotes(i) == i.op = "patch" /\ i.role \notin {"", "ADMIN"}

Forbidden(q) ==
    \/ In(q).op = "patch" /\ In(q).role # "" /\ Self(q)
    \/ In(q).op = "deactivate" /\ Self(q)
WrongStatus(q) ==
    LET s == user[Target(q)].status IN
    \/ In(q).op = "reactivate" /\ s # "DISABLED"
    \/ In(q).op = "invite" /\ s # "INVITED"
    \/ In(q).op = "reset" /\ s \notin {"INVITED", "ACTIVE"}
Already(q) == In(q).op = "deactivate" /\ user[Target(q)].status = "DISABLED"
WouldStrand(q) ==
    /\ Demotes(In(q)) \/ In(q).op \in {"deactivate", "delete"}
    /\ LastAdmin(Target(q))
HasHistory(q) == In(q).op = "delete" /\ Target(q) \in history

\* What each operation decides on, under the gate and the row lock.
Check(q) ==
    /\ At(q, "check")
    /\ IF Forbidden(q) THEN Refuse(q, "CANNOT_MODIFY_SELF")
       ELSE IF Already(q) THEN Refuse(q, "OK")
       ELSE IF WrongStatus(q) THEN Refuse(q, "INVALID_STATUS_TRANSITION")
       ELSE IF WouldStrand(q) THEN Refuse(q, "LAST_ADMIN")
       ELSE IF HasHistory(q) THEN Refuse(q, "USER_HAS_HISTORY")
       ELSE Goto(q, "commit") /\ UNCHANGED <<db, locks>>

\* users_email_unique, users_employee_code_unique
TakenBy(u, email) == \E v \in Users \ {u} : Exists(v) /\ user[v].email = email

NewUser(email, role) == [status |-> "INVITED", role |-> role, email |-> email,
                         hasPassword |-> FALSE, failed |-> 0, lock |-> "open"]

\* createUser
Create(q) ==
    /\ At(q, "commit") /\ In(q).op = "create"
    /\ IF Exists(Target(q)) \/ TakenBy(Target(q), In(q).email)
       THEN Refuse(q, "DUPLICATE")
       ELSE /\ Fresh # {}
            /\ user' = [user EXCEPT ![Target(q)] = NewUser(In(q).email, "EMPLOYEE")]
            /\ token' = [token EXCEPT ![CHOOSE t \in Fresh : TRUE] = Issued(Target(q), In(q).email)]
            /\ Acted(q) /\ Finish(q, "OK") /\ UNCHANGED session

Patched(u, i) == [u EXCEPT !.role  = IF i.role = "" THEN u.role ELSE i.role,
                           !.email = IF i.email = "" THEN u.email ELSE i.email]

\* updateUser: role and address; a blank field is left alone.
Patch(q) ==
    /\ At(q, "commit") /\ In(q).op = "patch"
    /\ IF In(q).email # "" /\ TakenBy(Target(q), In(q).email)
       THEN Refuse(q, "DUPLICATE")
       ELSE /\ user' = [user EXCEPT ![Target(q)] = Patched(user[Target(q)], In(q))]
            /\ Acted(q) /\ Finish(q, "OK") /\ UNCHANGED <<token, session>>

\* deactivateUser without its bookings: the status and the sessions move together.
Deactivate(q) ==
    /\ At(q, "commit") /\ In(q).op = "deactivate"
    /\ user' = [user EXCEPT ![Target(q)].status = "DISABLED"]
    /\ session' = session \ {Target(q)}
    /\ Acted(q) /\ Finish(q, "OK") /\ UNCHANGED token

\* reactivateUser: back to where the account was.
Reactivate(q) ==
    /\ At(q, "commit") /\ In(q).op = "reactivate"
    /\ user' = [user EXCEPT ![Target(q)].status =
                  IF user[Target(q)].hasPassword THEN "ACTIVE" ELSE "INVITED"]
    /\ Acted(q) /\ Finish(q, "OK") /\ UNCHANGED <<token, session>>

\* reissueSetupToken deletes every unused token of the user, silences the pending mails to the
\* user's present address, and issues one more; it waits for a token row that is being redeemed.
Superseded(u, ts) ==
    [t \in Tokens |-> [ts[t] EXCEPT
       !.state = IF t \in OpenOf(u) THEN "deleted" ELSE ts[t].state,
       !.mail  = IF ts[t].to = user[u].email /\ ts[t].mail = "PENDING" THEN "SKIPPED" ELSE ts[t].mail]]
Reissue(q) ==
    LET u == Target(q) IN
    /\ At(q, "commit") /\ In(q).op \in {"invite", "reset"}
    /\ \A t \in OpenOf(u) : claim[t] = Nobody
    /\ Fresh # {}
    /\ token' = [Superseded(u, token) EXCEPT ![CHOOSE t \in Fresh : TRUE] = Issued(u, user[u].email)]
    /\ session' = IF In(q).op = "reset" THEN session \ {u} ELSE session
    /\ Acted(q) /\ Finish(q, "OK") /\ UNCHANGED user

\* deleteUser: sessions, account and tokens cascade, mails stay.
Delete(q) ==
    LET u == Target(q)
        Owned == {t \in Tokens : token[t].state # "none" /\ token[t].user = u}
    IN
    /\ At(q, "commit") /\ In(q).op = "delete"
    /\ \A t \in Owned : claim[t] = Nobody
    /\ user' = [user EXCEPT ![u] = [user[u] EXCEPT !.status = "NONE", !.hasPassword = FALSE]]
    /\ token' = [t \in Tokens |-> IF t \in Owned THEN [token[t] EXCEPT !.state = "deleted"] ELSE token[t]]
    /\ session' = session \ {u}
    /\ Acted(q) /\ Finish(q, "OK")

----------------------------------------------------------------------------
(* Import *)

\* Why a row is refused, apart from repeating an earlier accepted one.
Unacceptable(r, actor) ==
    \/ TakenBy(r.code, r.email)
    \/ r.code = actor /\ Exists(actor) /\ r.role \notin {"", user[actor].role}
Repeats(r, s) == s.code = r.code \/ s.email = r.email

\* The rows that are accepted: only an accepted one counts as seen by those below it.
Accepted(file, actor) ==
    LET good == {n \in 1..Len(file) : ~Unacceptable(file[n], actor)}
        ok[n \in 1..Len(file)] ==
          \A k \in 1..(n - 1) : k \in good /\ ok[k] => ~Repeats(file[n], file[k])
    IN {file[n] : n \in {k \in good : ok[k]}}

Merged(r) == [user[r.code] EXCEPT !.email = r.email,
                                  !.role = IF r.role = "" THEN user[r.code].role ELSE r.role]
Action(r) == IF ~Exists(r.code) THEN "CREATE"
             ELSE IF Merged(r) = user[r.code] THEN "SKIP" ELSE "UPDATE"
Planned(file, actor) ==
    {[row |-> r, action |-> Action(r)] : r \in Accepted(file, actor)}

\* classify reads without row locks, under the gate.
Classify(q) ==
    /\ At(q, "classify")
    /\ req' = [req EXCEPT ![q].pc = "apply", ![q].plan = Planned(In(q).file, req[q].actor)]
    /\ UNCHANGED <<db, locks>>

Rows(plan, action) == {p.row : p \in {x \in plan : x.action = action}}
Creations(q) == Rows(req[q].plan, "CREATE")
Changes(q)   == Rows(req[q].plan, "UPDATE")

\* Deviation: the batched UPDATE leaves the role out.
AfterKeepsRole(q) ==
    [u \in Users |->
       IF \E r \in Creations(q) : r.code = u
       THEN LET r == CHOOSE x \in Creations(q) : x.code = u
            IN NewUser(r.email, IF r.role = "" THEN "EMPLOYEE" ELSE r.role)
       ELSE IF \E r \in Changes(q) : r.code = u
       THEN [user[u] EXCEPT !.email = (CHOOSE x \in Changes(q) : x.code = u).email]
       ELSE user[u]]
After(q) ==
    [u \in Users |->
       IF \E r \in Creations(q) : r.code = u
       THEN LET r == CHOOSE x \in Creations(q) : x.code = u
            IN NewUser(r.email, IF r.role = "" THEN "EMPLOYEE" ELSE r.role)
       ELSE IF \E r \in Changes(q) : r.code = u THEN Merged(CHOOSE x \in Changes(q) : x.code = u)
       ELSE user[u]]

\* The batch meets a unique index: somebody else's row got in after the file was classified.
Collides(q) ==
    \/ \E r \in Creations(q) : Exists(r.code)
    \/ \E r \in Creations(q) \cup Changes(q) : TakenBy(r.code, r.email)

\* A token of its own for each creation.
Carriers(q) == {f \in [Creations(q) -> Fresh] : \A r, s \in Creations(q) : f[r] = f[s] => r = s}
Carrier(q)  == CHOOSE f \in Carriers(q) : TRUE

\* apply: creations with their tokens, then the changed rows under their locks, then the count
\* of administrators over the whole result; any failure undoes the file.
Apply(q) ==
    /\ At(q, "apply")
    /\ \A r \in Changes(q) : row[r.code] = Nobody
    /\ IF Collides(q) THEN Refuse(q, "DUPLICATE")
       ELSE IF Creations(q) \cup Changes(q) # {}
               /\ ~ \E u \in Users : After(q)[u].role = "ADMIN" /\ After(q)[u].status = "ACTIVE"
       THEN Refuse(q, "LAST_ADMIN")
       ELSE /\ Carriers(q) # {}
            /\ user' = After(q)
            /\ token' = [t \in Tokens |->
                 IF \E r \in Creations(q) : Carrier(q)[r] = t
                 THEN LET r == CHOOSE x \in Creations(q) : Carrier(q)[x] = t
                      IN Issued(r.code, r.email)
                 ELSE token[t]]
            /\ history' = IF Creations(q) \cup Changes(q) = {} THEN history
                          ELSE history \cup {req[q].actor}
            /\ Finish(q, "OK") /\ UNCHANGED session

----------------------------------------------------------------------------
(* set-password *)

\* failed_logins = 0, locked_until = NULL
Forgiven(u) == [u EXCEPT !.failed = 0, !.lock = "open"]

\* Deviation: the token is read and only marked at the end.
ClaimRead(q) ==
    /\ At(q, "claim")
    /\ IF token[req[q].tok].state = "open" THEN Goto(q, "password") /\ UNCHANGED <<db, locks>>
       ELSE Refuse(q, "TOKEN_EXPIRED")
\* The guarded UPDATE: one redeemer at a time, and only an open token.
Claim(q) ==
    LET t == req[q].tok IN
    /\ At(q, "claim") /\ claim[t] = Nobody
    /\ IF token[t].state = "open"
       THEN /\ claim' = [claim EXCEPT ![t] = q] /\ Goto(q, "password")
            /\ UNCHANGED <<db, gate, row>>
       ELSE Refuse(q, "TOKEN_EXPIRED")

\* The user row FOR UPDATE, then password, status, counters and sessions in one commit;
\* a disabled account is refused and the rollback gives the token back.
SetPassword(q) ==
    LET u == Target(q) IN
    /\ At(q, "password") /\ row[u] = Nobody
    /\ IF user[u].status = "DISABLED" THEN Refuse(q, "ACCOUNT_DISABLED")
       ELSE /\ user' = [user EXCEPT ![u] = [Forgiven(user[u]) EXCEPT !.status = "ACTIVE", !.hasPassword = TRUE]]
            /\ token' = [token EXCEPT ![req[q].tok].state = "used"]
            /\ session' = session \ {u}
            /\ Finish(q, "OK") /\ UNCHANGED history

\* A redeemer waits for the user row of a writer that waits for the redeemer's token row.
Cycle(p, q) ==
    /\ At(p, "password") /\ row[Target(p)] = q
    /\ At(q, "commit") /\ In(q).op \in {"invite", "reset", "delete"}

\* 40P01 for either of the two: its transaction is rolled back; withTx runs it once more and
\* answers 503 the second time.
Deadlock(q) ==
    /\ \E p \in Requests : Cycle(p, q) \/ Cycle(q, p)
    /\ Release(q)
    /\ req' = [req EXCEPT ![q] =
         IF req[q].tries > 0 THEN [req[q] EXCEPT !.pc = "done", !.answer = "INTERNAL"]
         ELSE [req[q] EXCEPT !.tries = 1, !.pc = IF At(q, "password") THEN "claim" ELSE "gate"]]
    /\ UNCHANGED db

----------------------------------------------------------------------------
(* Sign-in: separate statements on pooled connections, no transaction *)

\* The read of the row that decides how to go on.
Read(q) ==
    LET u == user[Target(q)] IN
    /\ At(q, "read")
    /\ CASE u.status = "NONE"     -> Answer(q, "INVALID_CREDENTIALS")
         [] u.status = "DISABLED" -> Answer(q, "ACCOUNT_DISABLED")
         [] u.status \in {"INVITED", "ACTIVE"} /\ u.lock = "locked" -> Answer(q, "ACCOUNT_LOCKED")
         [] u.status \in {"INVITED", "ACTIVE"} /\ u.lock = "lapsed" -> Goto(q, "restart")
         [] OTHER -> Goto(q, "verify")
    /\ UNCHANGED <<db, locks>>

\* An expired lock: the failure window restarts, whatever the row says by now.
Restart(q) ==
    LET u == Target(q) IN
    /\ At(q, "restart") /\ row[u] = Nobody
    /\ user' = IF Exists(u) THEN [user EXCEPT ![u] = Forgiven(user[u])] ELSE user
    /\ Goto(q, "verify") /\ UNCHANGED <<token, session, history, locks>>

\* better-auth compares the password and refuses a banned user before it makes a session.
Verify(q) ==
    LET u == Target(q) IN
    /\ At(q, "verify")
    /\ \/ user[u].hasPassword /\ user[u].status # "DISABLED" /\ Goto(q, "session")
       \/ user[u].hasPassword /\ user[u].status = "DISABLED" /\ Answer(q, "ACCOUNT_DISABLED")
       \/ Goto(q, "miss")
    /\ UNCHANGED <<db, locks>>

\* The session row refers to the user row: it waits for that row's lock and fails without it.
OpenSession(q) ==
    LET u == Target(q) IN
    /\ At(q, "session") /\ row[u] = Nobody
    /\ IF Exists(u) THEN session' = session \cup {u} /\ Goto(q, "enter")
                    ELSE session' = session /\ Answer(q, "INTERNAL")
    /\ UNCHANGED <<user, token, history, locks>>

\* Success clears the counter and leaves an audit row, which refers to the user row too.
Enter(q) ==
    LET u == Target(q) IN
    /\ At(q, "enter") /\ row[u] = Nobody
    /\ IF Exists(u)
       THEN /\ user' = [user EXCEPT ![u] = Forgiven(user[u])]
            /\ history' = history \cup {u} /\ Answer(q, "OK")
       ELSE Answer(q, "INTERNAL") /\ UNCHANGED <<user, history>>
    /\ UNCHANGED <<token, session, locks>>

Missed(u, n) == [u EXCEPT !.failed = n, !.lock = IF n >= Limit THEN "locked" ELSE u.lock]

\* failed_logins + 1 inside the statement, and the lock from the same sum.
Miss(q) ==
    LET u == Target(q) IN
    /\ At(q, "miss") /\ row[u] = Nobody
    /\ user' = IF ~Exists(u) THEN user
               ELSE [user EXCEPT ![u] = Missed(user[u], user[u].failed + 1)]
    /\ Answer(q, "INVALID_CREDENTIALS") /\ UNCHANGED <<token, session, history, locks>>

----------------------------------------------------------------------------
(* The world around the requests *)

\* The mail worker delivers (Outbox), fifteen minutes pass over a lock, days over a token.
Send(t) ==
    /\ token[t].mail = "PENDING" /\ token' = [token EXCEPT ![t].mail = "SENT"]
    /\ UNCHANGED <<user, session, history, locks, req>>
Lapse(u) ==
    /\ user[u].lock = "locked" /\ user' = [user EXCEPT ![u].lock = "lapsed"]
    /\ UNCHANGED <<token, session, history, locks, req>>
Expire(t) ==
    /\ token[t].state = "open" /\ claim[t] = Nobody
    /\ token' = [token EXCEPT ![t].state = "expired"]
    /\ UNCHANGED <<user, session, history, locks, req>>

\* maintenance.daily: expired and used tokens go (an expired session row was already useless).
Maintain ==
    /\ \E t \in Tokens : token[t].state \in {"expired", "used"}
    /\ token' = [t \in Tokens |-> IF token[t].state \in {"expired", "used"}
                                  THEN [token[t] EXCEPT !.state = "deleted"] ELSE token[t]]
    /\ UNCHANGED <<user, session, history, locks, req>>

----------------------------------------------------------------------------
Arrive(q) == \E i \in Menu[q] : \/ \E a \in Users : Submit(q, i, a)
                             \/ \E t \in Tokens : Follow(q, i, t)
                             \/ Knock(q, i)
Administer(q) ==
    \/ TakeGate(q) \/ LockTarget(q) \/ Check(q) \/ Create(q) \/ Patch(q) \/ Deactivate(q)
    \/ Reactivate(q) \/ Reissue(q) \/ Delete(q) \/ Classify(q) \/ Apply(q)
Redeem(q)  == Claim(q) \/ SetPassword(q)
SignIn(q)  == Read(q) \/ Restart(q) \/ Verify(q) \/ OpenSession(q) \/ Enter(q) \/ Miss(q)
Work(q)    == Administer(q) \/ Redeem(q) \/ SignIn(q) \/ Deadlock(q)
World ==
    \/ \E t \in Tokens : Send(t) \/ Expire(t)
    \/ \E u \in Users : Lapse(u)
    \/ Maintain

Next == World \/ \E q \in Requests : Arrive(q) \/ Work(q)
Spec == Init /\ [][Next]_vars

----------------------------------------------------------------------------
(* Properties *)

\* Every variable keeps its shape; the answers are the codes of lib/errors.ts.
TypeOK ==
    /\ user \in [Users -> UserRow]
    /\ token \in [Tokens -> Token]
    /\ session \subseteq Users /\ history \subseteq Users
    /\ gate \in Requests \cup {Nobody}
    /\ row \in [Users -> Requests \cup {Nobody}]
    /\ claim \in [Tokens -> Requests \cup {Nobody}]
    /\ req \in [Requests -> Request]

\* Whatever administrators do to each other at once, by screen or by file, one who can act
\* remains (U-01, service.ts LAST_ADMIN_LOCK).
OneAdminStays == \E u \in Users : IsAdmin(u)

\* A link opens an account once, however many browsers follow it at the same time.
LinkWorksOnce ==
    \A p, q \in Requests :
        /\ req[p].tok # Nobody /\ req[p].tok = req[q].tok
        /\ req[p].answer = "OK" /\ req[q].answer = "OK"
        => p = q

\* A file that was classified under the gate never meets somebody else's row on a unique
\* index: one row's error must not undo the whole file (U-07, the comment in createUser).
ImportNeverCollides ==
    \A q \in Requests : In(q).op = "import" => req[q].answer # "DUPLICATE"

\* The accepted rows of a file are settled by it: classified again they are all skipped.
ImportSettles ==
    [][\A q \in Requests :
         /\ req[q].pc = "apply" /\ req'[q].pc = "done" /\ req'[q].answer = "OK"
         => \A p \in req[q].plan : Action(p.row)' = "SKIP"]_vars

=============================================================================
