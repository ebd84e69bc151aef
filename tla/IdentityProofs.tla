-------------------------- MODULE IdentityProofs ---------------------------
(***************************************************************************)
(* For any set of users, tokens, requests and files, of any length:        *)
(*   - the types of Identity;                                              *)
(*   - an active administrator always remains: the gate makes one          *)
(*     administrator's decision and commit exclude another's, and the row  *)
(*     lock keeps set-password, which takes no gate, from activating a     *)
(*     target between the decision and the commit;                         *)
(*   - a link sets one password: a redeemer past its claim holds an open   *)
(*     token nobody else can spend, expire or delete;                      *)
(*   - a file applies without meeting a unique index and settles its rows: *)
(*     what it was classified on stays true under the gate, since outside  *)
(*     it nobody changes who is there, their address or their role.        *)
(***************************************************************************)
EXTENDS Identity, TLAPS, WellFoundedInduction

Admin == {"gate", "row", "check", "commit", "classify", "apply"}
Inside == Admin \ {"gate"}

\* An administrative request has an actor.
Actors == \A q \in Requests : req[q].pc \in Admin => req[q].actor \in Users

Others(q) == \A p \in Requests \ {q} : req'[p] = req[p]

(* Types *)

LEMMA InputShape ==
    ASSUME TypeOK, NEW q \in Requests
    PROVE  /\ In(q) \in Input /\ Target(q) \in Users
           /\ In(q).op \in Ops /\ In(q).role \in Roles \cup {""} /\ In(q).email \in Emails \cup {""}
           /\ In(q).op = "create" => In(q).email \in Emails
           /\ In(q).file \in Seq(FileRow)
<1>1. req[q] \in Request
  BY DEF TypeOK
<1>2. QED
  BY <1>1 DEF In, Target, Request, Input

LEMMA ReleaseType ==
    ASSUME TypeOK, NEW q \in Requests, Release(q)
    PROVE  /\ gate' \in Requests \cup {Nobody}
           /\ row' \in [Users -> Requests \cup {Nobody}]
           /\ claim' \in [Tokens -> Requests \cup {Nobody}]
BY DEF TypeOK, Release

LEMMA GotoType ==
    ASSUME TypeOK, NEW q \in Requests, NEW pc \in PCs, Goto(q, pc)
    PROVE  /\ req' \in [Requests -> Request] /\ Others(q)
           /\ req'[q] = [req[q] EXCEPT !.pc = pc]
           /\ req'[q].pc = pc /\ req'[q].in = req[q].in /\ req'[q].actor = req[q].actor
<1>1. req[q] \in Request
  BY DEF TypeOK
<1>2. [req[q] EXCEPT !.pc = pc] \in Request
  BY <1>1 DEF Request
<1>3. QED
  BY <1>1, <1>2 DEF TypeOK, Goto, Others, Request

LEMMA AnswerType ==
    ASSUME TypeOK, NEW q \in Requests, NEW code \in Codes, Answer(q, code)
    PROVE  /\ req' \in [Requests -> Request] /\ Others(q)
           /\ req'[q].pc = "done" /\ req'[q].in = req[q].in
<1>1. req[q] \in Request
  BY DEF TypeOK
<1>2. [req[q] EXCEPT !.pc = "done", !.answer = code] \in Request
  BY <1>1 DEF Request, PCs
<1>3. QED
  BY <1>1, <1>2 DEF TypeOK, Answer, Others, Request

LEMMA RefuseType ==
    ASSUME TypeOK, NEW q \in Requests, NEW code \in Codes, Refuse(q, code)
    PROVE  TypeOK'
BY ReleaseType, AnswerType DEF TypeOK, Refuse, Finish, db

LEMMA FinishType ==
    ASSUME TypeOK, NEW q \in Requests, Finish(q, "OK"),
           user' \in [Users -> UserRow], token' \in [Tokens -> Token],
           session' \subseteq Users, history' \subseteq Users
    PROVE  TypeOK'
BY ReleaseType, AnswerType DEF TypeOK, Finish, Codes

LEMMA ActorsKept ==
    ASSUME Actors, NEW q \in Requests, Others(q), req'[q].pc \in Admin => req'[q].actor \in Users
    PROVE  Actors'
BY DEF Actors, Others

LEMMA ActedType ==
    ASSUME TypeOK, Actors, NEW q \in Requests, Acted(q), req[q].pc \in Admin
    PROVE  history' \subseteq Users
BY DEF TypeOK, Actors, Acted

LEMMA EndKeepsActors ==
    ASSUME TypeOK, Actors, NEW q \in Requests, NEW code \in Codes, Answer(q, code)
    PROVE  Actors'
BY AnswerType, ActorsKept DEF Admin

LEMMA RefuseTyped ==
    ASSUME TypeOK, Actors, NEW q \in Requests, NEW code \in Codes, Refuse(q, code)
    PROVE  TypeOK' /\ Actors'
BY RefuseType, EndKeepsActors DEF Refuse, Finish

LEMMA FinishTyped ==
    ASSUME TypeOK, Actors, NEW q \in Requests, Finish(q, "OK"),
           user' \in [Users -> UserRow], token' \in [Tokens -> Token],
           session' \subseteq Users, history' \subseteq Users
    PROVE  TypeOK' /\ Actors'
BY FinishType, EndKeepsActors DEF Finish, Codes

LEMMA GotoTyped ==
    ASSUME TypeOK, Actors, NEW q \in Requests, NEW pc \in PCs, Goto(q, pc),
           pc \in Admin => req[q].pc \in Admin
    PROVE  req' \in [Requests -> Request] /\ Actors'
<1>1. Others(q) /\ req'[q].pc = pc /\ req'[q].actor = req[q].actor
  BY GotoType
<1>2. pc \in Admin => req[q].actor \in Users
  BY DEF Actors
<1>3. QED
  BY <1>1, <1>2, GotoType, ActorsKept

LEMMA IssuedType ==
    ASSUME NEW u \in Users, NEW e \in Emails
    PROVE  Issued(u, e) \in Token
BY DEF Issued, Token

LEMMA NewUserType ==
    ASSUME NEW e \in Emails, NEW r \in Roles
    PROVE  NewUser(e, r) \in UserRow
BY DEF NewUser, UserRow, Status

LEMMA UserOf ==
    ASSUME TypeOK, NEW u \in Users
    PROVE  /\ user[u] \in UserRow /\ user[u].email \in Emails /\ user[u].role \in Roles
           /\ user[u].status \in Status /\ user[u].failed \in Nat
BY DEF TypeOK, UserRow

----------------------------------------------------------------------------
(* Arrivals *)

LEMMA SubmitTyped ==
    ASSUME TypeOK, Actors, NEW q \in Requests, NEW i \in Menu[q], NEW a \in Users, Submit(q, i, a)
    PROVE  TypeOK' /\ Actors'
<1>1. i \in Input
  BY InputsAssumption
<1>3. /\ req' = [req EXCEPT ![q] = req'[q]] /\ req'[q] \in Request /\ Others(q)
      /\ req'[q].pc \in {"done", "gate"} /\ req'[q].actor = a
  BY <1>1 DEF Submit, TypeOK, Idle, Request, PCs, Codes, Others
<1>4. req' \in [Requests -> Request]
  BY <1>3 DEF TypeOK
<1>5. QED
  BY <1>3, <1>4, ActorsKept DEF TypeOK, Submit, db, locks, vars

LEMMA FollowTyped ==
    ASSUME TypeOK, Actors, NEW q \in Requests, NEW i \in Menu[q], NEW t \in Tokens, Follow(q, i, t)
    PROVE  TypeOK' /\ Actors'
<1>1. i \in Input /\ i.op = "setPassword" /\ token[t].user \in Users
  BY InputsAssumption DEF Follow, TypeOK, Token
<1>2. [i EXCEPT !.target = token[t].user] \in Input
  BY <1>1 DEF Input
<1>3. /\ req' = [req EXCEPT ![q] = req'[q]] /\ req'[q] \in Request /\ Others(q)
      /\ req'[q].pc = "claim"
  BY <1>2 DEF Follow, TypeOK, Idle, Request, PCs, Codes, Others
<1>4. req' \in [Requests -> Request]
  BY <1>3 DEF TypeOK
<1>5. QED
  BY <1>3, <1>4, ActorsKept DEF TypeOK, Follow, db, locks, Admin

LEMMA KnockTyped ==
    ASSUME TypeOK, Actors, NEW q \in Requests, NEW i \in Menu[q], Knock(q, i)
    PROVE  TypeOK' /\ Actors'
<1>1. i \in Input
  BY InputsAssumption
<1>3. /\ req' = [req EXCEPT ![q] = req'[q]] /\ req'[q] \in Request /\ Others(q)
      /\ req'[q].pc = "read"
  BY <1>1 DEF Knock, TypeOK, Idle, Request, PCs, Codes, Others
<1>4. req' \in [Requests -> Request]
  BY <1>3 DEF TypeOK
<1>5. QED
  BY <1>3, <1>4, ActorsKept DEF TypeOK, Knock, db, locks, Admin

----------------------------------------------------------------------------
(* Administration *)

LEMMA TakeGateTyped ==
    ASSUME TypeOK, Actors, NEW q \in Requests, TakeGate(q)
    PROVE  TypeOK' /\ Actors'
<1>1. PICK pc \in {"commit", "classify", "row"} : Goto(q, pc)
  BY DEF TakeGate
<1>2. pc \in PCs /\ (pc \in Admin => req[q].pc \in Admin)
  BY DEF TakeGate, At, PCs, Admin
<1>3. QED
  BY <1>1, <1>2, GotoTyped DEF TakeGate, TypeOK, db

LEMMA LockTargetTyped ==
    ASSUME TypeOK, Actors, NEW q \in Requests, LockTarget(q)
    PROVE  TypeOK' /\ Actors'
<1>1. CASE Refuse(q, "NOT_FOUND")
  BY <1>1, RefuseTyped DEF Codes
<1>2. CASE Goto(q, "check") /\ row' = [row EXCEPT ![Target(q)] = q] /\ UNCHANGED <<db, gate, claim>>
  <2>1. req[q].pc \in Admin /\ "check" \in PCs
    BY DEF LockTarget, At, Admin, PCs
  <2>2. req' \in [Requests -> Request] /\ Actors'
    BY <1>2, <2>1, GotoTyped
  <2>3. QED
    BY <1>2, <2>2 DEF TypeOK, db
<1>3. QED
  BY <1>1, <1>2 DEF LockTarget

LEMMA CheckTyped ==
    ASSUME TypeOK, Actors, NEW q \in Requests, Check(q)
    PROVE  TypeOK' /\ Actors'
<1>1. ASSUME NEW code \in Codes, Refuse(q, code) PROVE TypeOK' /\ Actors'
  BY <1>1, RefuseTyped
<1>2. CASE Goto(q, "commit") /\ UNCHANGED <<db, locks>>
  <2>1. req[q].pc \in Admin /\ "commit" \in PCs
    BY DEF Check, At, Admin, PCs
  <2>2. req' \in [Requests -> Request] /\ Actors'
    BY <1>2, <2>1, GotoTyped
  <2>3. QED
    BY <1>2, <2>2 DEF TypeOK, db, locks
<1>3. QED
  BY <1>1, <1>2 DEF Check, Codes

LEMMA CreateTyped ==
    ASSUME TypeOK, Actors, NEW q \in Requests, Create(q)
    PROVE  TypeOK' /\ Actors'
<1>1. CASE Refuse(q, "DUPLICATE")
  BY <1>1, RefuseTyped DEF Codes
<1>2. CASE /\ user' = [user EXCEPT ![Target(q)] = NewUser(In(q).email, "EMPLOYEE")]
           /\ token' = [token EXCEPT ![CHOOSE t \in Fresh : TRUE] = Issued(Target(q), In(q).email)]
           /\ Acted(q) /\ Finish(q, "OK") /\ UNCHANGED session
  <2>1. Target(q) \in Users /\ In(q).email \in Emails /\ req[q].pc \in Admin /\ "EMPLOYEE" \in Roles
    BY InputShape DEF Create, At, Admin, Roles
  <2>2. NewUser(In(q).email, "EMPLOYEE") \in UserRow /\ Issued(Target(q), In(q).email) \in Token
    BY <2>1, NewUserType, IssuedType
  <2>3. history' \subseteq Users
    BY <1>2, <2>1, ActedType
  <2>4. QED
    BY <1>2, <2>2, <2>3, FinishTyped DEF TypeOK
<1>3. QED
  BY <1>1, <1>2 DEF Create

LEMMA PatchTyped ==
    ASSUME TypeOK, Actors, NEW q \in Requests, Patch(q)
    PROVE  TypeOK' /\ Actors'
<1>1. CASE Refuse(q, "DUPLICATE")
  BY <1>1, RefuseTyped DEF Codes
<1>2. CASE /\ user' = [user EXCEPT ![Target(q)] = Patched(user[Target(q)], In(q))]
           /\ Acted(q) /\ Finish(q, "OK") /\ UNCHANGED <<token, session>>
  <2>1. Target(q) \in Users /\ In(q).email \in Emails \cup {""} /\ In(q).role \in Roles \cup {""}
        /\ req[q].pc \in Admin
    BY InputShape DEF Patch, At, Admin
  <2>2. Patched(user[Target(q)], In(q)) \in UserRow
    BY <2>1, UserOf DEF UserRow, Patched
  <2>5. user' \in [Users -> UserRow]
    BY <1>2, <2>1, <2>2 DEF TypeOK
  <2>3. history' \subseteq Users
    BY <1>2, <2>1, ActedType
  <2>4. QED
    BY <1>2, <2>5, <2>3, FinishTyped DEF TypeOK
<1>3. QED
  BY <1>1, <1>2 DEF Patch

LEMMA DeactivateTyped ==
    ASSUME TypeOK, Actors, NEW q \in Requests, Deactivate(q)
    PROVE  TypeOK' /\ Actors'
<1>1. Target(q) \in Users /\ req[q].pc \in Admin
  BY InputShape DEF Deactivate, At, Admin
<1>2. user' \in [Users -> UserRow] /\ session' \subseteq Users
  BY <1>1, UserOf DEF Deactivate, TypeOK, UserRow, Status
<1>3. history' \subseteq Users
  BY <1>1, ActedType DEF Deactivate
<1>4. QED
  BY <1>2, <1>3, FinishTyped DEF TypeOK, Deactivate

LEMMA ReactivateTyped ==
    ASSUME TypeOK, Actors, NEW q \in Requests, Reactivate(q)
    PROVE  TypeOK' /\ Actors'
<1>1. Target(q) \in Users /\ req[q].pc \in Admin
  BY InputShape DEF Reactivate, At, Admin
<1>2. user' \in [Users -> UserRow]
  BY <1>1, UserOf DEF Reactivate, TypeOK, UserRow, Status
<1>3. history' \subseteq Users
  BY <1>1, ActedType DEF Reactivate
<1>4. QED
  BY <1>2, <1>3, FinishTyped DEF TypeOK, Reactivate

LEMMA ReissueTyped ==
    ASSUME TypeOK, Actors, NEW q \in Requests, Reissue(q)
    PROVE  TypeOK' /\ Actors'
<1>1. Target(q) \in Users /\ req[q].pc \in Admin /\ user[Target(q)].email \in Emails
  BY InputShape, UserOf DEF Reissue, At, Admin
<1>2. Superseded(Target(q), token) \in [Tokens -> Token]
  BY DEF Superseded, TypeOK, Token
<1>3. token' \in [Tokens -> Token]
  BY <1>1, <1>2, IssuedType DEF Reissue
<1>4. history' \subseteq Users /\ session' \subseteq Users
  BY <1>1, ActedType DEF Reissue, TypeOK
<1>5. QED
  BY <1>3, <1>4, FinishTyped DEF TypeOK, Reissue

LEMMA DeleteTyped ==
    ASSUME TypeOK, Actors, NEW q \in Requests, Delete(q)
    PROVE  TypeOK' /\ Actors'
<1>1. Target(q) \in Users /\ req[q].pc \in Admin
  BY InputShape DEF Delete, At, Admin
<1>2. user' \in [Users -> UserRow]
  BY <1>1, UserOf DEF Delete, TypeOK, UserRow, Status
<1>3. token' \in [Tokens -> Token]
  BY DEF Delete, TypeOK, Token
<1>4. history' \subseteq Users /\ session' \subseteq Users
  BY <1>1, ActedType DEF Delete, TypeOK
<1>5. QED
  BY <1>2, <1>3, <1>4, FinishTyped DEF Delete

LEMMA ClassifyTyped ==
    ASSUME TypeOK, Actors, NEW q \in Requests, Classify(q)
    PROVE  TypeOK' /\ Actors'
<1>1. req[q] \in Request /\ req[q].pc \in Admin /\ In(q).file \in Seq(FileRow)
  BY InputShape DEF TypeOK, Classify, At, Admin
<1>2. Accepted(In(q).file, req[q].actor) \subseteq FileRow
  BY <1>1 DEF Accepted
<1>3. Planned(In(q).file, req[q].actor) \in SUBSET Plan
  BY <1>2 DEF Planned, Plan, Action
<1>4. [req[q] EXCEPT !.pc = "apply", !.plan = Planned(In(q).file, req[q].actor)] \in Request
  BY <1>1, <1>3 DEF Request, PCs
<1>5. req' \in [Requests -> Request] /\ Others(q) /\ req'[q].actor = req[q].actor
  BY <1>1, <1>4 DEF Classify, TypeOK, Others, Request
<1>6. Actors'
  BY <1>1, <1>5, ActorsKept DEF Actors
<1>7. QED
  BY <1>5, <1>6 DEF TypeOK, Classify, db, locks

LEMMA PlanShape ==
    ASSUME TypeOK, NEW q \in Requests
    PROVE  Creations(q) \subseteq FileRow /\ Changes(q) \subseteq FileRow
<1>1. req[q].plan \subseteq Plan
  BY DEF TypeOK, Request
<1>2. QED
  BY <1>1 DEF Creations, Changes, Rows, Plan

LEMMA AfterType ==
    ASSUME TypeOK, NEW q \in Requests
    PROVE  After(q) \in [Users -> UserRow]
<1>1. ASSUME NEW r \in FileRow PROVE Merged(r) \in UserRow
  BY UserOf DEF FileRow, Merged, UserRow
<1>2. ASSUME NEW r \in FileRow PROVE NewUser(r.email, IF r.role = "" THEN "EMPLOYEE" ELSE r.role) \in UserRow
  BY NewUserType DEF FileRow, Roles
<1>3. ASSUME NEW u \in Users PROVE After(q)[u] \in UserRow
  <2>1. CASE \E r \in Creations(q) : r.code = u
    BY <2>1, <1>2, PlanShape DEF After
  <2>2. CASE ~(\E r \in Creations(q) : r.code = u) /\ \E r \in Changes(q) : r.code = u
    BY <2>2, <1>1, PlanShape DEF After
  <2>3. QED
    BY <2>1, <2>2, UserOf DEF After
<1>4. QED
  BY <1>3 DEF After

LEMMA ApplyTyped ==
    ASSUME TypeOK, Actors, NEW q \in Requests, Apply(q)
    PROVE  TypeOK' /\ Actors'
<1>1. CASE Refuse(q, "DUPLICATE") \/ Refuse(q, "LAST_ADMIN")
  BY <1>1, RefuseTyped DEF Codes
<1>2. CASE ~(Refuse(q, "DUPLICATE") \/ Refuse(q, "LAST_ADMIN"))
  <2>1. req[q].actor \in Users
    BY DEF Apply, At, Actors, Admin
  <2>2. user' \in [Users -> UserRow] /\ session' \subseteq Users /\ Finish(q, "OK")
    BY <1>2, AfterType DEF Apply, TypeOK
  <2>3. history' \subseteq Users
    BY <1>2, <2>1 DEF Apply, TypeOK
  <2>4. token' \in [Tokens -> Token]
    <3>1. ASSUME NEW r \in Creations(q) PROVE Issued(r.code, r.email) \in Token
      BY PlanShape, IssuedType DEF FileRow
    <3>2. QED
      BY <1>2, <3>1 DEF Apply, TypeOK
  <2>5. QED
    BY <2>2, <2>3, <2>4, FinishTyped
<1>3. QED
  BY <1>1, <1>2

----------------------------------------------------------------------------
(* Redeeming and signing in *)

LEMMA CountedTypes ==
    ASSUME NEW r \in UserRow, NEW n \in Nat
    PROVE  /\ Forgiven(r) \in UserRow /\ Missed(r, n) \in UserRow
           /\ [Forgiven(r) EXCEPT !.status = "ACTIVE", !.hasPassword = TRUE] \in UserRow
<1>1. Forgiven(r) \in UserRow
  BY DEF Forgiven, UserRow
<1>2. Missed(r, n) \in UserRow
  BY DEF Missed, UserRow
<1>3. QED
  BY <1>1, <1>2 DEF UserRow, Status

LEMMA ClaimTyped ==
    ASSUME TypeOK, Actors, NEW q \in Requests, Claim(q)
    PROVE  TypeOK' /\ Actors'
<1>1. CASE Refuse(q, "TOKEN_EXPIRED")
  BY <1>1, RefuseTyped DEF Codes
<1>2. CASE /\ claim' = [claim EXCEPT ![req[q].tok] = q] /\ Goto(q, "password")
           /\ UNCHANGED <<db, gate, row>>
  <2>1. req' \in [Requests -> Request] /\ Actors'
    BY <1>2, GotoTyped DEF Claim, PCs, Admin
  <2>2. QED
    BY <1>2, <2>1 DEF TypeOK, db
<1>3. QED
  BY <1>1, <1>2 DEF Claim

LEMMA SetPasswordTyped ==
    ASSUME TypeOK, Actors, NEW q \in Requests, SetPassword(q)
    PROVE  TypeOK' /\ Actors'
<1>1. CASE Refuse(q, "ACCOUNT_DISABLED")
  BY <1>1, RefuseTyped DEF Codes
<1>2. CASE ~Refuse(q, "ACCOUNT_DISABLED")
  <2>1. Target(q) \in Users
    BY InputShape
  <2>2. [Forgiven(user[Target(q)]) EXCEPT !.status = "ACTIVE", !.hasPassword = TRUE] \in UserRow
    BY <2>1, UserOf, CountedTypes
  <2>5. user' \in [Users -> UserRow]
    BY <1>2, <2>2 DEF SetPassword, TypeOK
  <2>3. token' \in [Tokens -> Token]
    BY <1>2 DEF SetPassword, TypeOK, Token
  <2>4. QED
    BY <1>2, <2>5, <2>3, FinishTyped DEF SetPassword, TypeOK
<1>3. QED
  BY <1>1, <1>2

LEMMA DeadlockTyped ==
    ASSUME TypeOK, Actors, NEW q \in Requests, Deadlock(q)
    PROVE  TypeOK' /\ Actors'
<1>1. req[q] \in Request
  BY DEF TypeOK
<1>2. req'[q] \in Request /\ Others(q) /\ req'[q].actor = req[q].actor
      /\ (req'[q].pc \in Admin => req[q].pc \in Admin)
  <2>1. \/ req[q].tries > 0 /\ req'[q] = [req[q] EXCEPT !.pc = "done", !.answer = "INTERNAL"]
        \/ req'[q] = [req[q] EXCEPT !.tries = 1, !.pc = "claim"] /\ req[q].pc = "password"
        \/ req'[q] = [req[q] EXCEPT !.tries = 1, !.pc = "gate"] /\ req[q].pc # "password"
    BY DEF Deadlock, TypeOK, At
  <2>2. Others(q)
    BY DEF Deadlock, TypeOK, Others
  <2>3. PICK p \in Requests : Cycle(p, q) \/ Cycle(q, p)
    BY DEF Deadlock
  <2>4. req[q].pc \in {"commit", "password"}
    BY <2>3 DEF Cycle, At
  <2>5. req'[q] \in Request /\ req'[q].actor = req[q].actor
    BY <1>1, <2>1 DEF Request, PCs, Codes
  <2>6. req'[q].pc \in Admin => req[q].pc \in Admin
    <3>1. CASE req[q].pc = "commit"
      BY <3>1 DEF Admin
    <3>2. CASE req[q].pc = "password"
      BY <3>2, <1>1, <2>1 DEF Request, Admin
    <3>3. QED
      BY <2>4, <3>1, <3>2
  <2>7. QED
    BY <2>2, <2>5, <2>6
<1>3. req' \in [Requests -> Request]
  BY <1>2 DEF Deadlock, TypeOK
<1>4. Actors'
  BY <1>2, ActorsKept DEF Actors
<1>5. QED
  BY <1>3, <1>4, ReleaseType DEF Deadlock, TypeOK, db

LEMMA ReadTyped ==
    ASSUME TypeOK, Actors, NEW q \in Requests, Read(q)
    PROVE  TypeOK' /\ Actors'
<1>1. ASSUME NEW code \in Codes, Answer(q, code) PROVE req' \in [Requests -> Request] /\ Actors'
  BY <1>1, AnswerType, EndKeepsActors
<1>2. ASSUME NEW pc \in {"restart", "verify"}, Goto(q, pc) PROVE req' \in [Requests -> Request] /\ Actors'
  BY <1>2, GotoTyped DEF PCs, Admin
<1>3. \/ \E code \in Codes : Answer(q, code)
      \/ \E pc \in {"restart", "verify"} : Goto(q, pc)
  BY DEF Read, Codes
<1>4. QED
  BY <1>1, <1>2, <1>3 DEF Read, TypeOK, db, locks

LEMMA VerifyTyped ==
    ASSUME TypeOK, Actors, NEW q \in Requests, Verify(q)
    PROVE  TypeOK' /\ Actors'
<1>1. ASSUME Answer(q, "ACCOUNT_DISABLED") PROVE req' \in [Requests -> Request] /\ Actors'
  BY <1>1, AnswerType, EndKeepsActors DEF Codes
<1>2. ASSUME NEW pc \in {"session", "miss"}, Goto(q, pc) PROVE req' \in [Requests -> Request] /\ Actors'
  BY <1>2, GotoTyped DEF PCs, Admin
<1>4. QED
  BY <1>1, <1>2 DEF Verify, TypeOK, db, locks

LEMMA RestartTyped ==
    ASSUME TypeOK, Actors, NEW q \in Requests, Restart(q)
    PROVE  TypeOK' /\ Actors'
<1>1. req' \in [Requests -> Request] /\ Actors'
  BY GotoTyped DEF Restart, PCs, Admin
<1>2. user' \in [Users -> UserRow]
  BY InputShape, UserOf, CountedTypes DEF Restart, TypeOK
<1>3. QED
  BY <1>1, <1>2 DEF Restart, TypeOK, locks

LEMMA OpenSessionTyped ==
    ASSUME TypeOK, Actors, NEW q \in Requests, OpenSession(q)
    PROVE  TypeOK' /\ Actors'
<1>0. Target(q) \in Users
  BY InputShape
<1>1. session' \subseteq Users
  BY <1>0 DEF OpenSession, TypeOK
<1>2. CASE Goto(q, "enter")
  <2>1. req' \in [Requests -> Request] /\ Actors'
    BY <1>2, GotoTyped DEF PCs, Admin
  <2>2. QED
    BY <1>1, <2>1 DEF OpenSession, TypeOK, locks
<1>3. CASE Answer(q, "INTERNAL")
  <2>1. req' \in [Requests -> Request] /\ Actors'
    BY <1>3, AnswerType, EndKeepsActors DEF Codes
  <2>2. QED
    BY <1>1, <2>1 DEF OpenSession, TypeOK, locks
<1>4. QED
  BY <1>2, <1>3 DEF OpenSession

LEMMA EnterTyped ==
    ASSUME TypeOK, Actors, NEW q \in Requests, Enter(q)
    PROVE  TypeOK' /\ Actors'
<1>1. PICK code \in Codes : Answer(q, code)
  BY DEF Enter, Codes
<1>2. req' \in [Requests -> Request] /\ Actors'
  BY <1>1, AnswerType, EndKeepsActors
<1>3. user' \in [Users -> UserRow] /\ history' \subseteq Users
  BY InputShape, UserOf, CountedTypes DEF Enter, TypeOK
<1>4. QED
  BY <1>2, <1>3 DEF Enter, TypeOK, locks

LEMMA MissTyped ==
    ASSUME TypeOK, Actors, NEW q \in Requests, Miss(q)
    PROVE  TypeOK' /\ Actors'
<1>1. req' \in [Requests -> Request] /\ Actors'
  BY AnswerType, EndKeepsActors DEF Miss, Codes
<1>2. Target(q) \in Users /\ user[Target(q)] \in UserRow /\ user[Target(q)].failed + 1 \in Nat
  <2>1. Target(q) \in Users
    BY InputShape
  <2>2. user[Target(q)] \in UserRow /\ user[Target(q)].failed \in Nat
    BY <2>1, UserOf
  <2>3. QED
    BY <2>1, <2>2
<1>3. user' \in [Users -> UserRow]
  BY <1>2, UserOf, CountedTypes DEF Miss, TypeOK
<1>4. QED
  BY <1>1, <1>3 DEF Miss, TypeOK, locks

LEMMA WorldTyped ==
    ASSUME TypeOK, Actors, World
    PROVE  TypeOK' /\ Actors'
<1>1. UNCHANGED <<session, history, locks, req>>
  BY DEF World, Send, Expire, Lapse, Maintain
<1>2. Actors'
  BY <1>1 DEF Actors
<1>3. user' \in [Users -> UserRow]
  BY DEF World, Send, Expire, Lapse, Maintain, TypeOK, UserRow
<1>4. token' \in [Tokens -> Token]
  BY DEF World, Send, Expire, Lapse, Maintain, TypeOK, Token
<1>5. QED
  BY <1>1, <1>2, <1>3, <1>4 DEF TypeOK, locks

LEMMA NextTyped ==
    ASSUME TypeOK, Actors, [Next]_vars
    PROVE  TypeOK' /\ Actors'
<1>1. CASE World
  BY <1>1, WorldTyped
<1>2. ASSUME NEW q \in Requests, Arrive(q) PROVE TypeOK' /\ Actors'
  BY <1>2, SubmitTyped, FollowTyped, KnockTyped DEF Arrive
<1>3. ASSUME NEW q \in Requests, Administer(q) PROVE TypeOK' /\ Actors'
  BY <1>3, TakeGateTyped, LockTargetTyped, CheckTyped, CreateTyped, PatchTyped, DeactivateTyped,
     ReactivateTyped, ReissueTyped, DeleteTyped, ClassifyTyped, ApplyTyped DEF Administer
<1>4. ASSUME NEW q \in Requests, Redeem(q) \/ SignIn(q) \/ Deadlock(q) PROVE TypeOK' /\ Actors'
  BY <1>4, ClaimTyped, SetPasswordTyped, ReadTyped, RestartTyped, VerifyTyped, OpenSessionTyped,
     EnterTyped, MissTyped, DeadlockTyped DEF Redeem, SignIn
<1>5. CASE UNCHANGED vars
  BY <1>5 DEF vars, TypeOK, Actors
<1>6. QED
  BY <1>1, <1>2, <1>3, <1>4, <1>5 DEF Next, Work

LEMMA InitTyped ==
    ASSUME Init
    PROVE  TypeOK /\ Actors
<1>1. NoInput \in Input
  <2>1. PICK u \in Users : NoInput = [op |-> "signIn", target |-> u, role |-> "", email |-> "", file |-> <<>>]
    BY SeedAssumption DEF NoInput
  <2>2. <<>> \in Seq(FileRow) /\ "signIn" \in Ops
    BY DEF Ops
  <2>3. QED
    BY <2>1, <2>2 DEF Input
<1>2. Idle \in Request /\ Idle.pc = "new"
  BY <1>1 DEF Idle, Request, PCs, Codes
<1>3. QED
  BY <1>2, SeedAssumption DEF Init, TypeOK, Actors, Admin

\* Every variable of the accounts keeps its type (TypeOK).
THEOREM TypeCorrect == Spec => []TypeOK
<1>1. Init => TypeOK /\ Actors
  BY InitTyped
<1>2. TypeOK /\ Actors /\ [Next]_vars => (TypeOK /\ Actors)'
  BY NextTyped
<1>3. QED
  BY <1>1, <1>2, PTL DEF Spec

----------------------------------------------------------------------------
(* An administrator remains *)

\* The gate holder is alone between its lock and its commit.
Turn == \A q \in Requests : req[q].pc \in Inside => gate = q
\* The target's row is locked from before the decision until the commit.
Held == \A q \in Requests :
    req[q].pc \in {"check", "commit"} /\ req[q].in.op # "create" => row[req[q].in.target] = q
\* What was decided still holds when it is carried out.
DecidedFor(i) ==
    /\ Demotes(i) \/ i.op \in {"deactivate", "delete"} => ~LastAdmin(i.target)
    /\ i.op = "reactivate" => user[i.target].status = "DISABLED"
Decided == \A q \in Requests : req[q].pc = "commit" => DecidedFor(req[q].in)
Safe == Turn /\ Held /\ Decided /\ OneAdminStays

Same(u) == user'[u].status = user[u].status /\ user'[u].role = user[u].role
\* A step that takes nobody's role and leaves locked rows alone.
Gentle == \A u \in Users : (row[u] # Nobody => Same(u)) /\ (IsAdmin(u) => IsAdmin(u)')
\* A step of q leaves the locks of everybody else alone.
OwnLocks(q) ==
    \A p \in Requests \ {q} : (gate = p => gate' = p) /\ \A u \in Users : row[u] = p => row'[u] = p

LEMMA GentleDecision ==
    ASSUME Gentle, NEW i \in Input, DecidedFor(i), row[i.target] # Nobody
    PROVE  DecidedFor(i)'
<1>1. i.target \in Users
  BY DEF Input
<1>2. Same(i.target)
  BY <1>1 DEF Gentle
<1>3. ~LastAdmin(i.target) => ~LastAdmin(i.target)'
  <2>1. IsAdmin(i.target)' => IsAdmin(i.target)
    BY <1>2 DEF IsAdmin, Same
  <2>2. \A v \in Users : IsAdmin(v) => IsAdmin(v)'
    BY DEF Gentle
  <2>3. QED
    BY <2>1, <2>2 DEF LastAdmin
<1>4. QED
  BY <1>2, <1>3 DEF DecidedFor, Same, Demotes

LEMMA OthersDecided ==
    ASSUME TypeOK, Safe, Gentle, NEW p \in Requests, req'[p] = req[p], req[p].pc = "commit"
    PROVE  DecidedFor(req[p].in)'
<1>1. req[p].in \in Input /\ DecidedFor(req[p].in)
  BY DEF TypeOK, Request, Safe, Decided
<1>2. CASE req[p].in.op = "create"
  BY <1>2 DEF DecidedFor, Demotes
<1>3. CASE req[p].in.op # "create"
  <2>1. row[req[p].in.target] = p /\ p # Nobody
    BY <1>3, NamesAssumption DEF Safe, Held
  <2>2. QED
    BY <1>1, <2>1, GentleDecision
<1>4. QED
  BY <1>2, <1>3

LEMMA LocksKept ==
    ASSUME TypeOK, Safe, NEW q \in Requests, Others(q), OwnLocks(q),
           req'[q].pc \in Inside => gate' = q,
           req'[q].pc \in {"check", "commit"} /\ req'[q].in.op # "create" => row'[req'[q].in.target] = q
    PROVE  Turn' /\ Held'
<1>1. Turn'
  BY DEF Safe, Turn, Others, OwnLocks
<1>2. ASSUME NEW p \in Requests, req'[p].pc \in {"check", "commit"}, req'[p].in.op # "create"
      PROVE  row'[req'[p].in.target] = p
  <2>1. CASE p # q
    <3>1. req'[p] = req[p] /\ req[p].in.target \in Users
      BY <2>1 DEF Others, TypeOK, Request, Input
    <3>2. row[req[p].in.target] = p
      BY <1>2, <3>1 DEF Safe, Held
    <3>3. QED
      BY <2>1, <3>1, <3>2 DEF OwnLocks
  <2>2. QED
    BY <1>2, <2>1
<1>3. QED
  BY <1>1, <1>2 DEF Held

\* A request that holds no lock, or lets go of what it holds.
LEMMA OutsideSafe ==
    ASSUME TypeOK, Safe, NEW q \in Requests, Others(q), OwnLocks(q), Gentle, req'[q].pc \notin Inside
    PROVE  Safe'
<1>1. Turn' /\ Held'
  BY LocksKept DEF Inside, Admin
<1>2. Decided'
  <2>1. ASSUME NEW p \in Requests, req'[p].pc = "commit" PROVE DecidedFor(req[p].in)'
    <3>1. p # q
      BY <2>1 DEF Inside, Admin
    <3>2. req'[p] = req[p] /\ req[p].pc = "commit"
      BY <2>1, <3>1 DEF Others
    <3>3. QED
      BY <3>2, OthersDecided
  <2>2. QED
    BY <2>1 DEF Decided
<1>3. OneAdminStays'
  BY DEF Safe, OneAdminStays, Gentle
<1>4. QED
  BY <1>1, <1>2, <1>3 DEF Safe

\* The gate holder goes on towards its commit; nothing is written yet.
LEMMA WithinSafe ==
    ASSUME TypeOK, Safe, NEW q \in Requests, Others(q), OwnLocks(q), UNCHANGED user, gate' = q,
           req'[q].pc = "check" /\ req'[q].in.op # "create" => row'[req'[q].in.target] = q,
           req'[q].pc = "commit" => /\ DecidedFor(req[q].in)'
                                    /\ req'[q].in.op # "create" => row'[req'[q].in.target] = q
    PROVE  Safe'
<1>1. Turn' /\ Held'
  BY LocksKept
<1>2. Gentle /\ OneAdminStays'
  BY DEF Gentle, Same, IsAdmin, Safe, OneAdminStays
<1>3. ASSUME NEW p \in Requests, req'[p].pc = "commit" PROVE DecidedFor(req[p].in)'
  <2>1. CASE p = q
    BY <1>3, <2>1
  <2>2. CASE p # q
    <3>1. req'[p] = req[p] /\ req[p].pc = "commit"
      BY <1>3, <2>2 DEF Others
    <3>2. QED
      BY <1>2, <3>1, OthersDecided
  <2>3. QED
    BY <2>1, <2>2
<1>4. Decided'
  BY <1>3 DEF Decided
<1>5. QED
  BY <1>1, <1>2, <1>4 DEF Safe

\* Letting go of the locks of q.
LEMMA ReleaseOwn ==
    ASSUME TypeOK, NEW q \in Requests, Release(q)
    PROVE  OwnLocks(q)
BY DEF Release, OwnLocks

LEMMA RefuseSafe ==
    ASSUME TypeOK, Safe, NEW q \in Requests, NEW code \in Codes, Refuse(q, code)
    PROVE  Safe'
<1>1. OwnLocks(q) /\ Others(q) /\ req'[q].pc \notin Inside
  BY ReleaseOwn, AnswerType DEF Refuse, Finish, Inside, Admin
<1>2. Gentle
  BY DEF Refuse, db, Gentle, Same, IsAdmin
<1>3. QED
  BY <1>1, <1>2, OutsideSafe

\* The gate holder commits: nobody else stands between decision and commit.
LEMMA CommitSafe ==
    ASSUME TypeOK, Safe, NEW q \in Requests, req[q].pc \in Inside, Finish(q, "OK"), OneAdminStays'
    PROVE  Safe'
<1>1. OwnLocks(q) /\ Others(q) /\ req'[q].pc = "done"
  BY ReleaseOwn, AnswerType DEF Finish, Codes
<1>2. gate = q /\ \A p \in Requests \ {q} : req'[p].pc \notin Inside
  BY <1>1 DEF Safe, Turn, Others
<1>3. Turn' /\ Held'
  BY <1>1, LocksKept DEF Inside, Admin
<1>4. Decided'
  BY <1>1, <1>2 DEF Decided, Inside, Admin
<1>5. QED
  BY <1>3, <1>4 DEF Safe

\* Requests that have not begun, and steps that touch neither rows nor locks.
LEMMA QuietSafe ==
    ASSUME TypeOK, Safe, NEW q \in Requests, Others(q), UNCHANGED <<db, locks>>, req'[q].pc \notin Inside
    PROVE  Safe'
<1>1. OwnLocks(q)
  BY DEF OwnLocks, locks
<1>2. Gentle
  BY DEF db, Gentle, Same, IsAdmin
<1>3. QED
  BY <1>1, <1>2, OutsideSafe

LEMMA ArriveSafe ==
    ASSUME TypeOK, Safe, NEW q \in Requests, Arrive(q)
    PROVE  Safe'
<1>1. Others(q) /\ UNCHANGED <<db, locks>>
  BY DEF Arrive, Submit, Follow, Knock, TypeOK, Others
<1>2. req'[q].pc \notin Inside
  <2>1. ASSUME NEW i, NEW a, Submit(q, i, a) PROVE req'[q].pc \in {"done", "gate"}
    BY <2>1 DEF Submit, TypeOK, Idle
  <2>2. ASSUME NEW i, NEW t, Follow(q, i, t) PROVE req'[q].pc = "claim"
    BY <2>2 DEF Follow, TypeOK, Idle
  <2>3. ASSUME NEW i, Knock(q, i) PROVE req'[q].pc = "read"
    BY <2>3 DEF Knock, TypeOK, Idle
  <2>4. QED
    BY <2>1, <2>2, <2>3 DEF Arrive, Inside, Admin
<1>3. QED
  BY <1>1, <1>2, QuietSafe

LEMMA TakeGateSafe ==
    ASSUME TypeOK, Safe, NEW q \in Requests, TakeGate(q)
    PROVE  Safe'
<1>1. PICK pc \in {"commit", "classify", "row"} : Goto(q, pc) /\ (pc = "commit" => In(q).op = "create")
  BY DEF TakeGate
<1>2. Others(q) /\ req'[q].pc = pc /\ req'[q].in = req[q].in
  BY <1>1, GotoType DEF PCs
<1>3. OwnLocks(q)
  BY NamesAssumption DEF TakeGate, OwnLocks
<1>4. pc = "commit" => DecidedFor(req[q].in)'
  BY <1>1, <1>2 DEF DecidedFor, Demotes, In
<1>5. QED
  BY <1>1, <1>2, <1>3, <1>4, WithinSafe DEF TakeGate, db, In

LEMMA LockTargetSafe ==
    ASSUME TypeOK, Safe, NEW q \in Requests, LockTarget(q)
    PROVE  Safe'
<1>1. CASE Refuse(q, "NOT_FOUND")
  BY <1>1, RefuseSafe DEF Codes
<1>2. CASE Goto(q, "check") /\ row' = [row EXCEPT ![Target(q)] = q] /\ UNCHANGED <<db, gate, claim>>
  <2>1. Others(q) /\ req'[q].pc = "check" /\ req'[q].in = req[q].in
    BY <1>2, GotoType DEF PCs
  <2>2. OwnLocks(q)
    BY <1>2, NamesAssumption, InputShape DEF LockTarget, OwnLocks, TypeOK
  <2>3. gate = q
    BY DEF LockTarget, At, Safe, Turn, Inside, Admin
  <2>4. row'[req'[q].in.target] = q
    BY <1>2, <2>1, InputShape DEF TypeOK, Target
  <2>5. QED
    BY <1>2, <2>1, <2>2, <2>3, <2>4, WithinSafe DEF db
<1>3. QED
  BY <1>1, <1>2 DEF LockTarget

LEMMA CheckSafe ==
    ASSUME TypeOK, Safe, NEW q \in Requests, Check(q)
    PROVE  Safe'
<1>1. ASSUME NEW code \in Codes, Refuse(q, code) PROVE Safe'
  BY <1>1, RefuseSafe
<1>2. CASE Goto(q, "commit") /\ UNCHANGED <<db, locks>> /\ ~WrongStatus(q) /\ ~WouldStrand(q)
  <2>1. Others(q) /\ req'[q].pc = "commit" /\ req'[q].in = req[q].in
    BY <1>2, GotoType DEF PCs
  <2>2. OwnLocks(q) /\ gate' = q /\ user' = user
    BY <1>2 DEF Check, At, OwnLocks, locks, db, Safe, Turn, Inside, Admin
  <2>3. DecidedFor(req[q].in)
    BY <1>2 DEF WrongStatus, WouldStrand, DecidedFor, In, Target
  <2>4. DecidedFor(req[q].in)'
    BY <2>1, <2>2, <2>3 DEF DecidedFor, LastAdmin, IsAdmin, Demotes
  <2>5. req'[q].in.op # "create" => row'[req'[q].in.target] = q
    BY <1>2, <2>1 DEF Safe, Held, Check, At, locks
  <2>6. QED
    BY <2>1, <2>2, <2>4, <2>5, WithinSafe
<1>3. QED
  BY <1>1, <1>2 DEF Check, Codes

LEMMA ClassifySafe ==
    ASSUME TypeOK, Safe, NEW q \in Requests, Classify(q)
    PROVE  Safe'
<1>1. Others(q) /\ req'[q].pc = "apply"
  BY DEF Classify, TypeOK, Others, Request
<1>2. OwnLocks(q) /\ gate' = q /\ user' = user
  BY DEF Classify, At, OwnLocks, locks, db, Safe, Turn, Inside, Admin
<1>3. QED
  BY <1>1, <1>2, WithinSafe

\* Every single-row commit: the administrator it may cost was not the last.
LEMMA OneRowKeepsAdmin ==
    ASSUME TypeOK, Safe, NEW q \in Requests, NEW r, req[q].pc = "commit", In(q).op # "create",
           user' = [user EXCEPT ![Target(q)] = r],
           \/ r.role = user[Target(q)].role /\ r.status = user[Target(q)].status
           \/ ~LastAdmin(Target(q))
           \/ ~IsAdmin(Target(q))
           \/ r.role = "ADMIN" /\ r.status = user[Target(q)].status
    PROVE  OneAdminStays'
<1>1. Target(q) \in Users /\ user'[Target(q)] = r
  BY InputShape DEF TypeOK
<1>2. \A v \in Users \ {Target(q)} : user'[v] = user[v]
  BY DEF TypeOK
<1>3. PICK w \in Users : IsAdmin(w)
  BY DEF Safe, OneAdminStays
<1>4. CASE \E v \in Users \ {Target(q)} : IsAdmin(v)
  BY <1>2, <1>4 DEF OneAdminStays, IsAdmin
<1>5. CASE ~ \E v \in Users \ {Target(q)} : IsAdmin(v)
  <2>1. w = Target(q) /\ LastAdmin(w)
    BY <1>3, <1>5 DEF LastAdmin
  <2>2. r.role = "ADMIN" /\ r.status = "ACTIVE"
    BY <1>3, <2>1 DEF IsAdmin
  <2>3. QED
    BY <1>1, <2>2 DEF OneAdminStays, IsAdmin
<1>6. QED
  BY <1>4, <1>5

LEMMA Committing ==
    ASSUME Safe, NEW q \in Requests, At(q, "commit")
    PROVE  req[q].pc \in Inside /\ DecidedFor(In(q))
BY DEF At, Inside, Admin, Safe, Decided, In

LEMMA CreateSafe ==
    ASSUME TypeOK, Safe, NEW q \in Requests, Create(q)
    PROVE  Safe'
<1>1. CASE Refuse(q, "DUPLICATE")
  BY <1>1, RefuseSafe DEF Codes
<1>2. CASE ~Exists(Target(q)) /\ Finish(q, "OK")
           /\ user' = [user EXCEPT ![Target(q)] = NewUser(In(q).email, "EMPLOYEE")]
  <2>1. PICK w \in Users : IsAdmin(w)
    BY DEF Safe, OneAdminStays
  <2>2. w # Target(q)
    BY <1>2, <2>1 DEF Exists, IsAdmin
  <2>3. OneAdminStays'
    BY <1>2, <2>1, <2>2 DEF OneAdminStays, IsAdmin, TypeOK
  <2>4. QED
    BY <1>2, <2>3, CommitSafe, Committing DEF Create
<1>3. QED
  BY <1>1, <1>2 DEF Create

LEMMA PatchSafe ==
    ASSUME TypeOK, Safe, NEW q \in Requests, Patch(q)
    PROVE  Safe'
<1>1. CASE Refuse(q, "DUPLICATE")
  BY <1>1, RefuseSafe DEF Codes
<1>2. CASE ~Refuse(q, "DUPLICATE")
  <2> DEFINE u == Target(q)
  <2> DEFINE r == Patched(user[u], In(q))
  <2>1. user' = [user EXCEPT ![u] = r] /\ Finish(q, "OK") /\ At(q, "commit") /\ In(q).op = "patch"
    BY <1>2 DEF Patch
  <2>2. user[u] \in UserRow
    BY InputShape, UserOf
  <2>3. r.role = (IF In(q).role = "" THEN user[u].role ELSE In(q).role) /\ r.status = user[u].status
    BY <2>2 DEF Patched, UserRow
  <2>4. In(q).role \notin {"", "ADMIN"} => ~LastAdmin(u)
    BY <2>1, Committing DEF DecidedFor, Demotes, In, Target
  <2>5. OneAdminStays'
    <3> HIDE DEF r
    <3> QED BY <2>1, <2>3, <2>4, OneRowKeepsAdmin DEF At
  <2>6. QED
    BY <2>1, <2>5, CommitSafe, Committing
<1>3. QED
  BY <1>1, <1>2

LEMMA DeactivateSafe ==
    ASSUME TypeOK, Safe, NEW q \in Requests, Deactivate(q)
    PROVE  Safe'
<1>1. ~LastAdmin(Target(q))
  BY Committing DEF Deactivate, DecidedFor, In, Target
<1>2. PICK r : user' = [user EXCEPT ![Target(q)] = r]
  BY DEF Deactivate
<1>3. OneAdminStays'
  BY <1>1, <1>2, OneRowKeepsAdmin DEF Deactivate, At
<1>4. QED
  BY <1>3, CommitSafe, Committing DEF Deactivate

LEMMA ReactivateSafe ==
    ASSUME TypeOK, Safe, NEW q \in Requests, Reactivate(q)
    PROVE  Safe'
<1>1. ~IsAdmin(Target(q))
  BY Committing DEF Reactivate, DecidedFor, In, Target, IsAdmin
<1>2. PICK r : user' = [user EXCEPT ![Target(q)] = r]
  BY DEF Reactivate
<1>3. OneAdminStays'
  BY <1>1, <1>2, OneRowKeepsAdmin DEF Reactivate, At
<1>4. QED
  BY <1>3, CommitSafe, Committing DEF Reactivate

LEMMA ReissueSafe ==
    ASSUME TypeOK, Safe, NEW q \in Requests, Reissue(q)
    PROVE  Safe'
<1>1. OneAdminStays'
  BY DEF Reissue, Safe, OneAdminStays, IsAdmin
<1>2. QED
  BY <1>1, CommitSafe, Committing DEF Reissue

LEMMA DeleteSafe ==
    ASSUME TypeOK, Safe, NEW q \in Requests, Delete(q)
    PROVE  Safe'
<1>1. ~LastAdmin(Target(q))
  BY Committing DEF Delete, DecidedFor, In, Target
<1>2. PICK r : user' = [user EXCEPT ![Target(q)] = r]
  BY DEF Delete
<1>3. OneAdminStays'
  BY <1>1, <1>2, OneRowKeepsAdmin DEF Delete, At
<1>4. QED
  BY <1>3, CommitSafe, Committing DEF Delete

\* A file counts the administrators over its own result.
LEMMA ApplySafe ==
    ASSUME TypeOK, Safe, NEW q \in Requests, Apply(q)
    PROVE  Safe'
<1>1. CASE Refuse(q, "DUPLICATE") \/ Refuse(q, "LAST_ADMIN")
  BY <1>1, RefuseSafe DEF Codes
<1>2. CASE ~(Refuse(q, "DUPLICATE") \/ Refuse(q, "LAST_ADMIN"))
  <2>1. user' = After(q) /\ Finish(q, "OK") /\ req[q].pc \in Inside
    BY <1>2 DEF Apply, At, Inside, Admin
  <2>2. CASE \E u \in Users : After(q)[u].role = "ADMIN" /\ After(q)[u].status = "ACTIVE"
    <3>1. OneAdminStays'
      BY <2>1, <2>2 DEF OneAdminStays, IsAdmin
    <3>2. QED
      BY <2>1, <3>1, CommitSafe
  <2>3. CASE Creations(q) \cup Changes(q) = {}
    <3>1. user' = [u \in Users |-> user[u]]
      BY <2>1, <2>3 DEF After
    <3>2. OneAdminStays'
      BY <3>1 DEF Safe, OneAdminStays, IsAdmin
    <3>3. QED
      BY <2>1, <3>2, CommitSafe
  <2>4. QED
    BY <1>2, <2>2, <2>3 DEF Apply
<1>3. QED
  BY <1>1, <1>2

----------------------------------------------------------------------------
(* Requests outside the gate, and the world *)

LEMMA ClaimSafe ==
    ASSUME TypeOK, Safe, NEW q \in Requests, Claim(q)
    PROVE  Safe'
<1>1. CASE Refuse(q, "TOKEN_EXPIRED")
  BY <1>1, RefuseSafe DEF Codes
<1>2. CASE Goto(q, "password") /\ UNCHANGED <<db, gate, row>>
  <2>1. Others(q) /\ req'[q].pc \notin Inside
    BY <1>2, GotoType DEF PCs, Inside, Admin
  <2>2. OwnLocks(q) /\ Gentle
    BY <1>2 DEF OwnLocks, db, Gentle, Same, IsAdmin
  <2>3. QED
    BY <2>1, <2>2, OutsideSafe
<1>3. QED
  BY <1>1, <1>2 DEF Claim

\* One row changes, free of locks, and no administrator is lost with it.
LEMMA FreeRowGentle ==
    ASSUME TypeOK, NEW u \in Users, NEW r, row[u] = Nobody, user' = [user EXCEPT ![u] = r],
           r.role = user[u].role, r.status = user[u].status \/ r.status = "ACTIVE"
    PROVE  Gentle
<1>1. user'[u] = r /\ \A v \in Users \ {u} : user'[v] = user[v]
  BY DEF TypeOK
<1>2. QED
  BY <1>1 DEF Gentle, Same, IsAdmin

LEMMA SetPasswordSafe ==
    ASSUME TypeOK, Safe, NEW q \in Requests, SetPassword(q)
    PROVE  Safe'
<1>1. CASE Refuse(q, "ACCOUNT_DISABLED")
  BY <1>1, RefuseSafe DEF Codes
<1>2. CASE ~Refuse(q, "ACCOUNT_DISABLED")
  <2> DEFINE r == [Forgiven(user[Target(q)]) EXCEPT !.status = "ACTIVE", !.hasPassword = TRUE]
  <2>1. Target(q) \in Users /\ user' = [user EXCEPT ![Target(q)] = r] /\ Finish(q, "OK")
        /\ row[Target(q)] = Nobody
    BY <1>2, InputShape DEF SetPassword
  <2>2. r.role = user[Target(q)].role /\ r.status = "ACTIVE"
    BY <2>1, UserOf DEF Forgiven, UserRow
  <2>3. Gentle
    <3> HIDE DEF r
    <3> QED BY <2>1, <2>2, FreeRowGentle
  <2>4. OwnLocks(q) /\ Others(q) /\ req'[q].pc \notin Inside
    BY <2>1, ReleaseOwn, AnswerType DEF Finish, Codes, Inside, Admin
  <2>5. QED
    BY <2>3, <2>4, OutsideSafe
<1>3. QED
  BY <1>1, <1>2

LEMMA DeadlockSafe ==
    ASSUME TypeOK, Safe, NEW q \in Requests, Deadlock(q)
    PROVE  Safe'
<1>1. OwnLocks(q)
  BY ReleaseOwn DEF Deadlock
<1>2. Others(q) /\ req'[q].pc \in {"done", "claim", "gate"}
  <2>1. req[q] \in Request
    BY DEF TypeOK
  <2>2. Others(q)
    BY DEF Deadlock, TypeOK, Others
  <2>3. req'[q].pc \in {"done", "claim", "gate"}
    BY <2>1 DEF Deadlock, TypeOK, Request
  <2>4. QED
    BY <2>2, <2>3
<1>3. Gentle
  BY DEF Deadlock, db, Gentle, Same, IsAdmin
<1>4. QED
  BY <1>1, <1>2, <1>3, OutsideSafe DEF Inside, Admin

LEMMA SignInSafe ==
    ASSUME TypeOK, Safe, NEW q \in Requests, SignIn(q)
    PROVE  Safe'
<1>1. Others(q) /\ req'[q].pc \notin Inside
  <2>1. (\E pc \in {"restart", "verify", "session", "enter", "miss"} : Goto(q, pc))
        \/ \E code \in Codes : Answer(q, code)
    BY DEF SignIn, Read, Restart, Verify, OpenSession, Enter, Miss, Codes
  <2>2. QED
    BY <2>1, GotoType, AnswerType DEF PCs, Inside, Admin
<1>2. OwnLocks(q)
  BY DEF SignIn, Read, Restart, Verify, OpenSession, Enter, Miss, locks, OwnLocks
<1>3. Gentle
  <2>1. CASE user' = user
    BY <2>1 DEF Gentle, Same, IsAdmin
  <2>2. CASE user' # user
    <3>1. Target(q) \in Users /\ user[Target(q)] \in UserRow
      BY InputShape, UserOf
    <3>2. PICK r \in {Forgiven(user[Target(q)]), Missed(user[Target(q)], user[Target(q)].failed + 1)} :
              row[Target(q)] = Nobody /\ user' = [user EXCEPT ![Target(q)] = r]
      BY <2>2 DEF SignIn, Read, Restart, Verify, OpenSession, Enter, Miss, db
    <3>3. r.role = user[Target(q)].role /\ r.status = user[Target(q)].status
      BY <3>1, <3>2 DEF Forgiven, Missed, UserRow
    <3>4. QED
      BY <3>1, <3>2, <3>3, FreeRowGentle
  <2>3. QED
    BY <2>1, <2>2
<1>4. QED
  BY <1>1, <1>2, <1>3, OutsideSafe

LEMMA WorldSafe ==
    ASSUME TypeOK, Safe, World
    PROVE  Safe'
<1>1. UNCHANGED <<locks, req>>
  BY DEF World, Send, Expire, Lapse, Maintain
<1>2. \A u \in Users : Same(u)
  BY DEF World, Send, Expire, Lapse, Maintain, Same, TypeOK, UserRow
<1>3. Gentle
  BY <1>2 DEF Gentle, Same, IsAdmin
<1>4. Turn' /\ Held'
  BY <1>1 DEF Safe, Turn, Held, locks
<1>5. ASSUME NEW p \in Requests, req'[p].pc = "commit" PROVE DecidedFor(req[p].in)'
  BY <1>1, <1>3, <1>5, OthersDecided
<1>6. OneAdminStays'
  BY <1>3 DEF Safe, OneAdminStays, Gentle
<1>7. QED
  BY <1>4, <1>5, <1>6 DEF Safe, Decided

LEMMA NextSafe ==
    ASSUME TypeOK, Safe, [Next]_vars
    PROVE  Safe'
<1>1. CASE World
  BY <1>1, WorldSafe
<1>2. ASSUME NEW q \in Requests, Administer(q) PROVE Safe'
  BY <1>2, TakeGateSafe, LockTargetSafe, CheckSafe, CreateSafe, PatchSafe, DeactivateSafe,
     ReactivateSafe, ReissueSafe, DeleteSafe, ClassifySafe, ApplySafe DEF Administer
<1>3. ASSUME NEW q \in Requests, Arrive(q) \/ Redeem(q) \/ SignIn(q) \/ Deadlock(q) PROVE Safe'
  BY <1>3, ArriveSafe, ClaimSafe, SetPasswordSafe, SignInSafe, DeadlockSafe DEF Redeem
<1>4. CASE UNCHANGED vars
  BY <1>4 DEF vars, Safe, Turn, Held, Decided, DecidedFor, Demotes, LastAdmin, OneAdminStays, IsAdmin
<1>5. QED
  BY <1>1, <1>2, <1>3, <1>4 DEF Next, Work

LEMMA InitSafe ==
    ASSUME Init
    PROVE  Safe
<1>1. \A q \in Requests : req[q].pc = "new"
  BY DEF Init, Idle
<1>2. QED
  BY <1>1, SeedAssumption DEF Init, Safe, Turn, Held, Decided, Inside, Admin, OneAdminStays, IsAdmin

\* However administrators, files, links and sign-ins interleave, an active administrator
\* remains (OneAdminStays; assertNotLastAdmin and LAST_ADMIN_LOCK in users/service.ts).
THEOREM AdminRemains == Spec => []OneAdminStays
<1>1. Init => TypeOK /\ Actors /\ Safe
  BY InitTyped, InitSafe
<1>2. TypeOK /\ Actors /\ Safe /\ [Next]_vars => (TypeOK /\ Actors /\ Safe)'
  BY NextTyped, NextSafe
<1>3. Safe => OneAdminStays
  BY DEF Safe
<1>4. QED
  BY <1>1, <1>2, <1>3, PTL DEF Spec

----------------------------------------------------------------------------
(* Links *)

\* A token that can be redeemed refers to a user who is there; one never issued has no mail.
Linked == \A t \in Tokens :
    /\ token[t].state \in {"open", "expired"} => Exists(token[t].user)
    /\ token[t].state = "none" => token[t].mail = "-"

\* Only who followed a link has a token, and that one has been issued.  Past the claim it is
\* open and nobody else's; once it is answered OK it is spent for good.
Redeemer(q) ==
    LET r == req[q]  t == req[q].tok IN
    /\ t # Nobody => r.pc \in {"claim", "password", "done"}
    /\ r.pc \in {"claim", "password"} =>
         t \in Tokens /\ token[t].state # "none" /\ token[t].user = r.in.target
    /\ r.pc = "password" => claim[t] = q /\ token[t].state = "open"
    /\ r.pc # "done" => r.answer # "OK"
    /\ r.answer = "OK" /\ t # Nobody => token[t].state \in {"used", "deleted"}
Redeemers == \A q \in Requests : Redeemer(q)

\* The target of an administrative request is there from its lock to its commit.
Present == \A q \in Requests :
    req[q].pc \in {"check", "commit"} /\ req[q].in.op # "create" => Exists(req[q].in.target)

LinkSafe == Linked /\ Redeemers /\ Present /\ LinkWorksOnce

(* Files *)

\* What a file's classification found is still so: no row's address is anybody else's, a code
\* is there or not as the plan says, a skipped row differs in nothing, and no code has two rows.
Foreseen(plan) ==
    /\ \A p \in plan :
         /\ ~TakenBy(p.row.code, p.row.email)
         /\ p.action = "CREATE" <=> ~Exists(p.row.code)
         /\ p.action = "SKIP" => /\ user[p.row.code].email = p.row.email
                                 /\ p.row.role \in {"", user[p.row.code].role}
    /\ \A p, s \in plan : p.row.code = s.row.code => p = s
FileSafe == \A q \in Requests :
    /\ req[q].pc = "apply" => Foreseen(req[q].plan)
    /\ req[q].in.op = "import" => req[q].answer # "DUPLICATE"

\* A step changes what an account is known by only when it is a commit under the gate.
Kept(u) ==
    /\ user'[u].status = "NONE" <=> user[u].status = "NONE"
    /\ user'[u].email = user[u].email /\ user'[u].role = user[u].role
Identified == \A u \in Users : Kept(u)
Stay == \A u \in Users : Exists(u) => Exists(u)'

\* An issued token is the same user's for ever and is never issued again; spent tokens stay spent,
\* and one that is claimed by somebody else than q stays open.
Aged(q) == \A t \in Tokens :
    /\ token[t].state # "none" => token'[t].user = token[t].user /\ token'[t].state # "none"
    /\ token[t].state \in {"used", "deleted"} => token'[t].state \in {"used", "deleted"}
    /\ token[t].state = "open" /\ claim[t] \in Requests \ {q} => token'[t].state = "open"
OwnClaims(q) == \A p \in Requests \ {q}, t \in Tokens : claim[t] = p => claim'[t] = p

\* A request that has no link goes on or is answered.
Onward(q) ==
    /\ Others(q) /\ req'[q].tok = req[q].tok /\ req'[q].in = req[q].in
    /\ req'[q].pc \notin {"new", "claim", "password"}
    /\ req'[q].pc # "done" => req'[q].answer = req[q].answer
Linkless == {"gate", "row", "check", "commit", "classify", "apply",
             "read", "restart", "verify", "session", "enter", "miss"}

LEMMA GotoOnward ==
    ASSUME TypeOK, NEW q \in Requests, NEW pc \in Linkless, Goto(q, pc)
    PROVE  Onward(q) /\ req'[q].pc = pc /\ req'[q].answer = req[q].answer
<1>1. req[q] \in Request
  BY DEF TypeOK
<1>2. req'[q] = [req[q] EXCEPT !.pc = pc] /\ Others(q)
  BY DEF TypeOK, Goto, Others
<1>3. QED
  BY <1>1, <1>2 DEF Onward, Request, Linkless

LEMMA AnswerOnward ==
    ASSUME TypeOK, NEW q \in Requests, NEW code \in Codes, Answer(q, code)
    PROVE  Onward(q) /\ req'[q].pc = "done" /\ req'[q].answer = code
<1>1. req[q] \in Request
  BY DEF TypeOK
<1>2. req'[q] = [req[q] EXCEPT !.pc = "done", !.answer = code] /\ Others(q)
  BY DEF TypeOK, Answer, Others
<1>3. QED
  BY <1>1, <1>2 DEF Onward, Request

LEMMA ClassifyOnward ==
    ASSUME TypeOK, NEW q \in Requests, Classify(q)
    PROVE  /\ Onward(q) /\ req'[q].pc = "apply" /\ req'[q].answer = req[q].answer
           /\ req'[q].plan = Planned(In(q).file, req[q].actor)
<1>1. req[q] \in Request
  BY DEF TypeOK
<1>2. req'[q] = [req[q] EXCEPT !.pc = "apply", !.plan = Planned(In(q).file, req[q].actor)] /\ Others(q)
  BY DEF TypeOK, Classify, Others
<1>3. QED
  BY <1>1, <1>2 DEF Onward, Request

LEMMA WorkOnward ==
    ASSUME TypeOK, NEW q \in Requests, Administer(q) \/ SignIn(q)
    PROVE  Onward(q) /\ req[q].pc \in Linkless
<1>1. CASE Classify(q)
  BY <1>1, ClassifyOnward DEF Classify, At, Linkless
<1>2. CASE TakeGate(q) \/ LockTarget(q) \/ Check(q)
  <2>1. (\E pc \in Linkless : Goto(q, pc)) \/ \E code \in Codes : Answer(q, code)
    BY <1>2 DEF TakeGate, LockTarget, Check, Refuse, Finish, Codes, Linkless
  <2>2. req[q].pc \in Linkless
    BY <1>2 DEF TakeGate, LockTarget, Check, At, Linkless
  <2>3. QED
    BY <2>1, <2>2, GotoOnward, AnswerOnward
<1>3. CASE Create(q) \/ Patch(q) \/ Deactivate(q) \/ Reactivate(q) \/ Reissue(q) \/ Delete(q) \/ Apply(q)
  <2>1. \E code \in Codes : Answer(q, code)
    BY <1>3 DEF Create, Patch, Deactivate, Reactivate, Reissue, Delete, Apply, Refuse, Finish, Codes
  <2>2. req[q].pc \in Linkless
    BY <1>3 DEF Create, Patch, Deactivate, Reactivate, Reissue, Delete, Apply, At, Linkless
  <2>3. QED
    BY <2>1, <2>2, AnswerOnward
<1>4. CASE SignIn(q)
  <2>1. (\E pc \in Linkless : Goto(q, pc)) \/ \E code \in Codes : Answer(q, code)
    BY <1>4 DEF SignIn, Read, Restart, Verify, OpenSession, Enter, Miss, Codes, Linkless
  <2>2. req[q].pc \in Linkless
    BY <1>4 DEF SignIn, Read, Restart, Verify, OpenSession, Enter, Miss, At, Linkless
  <2>3. QED
    BY <2>1, <2>2, GotoOnward, AnswerOnward
<1>5. QED
  BY <1>1, <1>2, <1>3, <1>4 DEF Administer

LEMMA DeadlockOnward ==
    ASSUME TypeOK, Redeemers, NEW q \in Requests, Deadlock(q)
    PROVE  /\ Others(q) /\ req'[q].tok = req[q].tok /\ req'[q].in = req[q].in
           /\ req[q].pc \in {"commit", "password"}
           /\ \/ req'[q].pc = "done" /\ req'[q].answer = "INTERNAL"
              \/ req[q].pc = "password" /\ req'[q].pc = "claim" /\ req'[q].answer = req[q].answer
              \/ req[q].pc = "commit" /\ req'[q].pc = "gate" /\ req'[q].answer = req[q].answer
           /\ UNCHANGED db
<1>1. req[q] \in Request
  BY DEF TypeOK
<1>2. req[q].pc \in {"commit", "password"}
  BY DEF Deadlock, Cycle, At
<1>3. \/ req'[q] = [req[q] EXCEPT !.pc = "done", !.answer = "INTERNAL"]
      \/ req'[q] = [req[q] EXCEPT !.tries = 1, !.pc = "claim"] /\ req[q].pc = "password"
      \/ req'[q] = [req[q] EXCEPT !.tries = 1, !.pc = "gate"] /\ req[q].pc # "password"
  BY DEF Deadlock, TypeOK, At
<1>4. Others(q) /\ UNCHANGED db
  BY DEF Deadlock, TypeOK, Others
<1>5. QED
  BY <1>1, <1>2, <1>3, <1>4 DEF Request

\* Every step of a request leaves the claims of the others alone.
LEMMA ClaimsOwn ==
    ASSUME TypeOK, NEW q \in Requests, Arrive(q) \/ Work(q)
    PROVE  OwnClaims(q)
<1>1. ASSUME Release(q) PROVE OwnClaims(q)
  BY <1>1, NamesAssumption DEF Release, OwnClaims, TypeOK
<1>2. ASSUME UNCHANGED claim PROVE OwnClaims(q)
  BY <1>2 DEF OwnClaims
<1>3. ASSUME claim[req[q].tok] = Nobody, claim' = [claim EXCEPT ![req[q].tok] = q] PROVE OwnClaims(q)
  BY <1>3, NamesAssumption DEF OwnClaims, TypeOK
<1>4. CASE Arrive(q) \/ SignIn(q)
  BY <1>2, <1>4 DEF Arrive, Submit, Follow, Knock, SignIn, Read, Restart, Verify, OpenSession, Enter,
                    Miss, locks
<1>5. CASE Administer(q)
  BY <1>1, <1>2, <1>5 DEF Administer, TakeGate, LockTarget, Check, Create, Patch, Deactivate, Reactivate,
                          Reissue, Delete, Classify, Apply, Refuse, Finish, locks
<1>6. CASE Redeem(q) \/ Deadlock(q)
  BY <1>1, <1>2, <1>3, <1>6 DEF Redeem, Claim, SetPassword, Deadlock, Refuse, Finish
<1>7. QED
  BY <1>4, <1>5, <1>6 DEF Work

(* What the writers make of tokens and accounts *)

LEMMA Rested ==
    ASSUME TypeOK, Linked, UNCHANGED token, Stay, NEW q
    PROVE  Aged(q) /\ Linked'
<1>1. \A t \in Tokens : token[t].user \in Users
  BY DEF TypeOK, Token
<1>2. QED
  BY <1>1 DEF Aged, Linked, Stay

LEMMA SamePeople ==
    ASSUME UNCHANGED user
    PROVE  Stay /\ Identified
BY DEF Stay, Identified, Kept, Exists

LEMMA KeptStay ==
    ASSUME Identified
    PROVE  Stay
BY DEF Stay, Identified, Kept, Exists

\* One row changes and stays.
LEMMA OneStays ==
    ASSUME TypeOK, NEW u \in Users, NEW r, user' = [user EXCEPT ![u] = r], r.status # "NONE"
    PROVE  Stay /\ Exists(u)'
<1>1. user'[u] = r /\ \A v \in Users \ {u} : user'[v] = user[v]
  BY DEF TypeOK
<1>2. QED
  BY <1>1 DEF Stay, Exists

\* Tokens that are written only where there was none, for users who are there.
LEMMA IssueAges ==
    ASSUME TypeOK, Linked, Stay, NEW q,
           \A t \in Tokens : \/ token'[t] = token[t]
                             \/ /\ t \in Fresh
                                /\ \E u \in Users : \E e : Exists(u)' /\ token'[t] = Issued(u, e)
    PROVE  Aged(q) /\ Linked'
<1>1. ASSUME NEW t \in Tokens, NEW u \in Users, NEW e, token'[t] = Issued(u, e)
      PROVE  token'[t].state = "open" /\ token'[t].user = u
  BY <1>1 DEF Issued
<1>2. \A t \in Tokens : token[t].user \in Users
  BY DEF TypeOK, Token
<1>3. Aged(q)
  BY <1>1 DEF Aged, Fresh
<1>4. Linked'
  <2> SUFFICES ASSUME NEW t \in Tokens
               PROVE  /\ token'[t].state \in {"open", "expired"} => user'[token'[t].user].status # "NONE"
                      /\ token'[t].state = "none" => token'[t].mail = "-"
    BY DEF Linked, Exists
  <2>1. CASE token'[t] = token[t]
    BY <1>2, <2>1 DEF Linked, Stay, Exists
  <2>2. CASE \E u \in Users : \E e : Exists(u)' /\ token'[t] = Issued(u, e)
    BY <1>1, <2>2 DEF Exists
  <2>3. QED
    BY <2>1, <2>2
<1>5. QED
  BY <1>3, <1>4

LEMMA CreateLinks ==
    ASSUME TypeOK, Linked, NEW q \in Requests, Create(q)
    PROVE  Aged(q) /\ Linked'
<1>1. CASE Refuse(q, "DUPLICATE")
  BY <1>1, Rested, SamePeople DEF Refuse, db
<1>2. CASE ~Refuse(q, "DUPLICATE")
  <2>1. PICK u \in Users : u = Target(q)
    BY InputShape
  <2>2. PICK e, c, r :
          /\ c \in Fresh /\ user' = [user EXCEPT ![u] = r] /\ r = NewUser(e, "EMPLOYEE")
          /\ token' = [token EXCEPT ![c] = Issued(u, e)]
    BY <1>2, <2>1 DEF Create
  <2>3. r.status # "NONE"
    BY <2>2 DEF NewUser
  <2>4. Stay /\ Exists(u)'
    BY <2>2, <2>3, OneStays
  <2>5. \A t \in Tokens : token'[t] = token[t] \/ (t \in Fresh /\ token'[t] = Issued(u, e))
    BY <2>2 DEF TypeOK
  <2>6. QED
    BY <2>4, <2>5, IssueAges
<1>3. QED
  BY <1>1, <1>2

LEMMA RowLinks ==
    ASSUME TypeOK, Linked, Present, NEW q \in Requests, Patch(q) \/ Deactivate(q) \/ Reactivate(q)
    PROVE  Aged(q) /\ Linked'
<1>1. CASE Refuse(q, "DUPLICATE")
  BY <1>1, Rested, SamePeople DEF Refuse, db
<1>2. CASE ~Refuse(q, "DUPLICATE")
  <2>1. Target(q) \in Users /\ user[Target(q)] \in UserRow /\ Exists(Target(q)) /\ UNCHANGED token
    BY <1>2, InputShape, UserOf DEF Patch, Deactivate, Reactivate, At, Present, Target, In
  <2>2. Patched(user[Target(q)], In(q)).status = user[Target(q)].status
    BY <2>1 DEF Patched, UserRow
  <2>3. PICK r : user' = [user EXCEPT ![Target(q)] = r] /\ r.status # "NONE"
    <3>1. CASE Patch(q)
      BY <1>2, <2>1, <2>2, <3>1 DEF Patch, Exists
    <3>2. CASE Deactivate(q)
      <4>1. [user[Target(q)] EXCEPT !.status = "DISABLED"].status # "NONE"
        BY <2>1 DEF UserRow
      <4>2. user' = [user EXCEPT ![Target(q)] = [user[Target(q)] EXCEPT !.status = "DISABLED"]]
        BY <2>1, <3>2 DEF Deactivate, TypeOK
      <4>3. QED
        BY <4>1, <4>2
    <3>3. CASE Reactivate(q)
      <4> DEFINE s == IF user[Target(q)].hasPassword THEN "ACTIVE" ELSE "INVITED"
      <4>1. [user[Target(q)] EXCEPT !.status = s].status # "NONE"
        BY <2>1 DEF UserRow
      <4>2. user' = [user EXCEPT ![Target(q)] = [user[Target(q)] EXCEPT !.status = s]]
        BY <2>1, <3>3 DEF Reactivate, TypeOK
      <4>3. QED
        BY <4>1, <4>2
    <3>4. QED
      BY <3>1, <3>2, <3>3
  <2>4. Stay
    BY <2>1, <2>3, OneStays
  <2>5. QED
    BY <2>1, <2>4, Rested
<1>3. QED
  BY <1>1, <1>2

LEMMA ReissueLinks ==
    ASSUME TypeOK, Linked, Present, NEW q \in Requests, Reissue(q)
    PROVE  Aged(q) /\ Linked'
<1>1. PICK u \in Users : u = Target(q)
  BY InputShape
<1>2. PICK c, new : c \in Fresh /\ new = Issued(u, user[u].email) /\ token' = [Superseded(u, token) EXCEPT ![c] = new]
  BY <1>1 DEF Reissue
<1>3. Exists(u) /\ UNCHANGED user /\ \A t \in OpenOf(u) : claim[t] = Nobody
  BY <1>1 DEF Reissue, At, Present, Target, In
<1>4. new.state = "open" /\ new.user = u
  BY <1>2 DEF Issued
<1>5. ASSUME NEW t \in Tokens
      PROVE  \/ t \in Fresh /\ token'[t] = new
             \/ /\ token'[t].user = token[t].user
                /\ token'[t].state = IF t \in OpenOf(u) THEN "deleted" ELSE token[t].state
                /\ token[t].mail = "-" => token'[t].mail = "-"
  <2>1. token[t] \in Token
    BY DEF TypeOK
  <2>2. (t = c /\ token'[t] = new) \/ token'[t] = Superseded(u, token)[t]
    BY <1>2 DEF Superseded
  <2>3. PICK s, m : /\ Superseded(u, token)[t] = [token[t] EXCEPT !.state = s, !.mail = m]
                    /\ s = IF t \in OpenOf(u) THEN "deleted" ELSE token[t].state
                    /\ token[t].mail = "-" => m = "-"
    BY DEF Superseded
  <2>4. CASE token'[t] = Superseded(u, token)[t]
    BY <2>1, <2>3, <2>4 DEF Token
  <2>5. QED
    BY <1>2, <2>2, <2>4
<1>6. \A t \in Tokens : token[t].user \in Users
  BY DEF TypeOK, Token
<1>7. Aged(q)
  <2> SUFFICES ASSUME NEW t \in Tokens
               PROVE  /\ token[t].state # "none" => token'[t].user = token[t].user /\ token'[t].state # "none"
                      /\ token[t].state \in {"used", "deleted"} => token'[t].state \in {"used", "deleted"}
                      /\ token[t].state = "open" /\ claim[t] \in Requests \ {q} => token'[t].state = "open"
    BY DEF Aged
  <2>1. CASE t \in Fresh
    BY <2>1 DEF Fresh
  <2>2. CASE t \in OpenOf(u)
    BY <1>3, <1>5, <2>2, NamesAssumption DEF OpenOf, Fresh
  <2>3. CASE t \notin Fresh /\ t \notin OpenOf(u)
    BY <1>5, <2>3 DEF Fresh
  <2>4. QED
    BY <2>1, <2>2, <2>3
<1>8. Linked'
  <2> SUFFICES ASSUME NEW t \in Tokens
               PROVE  /\ token'[t].state \in {"open", "expired"} => user[token'[t].user].status # "NONE"
                      /\ token'[t].state = "none" => token'[t].mail = "-"
    BY <1>3 DEF Linked, Exists
  <2>1. CASE token'[t] = new
    BY <1>3, <1>4, <2>1 DEF Exists
  <2>2. CASE token'[t] # new
    BY <1>5, <1>6, <2>2 DEF Linked, Exists
  <2>3. QED
    BY <2>1, <2>2
<1>9. QED
  BY <1>7, <1>8

LEMMA DeleteLinks ==
    ASSUME TypeOK, Linked, NEW q \in Requests, Delete(q)
    PROVE  Aged(q) /\ Linked'
<1> DEFINE u == Target(q)
           owned == {t \in Tokens : token[t].state # "none" /\ token[t].user = u}
<1>1. u \in Users
  BY InputShape
<1>2. ASSUME NEW t \in Tokens
      PROVE  /\ t \in owned => token'[t].state = "deleted" /\ token'[t].user = token[t].user /\ claim[t] = Nobody
             /\ t \notin owned => token'[t] = token[t]
  BY <1>2 DEF Delete, TypeOK, Token
<1>3. \A v \in Users \ {u} : user'[v] = user[v]
  BY DEF Delete, TypeOK
<1>4. \A t \in Tokens : token[t].user \in Users
  BY DEF TypeOK, Token
<1>5. Aged(q)
  BY <1>2, NamesAssumption DEF Aged
<1>6. Linked'
  BY <1>2, <1>3, <1>4 DEF Linked, Exists
<1>7. QED
  BY <1>5, <1>6

LEMMA AfterCreation ==
    ASSUME TypeOK, NEW q \in Requests, NEW r \in Creations(q)
    PROVE  r.code \in Users /\ After(q)[r.code].status = "INVITED"
<1>1. r.code \in Users
  BY PlanShape DEF FileRow
<1>2. PICK e, g : After(q)[r.code] = NewUser(e, g)
  BY <1>1 DEF After
<1>3. NewUser(e, g).status = "INVITED"
  BY DEF NewUser
<1>4. QED
  BY <1>1, <1>2, <1>3

LEMMA AfterStays ==
    ASSUME TypeOK, NEW q \in Requests, NEW u \in Users, Exists(u)
    PROVE  After(q)[u].status # "NONE"
<1>1. ASSUME NEW r \in FileRow, r.code = u PROVE Merged(r).status = user[u].status
  BY <1>1, UserOf DEF Merged, UserRow
<1>2. CASE \E r \in Creations(q) : r.code = u
  BY <1>2, AfterCreation
<1>3. CASE ~(\E r \in Creations(q) : r.code = u) /\ \E r \in Changes(q) : r.code = u
  <2>1. PICK r \in Changes(q) : r.code = u /\ After(q)[u] = Merged(r)
    BY <1>3 DEF After
  <2>2. QED
    BY <1>1, <2>1, PlanShape DEF Exists
<1>4. CASE ~(\E r \in Creations(q) : r.code = u) /\ ~ \E r \in Changes(q) : r.code = u
  BY <1>4 DEF After, Exists
<1>5. QED
  BY <1>2, <1>3, <1>4

LEMMA ApplyLinks ==
    ASSUME TypeOK, Linked, NEW q \in Requests, Apply(q)
    PROVE  Aged(q) /\ Linked'
<1>1. CASE Refuse(q, "DUPLICATE") \/ Refuse(q, "LAST_ADMIN")
  BY <1>1, Rested, SamePeople DEF Refuse, db
<1>2. CASE ~(Refuse(q, "DUPLICATE") \/ Refuse(q, "LAST_ADMIN"))
  <2> DEFINE f == Carrier(q)
  <2>1. user' = After(q) /\ Carriers(q) # {}
        /\ token' = [t \in Tokens |->
             IF \E r \in Creations(q) : f[r] = t
             THEN LET r == CHOOSE x \in Creations(q) : f[x] = t IN Issued(r.code, r.email)
             ELSE token[t]]
    BY <1>2 DEF Apply
  <2>2. f \in [Creations(q) -> Fresh]
    BY <2>1 DEF Carrier, Carriers
  <2>3. Stay /\ \A r \in Creations(q) : r.code \in Users /\ Exists(r.code)'
    BY <2>1, AfterCreation, AfterStays DEF Stay, Exists
  <2>4. ASSUME NEW t \in Tokens, token'[t] # token[t]
        PROVE  t \in Fresh /\ \E u \in Users : \E e : Exists(u)' /\ token'[t] = Issued(u, e)
    <3> HIDE DEF f
    <3>1. PICK r \in Creations(q) : f[r] = t
      BY <2>1, <2>4
    <3>2. PICK x \in Creations(q) : token'[t] = Issued(x.code, x.email)
      BY <2>1, <3>1
    <3>3. QED
      BY <2>2, <2>3, <3>1, <3>2
  <2>5. QED
    BY <2>3, <2>4, IssueAges
<1>3. QED
  BY <1>1, <1>2

LEMMA ClaimCases ==
    ASSUME TypeOK, NEW q \in Requests, Claim(q)
    PROVE  \/ Refuse(q, "TOKEN_EXPIRED")
           \/ /\ token[req[q].tok].state = "open" /\ claim' = [claim EXCEPT ![req[q].tok] = q]
              /\ Goto(q, "password") /\ UNCHANGED <<db, gate, row>>
BY DEF Claim

\* A redeemer's target is there: its token is open.
LEMMA TargetThere ==
    ASSUME TypeOK, Linked, Redeemers, NEW q \in Requests, SetPassword(q)
    PROVE  /\ Target(q) \in Users /\ Exists(Target(q)) /\ req[q].tok \in Tokens
           /\ token[req[q].tok].state = "open" /\ claim[req[q].tok] = q
<1>1. req[q].pc = "password"
  BY DEF SetPassword, At
<1>2. Redeemer(q)
  BY DEF Redeemers
<1>3. QED
  BY <1>1, <1>2, InputShape DEF Redeemer, Linked, Target, In

LEMMA SetPasswordLinks ==
    ASSUME TypeOK, Linked, Redeemers, NEW q \in Requests, SetPassword(q)
    PROVE  Aged(q) /\ Linked'
<1>1. CASE Refuse(q, "ACCOUNT_DISABLED")
  BY <1>1, Rested, SamePeople DEF Refuse, db
<1>2. CASE ~Refuse(q, "ACCOUNT_DISABLED")
  <2>1. PICK u \in Users, x \in Tokens : u = Target(q) /\ x = req[q].tok
    BY TargetThere
  <2>2. PICK r : user' = [user EXCEPT ![u] = r] /\ r = [Forgiven(user[u]) EXCEPT !.status = "ACTIVE", !.hasPassword = TRUE]
    BY <1>2, <2>1 DEF SetPassword
  <2>3. token' = [token EXCEPT ![x].state = "used"]
    BY <1>2, <2>1 DEF SetPassword
  <2>4. r.status = "ACTIVE"
    BY <2>1, <2>2, UserOf DEF Forgiven, UserRow
  <2>5. Stay
    BY <2>2, <2>4, OneStays
  <2>6. ASSUME NEW t \in Tokens
        PROVE  /\ token'[t].user = token[t].user /\ token'[t].mail = token[t].mail
               /\ token'[t].state = IF t = x THEN "used" ELSE token[t].state
    BY <2>3 DEF TypeOK, Token
  <2>7. token[x].state = "open" /\ claim[x] = q
    BY <2>1, TargetThere
  <2>8. \A t \in Tokens : token[t].user \in Users
    BY DEF TypeOK, Token
  <2>9. Aged(q)
    BY <2>6, <2>7 DEF Aged
  <2>10. Linked'
    <3> SUFFICES ASSUME NEW t \in Tokens
                 PROVE  /\ token'[t].state \in {"open", "expired"} => Exists(token[t].user)'
                        /\ token'[t].state = "none" => token'[t].mail = "-"
      BY <2>6 DEF Linked, Exists
    <3> QED BY <2>5, <2>6, <2>8 DEF Linked, Stay, Exists
  <2>11. QED
    BY <2>9, <2>10
<1>3. QED
  BY <1>1, <1>2

\* Only a commit under the gate changes who is there and what they are known by.
LEMMA RecordsKept ==
    ASSUME TypeOK, NEW u \in Users, NEW r, user' = [user EXCEPT ![u] = r],
           r.email = user[u].email, r.role = user[u].role, r.status = "NONE" <=> user[u].status = "NONE"
    PROVE  Identified
<1>1. user'[u] = r /\ \A v \in Users \ {u} : user'[v] = user[v]
  BY DEF TypeOK
<1>2. QED
  BY <1>1 DEF Identified, Kept

LEMMA SetPasswordKeeps ==
    ASSUME TypeOK, Linked, Redeemers, NEW q \in Requests, SetPassword(q)
    PROVE  Identified
<1>1. CASE user' = user
  BY <1>1, SamePeople
<1>2. CASE user' # user
  <2>1. PICK u \in Users : u = Target(q) /\ Exists(u)
    BY TargetThere
  <2>2. PICK r : user' = [user EXCEPT ![u] = r] /\ r = [Forgiven(user[u]) EXCEPT !.status = "ACTIVE", !.hasPassword = TRUE]
    BY <1>2, <2>1 DEF SetPassword, Refuse, db
  <2>3. r.status = "ACTIVE" /\ r.email = user[u].email /\ r.role = user[u].role
    BY <2>1, <2>2, UserOf DEF Forgiven, UserRow
  <2>4. QED
    BY <2>1, <2>2, <2>3, RecordsKept DEF Exists
<1>3. QED
  BY <1>1, <1>2

LEMMA SignInKeeps ==
    ASSUME TypeOK, NEW q \in Requests, SignIn(q)
    PROVE  Identified
<1>1. CASE user' = user
  BY <1>1, SamePeople
<1>2. CASE user' # user
  <2>1. PICK u \in Users : u = Target(q)
    BY InputShape
  <2>2. user[u] \in UserRow
    BY UserOf
  <2>3. PICK r \in {Forgiven(user[u]), Missed(user[u], user[u].failed + 1)} : user' = [user EXCEPT ![u] = r]
    BY <1>2, <2>1 DEF SignIn, Read, Restart, Verify, OpenSession, Enter, Miss, db
  <2>4. r.email = user[u].email /\ r.role = user[u].role /\ r.status = user[u].status
    BY <2>2, <2>3 DEF Forgiven, Missed, UserRow
  <2>5. QED
    BY <2>3, <2>4, RecordsKept
<1>3. QED
  BY <1>1, <1>2

LEMMA OutsideKeeps ==
    ASSUME TypeOK, Linked, Redeemers, NEW q \in Requests, Arrive(q) \/ Work(q),
           req[q].pc \notin {"commit", "apply"}
    PROVE  Identified
<1>1. CASE Arrive(q)
  BY <1>1, SamePeople DEF Arrive, Submit, Follow, Knock, db
<1>2. CASE Administer(q)
  BY <1>2, SamePeople DEF Administer, TakeGate, LockTarget, Check, Classify, Refuse, db,
     Create, Patch, Deactivate, Reactivate, Reissue, Delete, Apply, At
<1>3. CASE Redeem(q)
  BY <1>3, SamePeople, SetPasswordKeeps DEF Redeem, Claim, Refuse, db
<1>4. CASE SignIn(q) \/ Deadlock(q)
  BY <1>4, SamePeople, SignInKeeps DEF Deadlock, db
<1>5. QED
  BY <1>1, <1>2, <1>3, <1>4 DEF Work

LEMMA WorldKeeps ==
    ASSUME TypeOK, World
    PROVE  Identified
<1>1. CASE user' = user
  BY <1>1, SamePeople
<1>2. CASE user' # user
  <2>1. PICK u \in Users : Lapse(u)
    BY <1>2 DEF World, Send, Expire, Maintain
  <2>2. PICK r : r = [user[u] EXCEPT !.lock = "lapsed"] /\ user' = [user EXCEPT ![u] = r]
    BY <2>1 DEF Lapse
  <2>3. r.email = user[u].email /\ r.role = user[u].role /\ r.status = user[u].status
    BY <2>2, UserOf DEF UserRow
  <2>4. QED
    BY <2>2, <2>3, RecordsKept
<1>3. QED
  BY <1>1, <1>2

LEMMA WorldLinks ==
    ASSUME TypeOK, Linked, World
    PROVE  Linked' /\ Aged(Nobody) /\ UNCHANGED <<claim, req>>
<1>1. Stay /\ UNCHANGED <<claim, req>>
  BY WorldKeeps, KeptStay DEF World, Send, Expire, Lapse, Maintain, locks
<1>2. CASE UNCHANGED token
  BY <1>1, <1>2, Rested
<1>3. CASE token' # token
  <2>1. ASSUME NEW t \in Tokens
        PROVE  /\ token'[t].user = token[t].user
               /\ \/ token'[t].state = token[t].state
                  \/ token[t].state = "open" /\ claim[t] = Nobody /\ token'[t].state = "expired"
                  \/ token[t].state \in {"expired", "used"} /\ token'[t].state = "deleted"
               /\ token[t].mail = "-" => token'[t].mail = "-"
    <3>1. token[t] \in Token
      BY DEF TypeOK
    <3>2. CASE \E x \in Tokens : Send(x)
      BY <3>1, <3>2 DEF Send, TypeOK, Token
    <3>3. CASE \E x \in Tokens : Expire(x)
      BY <3>1, <3>3 DEF Expire, TypeOK, Token
    <3>4. CASE Maintain
      BY <3>1, <3>4 DEF Maintain, TypeOK, Token
    <3>5. QED
      BY <1>3, <3>2, <3>3, <3>4 DEF World, Lapse
  <2>2. \A t \in Tokens : token[t].user \in Users
    BY DEF TypeOK, Token
  <2>3. Aged(Nobody)
    BY <2>1, NamesAssumption DEF Aged
  <2>4. Linked'
    <3> SUFFICES ASSUME NEW t \in Tokens
                 PROVE  /\ token'[t].state \in {"open", "expired"} => Exists(token[t].user)'
                        /\ token'[t].state = "none" => token'[t].mail = "-"
      BY <2>1 DEF Linked, Exists
    <3> QED BY <1>1, <2>1, <2>2 DEF Linked, Stay, Exists
  <2>5. QED
    BY <1>1, <2>3, <2>4
<1>4. QED
  BY <1>2, <1>3

LEMMA StepLinks ==
    ASSUME TypeOK, Linked, Redeemers, Present, NEW q \in Requests, Arrive(q) \/ Work(q)
    PROVE  Aged(q) /\ Linked'
<1>1. CASE SetPassword(q)
  BY <1>1, SetPasswordLinks
<1>2. CASE Create(q) \/ Patch(q) \/ Deactivate(q) \/ Reactivate(q) \/ Reissue(q) \/ Delete(q) \/ Apply(q)
  BY <1>2, CreateLinks, RowLinks, ReissueLinks, DeleteLinks, ApplyLinks
<1>3. CASE Arrive(q) \/ SignIn(q)
  <2>1. UNCHANGED token
    BY <1>3 DEF Arrive, Submit, Follow, Knock, SignIn, Read, Restart, Verify, OpenSession, Enter, Miss, db
  <2>2. Stay
    BY <1>3, SignInKeeps, SamePeople, KeptStay DEF Arrive, Submit, Follow, Knock, db
  <2>3. QED
    BY <2>1, <2>2, Rested
<1>4. CASE TakeGate(q) \/ LockTarget(q) \/ Check(q) \/ Classify(q) \/ Claim(q) \/ Deadlock(q)
  <2>1. UNCHANGED <<user, token>>
    BY <1>4 DEF TakeGate, LockTarget, Check, Classify, Claim, Deadlock, Refuse, db
  <2>2. QED
    BY <2>1, SamePeople, Rested
<1>5. QED
  BY <1>1, <1>2, <1>3, <1>4 DEF Work, Administer, Redeem

(* Who follows a link *)

LEMMA RedeemerStands ==
    ASSUME TypeOK, NEW c, Aged(c), NEW p \in Requests, p # c, Redeemer(p), req'[p] = req[p],
           \A t \in Tokens : claim[t] = p => claim'[t] = p
    PROVE  Redeemer(p)'
<1>1. req[p].tok \in Tokens \cup {Nobody}
  BY DEF TypeOK, Request
<1>2. req[p].tok \in Tokens /\ token[req[p].tok].state = "open" /\ claim[req[p].tok] = p
      => token'[req[p].tok].state = "open"
  BY DEF Aged
<1>3. QED
  BY <1>1, <1>2 DEF Redeemer, Aged

LEMMA LinklessRedeemer ==
    ASSUME TypeOK, Redeemers, NEW q \in Requests, req[q].pc \in Linkless, Onward(q)
    PROVE  Redeemer(q)' /\ req'[q].tok = Nobody
<1>1. Redeemer(q)
  BY DEF Redeemers
<1>2. req[q].tok = Nobody
  BY <1>1 DEF Redeemer, Linkless
<1>3. req'[q].pc # "done" => req'[q].answer # "OK"
  BY <1>1 DEF Redeemer, Onward, Linkless
<1>4. QED
  BY <1>2, <1>3 DEF Redeemer, Onward

LEMMA ArrivedRedeemer ==
    ASSUME TypeOK, Linked, NEW q \in Requests, Arrive(q)
    PROVE  Redeemer(q)' /\ req'[q].answer # "OK" /\ Others(q)
<1>1. ASSUME NEW i \in Menu[q], NEW a \in Users, Submit(q, i, a) PROVE Redeemer(q)' /\ req'[q].answer # "OK"
  <2>1. req'[q].tok = Nobody /\ req'[q].pc \in {"done", "gate"} /\ req'[q].answer \in {"-", "CANNOT_MODIFY_SELF"}
    BY <1>1 DEF Submit, TypeOK, Idle
  <2>2. QED
    BY <2>1 DEF Redeemer
<1>2. ASSUME NEW i \in Menu[q], NEW t \in Tokens, Follow(q, i, t) PROVE Redeemer(q)' /\ req'[q].answer # "OK"
  <2>1. i \in Input
    BY InputsAssumption
  <2>2. /\ req'[q].tok = t /\ req'[q].pc = "claim" /\ req'[q].answer = "-"
        /\ req'[q].in.target = token[t].user
    BY <1>2, <2>1 DEF Follow, TypeOK, Idle, Input
  <2>3. token[t].state # "none" /\ UNCHANGED token
    BY <1>2 DEF Follow, Linked, db
  <2>4. QED
    BY <2>2, <2>3 DEF Redeemer
<1>3. ASSUME NEW i \in Menu[q], Knock(q, i) PROVE Redeemer(q)' /\ req'[q].answer # "OK"
  <2>1. req'[q].tok = Nobody /\ req'[q].pc = "read" /\ req'[q].answer = "-"
    BY <1>3 DEF Knock, TypeOK, Idle
  <2>2. QED
    BY <2>1 DEF Redeemer
<1>4. Others(q)
  BY DEF Arrive, Submit, Follow, Knock, TypeOK, Others
<1>5. QED
  BY <1>1, <1>2, <1>3, <1>4 DEF Arrive

\* A request with a link moves on: claims it, spends it, or is turned away.
LEMMA LinkedRedeemer ==
    ASSUME TypeOK, Linked, Redeemers, NEW q \in Requests, Redeem(q) \/ Deadlock(q)
    PROVE  /\ Redeemer(q)' /\ Others(q) /\ req'[q].tok = req[q].tok
           /\ req'[q].answer = "OK" => token[req[q].tok].state = "open"
<1>1. Redeemer(q) /\ req[q].tok \in Tokens \cup {Nobody} /\ req[q] \in Request
  BY DEF Redeemers, TypeOK, Request
<1>2. ASSUME NEW code \in Codes \ {"OK"}, Answer(q, code)
      PROVE  Redeemer(q)' /\ Others(q) /\ req'[q].tok = req[q].tok /\ req'[q].answer # "OK"
  <2>1. Onward(q) /\ req'[q].pc = "done" /\ req'[q].answer = code
    BY <1>2, AnswerOnward
  <2>2. QED
    BY <1>1, <1>2, <2>1 DEF Redeemer, Onward, Codes
<1>3. CASE Claim(q)
  <2>1. CASE Refuse(q, "TOKEN_EXPIRED")
    BY <1>2, <2>1 DEF Refuse, Finish, Codes
  <2>2. CASE /\ token[req[q].tok].state = "open" /\ claim' = [claim EXCEPT ![req[q].tok] = q]
             /\ Goto(q, "password") /\ UNCHANGED <<db, gate, row>>
    <3>1. req'[q] = [req[q] EXCEPT !.pc = "password"] /\ Others(q)
      BY <2>2 DEF Goto, TypeOK, Others
    <3>2. /\ req'[q].pc = "password" /\ req'[q].tok = req[q].tok /\ req'[q].in = req[q].in
          /\ req'[q].answer = req[q].answer
      BY <1>1, <3>1 DEF Request
    <3>3. req[q].pc = "claim"
      BY <1>3 DEF Claim, At
    <3>4. claim'[req[q].tok] = q /\ token' = token
      BY <1>1, <2>2, <3>3 DEF Redeemer, TypeOK, db
    <3>5. QED
      BY <1>1, <2>2, <3>1, <3>2, <3>3, <3>4 DEF Redeemer
  <2>3. QED
    BY <1>3, <2>1, <2>2, ClaimCases
<1>4. CASE SetPassword(q)
  <2>1. CASE Refuse(q, "ACCOUNT_DISABLED")
    BY <1>2, <2>1 DEF Refuse, Finish, Codes
  <2>2. CASE ~Refuse(q, "ACCOUNT_DISABLED")
    <3>1. req[q].tok \in Tokens /\ token[req[q].tok].state = "open"
      BY <1>4, TargetThere
    <3>2. token'[req[q].tok].state = "used"
      BY <1>4, <2>2, <3>1 DEF SetPassword, TypeOK, Token
    <3>3. Onward(q) /\ req'[q].pc = "done" /\ req'[q].answer = "OK"
      BY <1>4, <2>2, AnswerOnward DEF SetPassword, Finish, Codes
    <3>4. QED
      BY <3>1, <3>2, <3>3 DEF Redeemer, Onward
  <2>3. QED
    BY <2>1, <2>2
<1>5. CASE Deadlock(q)
  <2>1. /\ Others(q) /\ req'[q].tok = req[q].tok /\ req'[q].in = req[q].in /\ UNCHANGED token
        /\ \/ req'[q].pc = "done" /\ req'[q].answer = "INTERNAL"
           \/ req[q].pc = "password" /\ req'[q].pc = "claim" /\ req'[q].answer = req[q].answer
           \/ req[q].pc = "commit" /\ req'[q].pc = "gate" /\ req'[q].answer = req[q].answer
    BY <1>5, DeadlockOnward DEF db
  <2>2. CASE req'[q].pc = "done" /\ req'[q].answer = "INTERNAL"
    BY <1>1, <2>1, <2>2 DEF Redeemer
  <2>3. CASE req[q].pc = "password" /\ req'[q].pc = "claim" /\ req'[q].answer = req[q].answer
    BY <1>1, <2>1, <2>3 DEF Redeemer
  <2>4. CASE req[q].pc = "commit" /\ req'[q].pc = "gate" /\ req'[q].answer = req[q].answer
    BY <1>1, <2>1, <2>4 DEF Redeemer
  <2>5. QED
    BY <2>1, <2>2, <2>3, <2>4
<1>6. QED
  BY <1>3, <1>4, <1>5 DEF Redeem

LEMMA StepRedeemers ==
    ASSUME TypeOK, Linked, Redeemers, Present, LinkWorksOnce, NEW q \in Requests, Arrive(q) \/ Work(q)
    PROVE  Redeemers' /\ LinkWorksOnce'
<1>1. Aged(q) /\ OwnClaims(q)
  BY StepLinks, ClaimsOwn
<1>2. /\ Redeemer(q)' /\ Others(q)
      /\ req'[q].answer = "OK" /\ req'[q].tok # Nobody => token[req'[q].tok].state = "open"
  <2>1. CASE Arrive(q)
    BY <2>1, ArrivedRedeemer
  <2>2. CASE Administer(q) \/ SignIn(q)
    BY <2>2, WorkOnward, LinklessRedeemer DEF Onward
  <2>3. CASE Redeem(q) \/ Deadlock(q)
    BY <2>3, LinkedRedeemer
  <2>4. QED
    BY <2>1, <2>2, <2>3 DEF Work
<1>3. ASSUME NEW p \in Requests \ {q} PROVE req'[p] = req[p] /\ Redeemer(p) /\ Redeemer(p)'
  BY <1>1, <1>2, RedeemerStands DEF Others, OwnClaims, Redeemers
<1>4. Redeemers'
  BY <1>2, <1>3 DEF Redeemers
<1>5. ASSUME NEW p \in Requests \ {q}, req'[p].tok # Nobody, req'[p].tok = req'[q].tok, req'[p].answer = "OK",
             req'[q].answer = "OK"
      PROVE  FALSE
  BY <1>2, <1>3, <1>5 DEF Redeemer
<1>6. ASSUME NEW p \in Requests, NEW r \in Requests, req'[p].tok # Nobody, req'[p].tok = req'[r].tok,
             req'[p].answer = "OK", req'[r].answer = "OK", p # r
      PROVE  FALSE
  <2>1. CASE p = q
    BY <1>5, <1>6, <2>1
  <2>2. CASE r = q
    BY <1>5, <1>6, <2>2
  <2>3. CASE p # q /\ r # q
    BY <1>3, <1>6, <2>3 DEF LinkWorksOnce
  <2>4. QED
    BY <2>1, <2>2, <2>3
<1>7. QED
  BY <1>4, <1>6 DEF LinkWorksOnce

LEMMA StepPresent ==
    ASSUME TypeOK, Safe, Linked, Redeemers, Present, NEW q \in Requests, Arrive(q) \/ Work(q)
    PROVE  Present'
<1>1. Others(q)
  BY WorkOnward, ArrivedRedeemer, LinkedRedeemer DEF Work, Onward
<1>2. ASSUME NEW p \in Requests \ {q}, req'[p].pc \in {"check", "commit"}, req'[p].in.op # "create"
      PROVE  user'[req'[p].in.target].status # "NONE"
  <2>1. req'[p] = req[p] /\ req[p].in.target \in Users /\ user[req[p].in.target].status # "NONE"
    BY <1>1, <1>2 DEF Others, Present, Exists, TypeOK, Request, Input
  <2>2. gate = p /\ gate # q
    BY <1>2, <2>1 DEF Safe, Turn, Inside, Admin
  <2>3. req[q].pc \notin {"commit", "apply"}
    BY <2>2 DEF Safe, Turn, Inside, Admin
  <2>4. Identified
    BY <2>3, OutsideKeeps
  <2>5. QED
    BY <2>1, <2>4 DEF Identified, Kept
<1>3. ASSUME req'[q].pc \in {"check", "commit"}, req'[q].in.op # "create"
      PROVE  user'[req'[q].in.target].status # "NONE"
  <2>1. ASSUME NEW pc \in Linkless, Goto(q, pc) PROVE req'[q].in = req[q].in /\ req'[q].pc = pc
    BY <2>1, GotoOnward DEF Onward
  <2>2. CASE LockTarget(q)
    <3>1. Exists(Target(q)) /\ user' = user /\ Goto(q, "check")
      BY <1>3, <2>2, AnswerOnward DEF LockTarget, Refuse, Finish, Codes, db
    <3>2. QED
      BY <2>1, <3>1 DEF Linkless, Exists, Target
  <2>3. CASE Check(q)
    <3>1. req[q].pc = "check" /\ user' = user /\ Goto(q, "commit")
      BY <1>3, <2>3, AnswerOnward DEF Check, At, Refuse, Finish, Codes, db
    <3>2. req'[q].in = req[q].in
      BY <2>1, <3>1 DEF Linkless
    <3>3. QED
      BY <1>3, <3>1, <3>2 DEF Present, Exists
  <2>4. CASE TakeGate(q)
    <3>1. PICK pc \in {"commit", "classify", "row"} : Goto(q, pc) /\ (pc = "commit" => In(q).op = "create")
      BY <2>4 DEF TakeGate
    <3>2. QED
      BY <1>3, <2>1, <3>1 DEF Linkless, In
  <2>5. CASE Classify(q)
    BY <1>3, <2>5, ClassifyOnward
  <2>6. CASE Create(q) \/ Patch(q) \/ Deactivate(q) \/ Reactivate(q) \/ Reissue(q) \/ Delete(q) \/ Apply(q)
    <3>1. \E code \in Codes : Answer(q, code)
      BY <2>6 DEF Create, Patch, Deactivate, Reactivate, Reissue, Delete, Apply, Refuse, Finish, Codes
    <3>2. QED
      BY <1>3, <3>1, AnswerOnward
  <2>7. CASE SignIn(q)
    <3>1. (\E pc \in Linkless \ {"check", "commit"} : Goto(q, pc)) \/ \E code \in Codes : Answer(q, code)
      BY <2>7 DEF SignIn, Read, Restart, Verify, OpenSession, Enter, Miss, Codes, Linkless
    <3>2. QED
      BY <1>3, <3>1, GotoOnward, AnswerOnward
  <2>8. CASE Redeem(q)
    <3>1. Goto(q, "password") \/ \E code \in Codes : Answer(q, code)
      BY <2>8 DEF Redeem, Claim, SetPassword, Refuse, Finish, Codes
    <3>2. "password" \in PCs
      BY DEF PCs
    <3>3. QED
      BY <1>3, <3>1, <3>2, GotoType, AnswerOnward
  <2>9. CASE Deadlock(q)
    BY <1>3, <2>9, DeadlockOnward
  <2>10. CASE Arrive(q)
    <3>1. ASSUME NEW i, NEW a, Submit(q, i, a) PROVE req'[q].pc \in {"done", "gate"}
      BY <3>1 DEF Submit, TypeOK, Idle
    <3>2. ASSUME NEW i, NEW t, Follow(q, i, t) PROVE req'[q].pc = "claim"
      BY <3>2 DEF Follow, TypeOK, Idle
    <3>3. ASSUME NEW i, Knock(q, i) PROVE req'[q].pc = "read"
      BY <3>3 DEF Knock, TypeOK, Idle
    <3>4. QED
      BY <1>3, <2>10, <3>1, <3>2, <3>3 DEF Arrive
  <2>11. QED
    BY <2>2, <2>3, <2>4, <2>5, <2>6, <2>7, <2>8, <2>9, <2>10 DEF Work, Administer
<1>4. QED
  BY <1>2, <1>3 DEF Present, Exists

LEMMA NextLinks ==
    ASSUME TypeOK, Safe, LinkSafe, [Next]_vars
    PROVE  LinkSafe'
<1>1. ASSUME NEW q \in Requests, Arrive(q) \/ Work(q) PROVE LinkSafe'
  BY <1>1, StepLinks, StepRedeemers, StepPresent DEF LinkSafe
<1>2. CASE World
  <2>1. Linked' /\ Aged(Nobody) /\ UNCHANGED <<claim, req>> /\ Identified
    BY <1>2, WorldLinks, WorldKeeps DEF LinkSafe
  <2>2. Redeemers'
    <3>1. ASSUME NEW p \in Requests PROVE Redeemer(p)'
      BY <2>1, RedeemerStands, NamesAssumption DEF LinkSafe, Redeemers
    <3>2. QED
      BY <3>1 DEF Redeemers
  <2>3. \A p \in Requests : req[p].in.target \in Users
    BY DEF TypeOK, Request, Input
  <2>4. Present'
    BY <2>1, <2>3 DEF LinkSafe, Present, Exists, Identified, Kept
  <2>5. QED
    BY <2>1, <2>2, <2>4 DEF LinkSafe, LinkWorksOnce
<1>3. CASE UNCHANGED vars
  BY <1>3 DEF vars, LinkSafe, Linked, Redeemers, Redeemer, Present, LinkWorksOnce, Exists
<1>4. QED
  BY <1>1, <1>2, <1>3 DEF Next

LEMMA InitLinks ==
    ASSUME Init
    PROVE  LinkSafe
<1>1. \A q \in Requests : req[q].pc = "new" /\ req[q].tok = Nobody /\ req[q].answer = "-"
  BY DEF Init, Idle
<1>2. Linked
  <2>1. user = Seed /\ token = Links
    BY DEF Init
  <2>2. \A t \in Tokens : /\ Links[t].state \in {"open", "expired"} => Seed[Links[t].user].status # "NONE"
                          /\ Links[t].state = "none" => Links[t].mail = "-"
    BY SeedAssumption
  <2>3. QED
    BY <2>1, <2>2 DEF Linked, Exists
<1>3. QED
  BY <1>1, <1>2 DEF LinkSafe, Redeemers, Redeemer, Present, LinkWorksOnce

\* However many browsers follow a link, and whatever administrators, files and the nightly clean-up
\* do to the account meanwhile, it sets one password (LinkWorksOnce; the guarded UPDATE of
\* auth/routes.ts POST /auth/set-password).
THEOREM LinkOnce == Spec => []LinkWorksOnce
<1>1. Init => TypeOK /\ Actors /\ Safe /\ LinkSafe
  BY InitTyped, InitSafe, InitLinks
<1>2. TypeOK /\ Actors /\ Safe /\ LinkSafe /\ [Next]_vars => (TypeOK /\ Actors /\ Safe /\ LinkSafe)'
  BY NextTyped, NextSafe, NextLinks
<1>3. LinkSafe => LinkWorksOnce
  BY DEF LinkSafe
<1>4. QED
  BY <1>1, <1>2, <1>3, PTL DEF Spec

----------------------------------------------------------------------------
(* Files *)

Less == {p \in Nat \X Nat : p[1] < p[2]}
LEMMA LeastLength ==
    ASSUME NEW S \in SUBSET Nat, S # {}
    PROVE  \E n \in S : \A m \in S : ~(m < n)
<1>1. IsWellFoundedOn(Less, Nat)
  BY NatLessThanWellFounded DEF OpToRel, Less
<1>2. PICK n \in S : \A m \in S : ~(<<m, n>> \in Less)
  BY <1>1, WFMin
<1>3. \A m \in S : m < n => <<m, n>> \in Less
  BY DEF Less
<1>4. QED
  BY <1>2, <1>3

\* No two accepted rows of a file are about one code or one address, however long the file.  The
\* function that says of each row whether it repeats an accepted one above it exists: otherwise
\* take the least number of rows for which it does not; it is one more than a number for which it
\* does, and what it says of the last row follows from what it says of those above.
LEMMA AcceptedApart ==
    ASSUME NEW file \in Seq(FileRow), NEW actor, NEW r \in Accepted(file, actor),
           NEW s \in Accepted(file, actor), Repeats(r, s)
    PROVE  r = s
<1> DEFINE good == {n \in 1..Len(file) : ~Unacceptable(file[n], actor)}
           Clear(g, n) == \A k \in 1..(n - 1) : k \in good /\ g[k] => ~Repeats(file[n], file[k])
           ok == CHOOSE g : g = [n \in 1..Len(file) |-> Clear(g, n)]
<1>1. \A m \in Nat : \E g : g = [n \in 1..m |-> Clear(g, n)]
  <2> DEFINE Short == {m \in Nat : ~ \E g : g = [n \in 1..m |-> Clear(g, n)]}
  <2>1. SUFFICES ASSUME Short # {} PROVE FALSE
    OBVIOUS
  <2>2. PICK m \in Short : \A n \in Short : ~(n < m)
    BY <2>1, LeastLength
  <2>3. PICK h : h = [n \in 1..(m - 1) |-> Clear(h, n)]
    <3>1. CASE m = 0
      <4> DEFINE e == [n \in 1..(m - 1) |-> FALSE]
      <4>1. \A n \in 1..(m - 1) : FALSE
        BY <3>1
      <4>2. e = [n \in 1..(m - 1) |-> Clear(e, n)]
        BY <4>1
      <4>3. QED
        BY <4>2
    <3>2. CASE m # 0
      <4>1. m - 1 \in Nat /\ m - 1 < m
        BY <3>2
      <4>2. QED
        BY <4>1, <2>2
    <3>3. QED
      BY <3>1, <3>2
  <2> DEFINE g == [n \in 1..m |-> Clear(h, n)]
  <2>4. \A n \in 1..m : Clear(g, n) = Clear(h, n)
    <3>1. ASSUME NEW n \in 1..m, NEW k \in 1..(n - 1) PROVE g[k] = h[k]
      <4>1. k \in 1..m /\ k \in 1..(m - 1)
        BY <3>1
      <4>2. g[k] = Clear(h, k)
        BY <4>1
      <4>3. h[k] = Clear(h, k)
        BY <4>1, <2>3
      <4>4. QED
        BY <4>2, <4>3
    <3> HIDE DEF g
    <3>2. QED
      BY <3>1
  <2>5. g = [n \in 1..m |-> Clear(g, n)]
    BY <2>4
  <2>6. QED
    BY <2>2, <2>5
<1>2. Len(file) \in Nat
  OBVIOUS
<1>3. ok = [n \in 1..Len(file) |-> Clear(ok, n)]
  BY <1>1, <1>2
<1>4. Accepted(file, actor) = {file[n] : n \in {k \in good : ok[k]}}
  BY DEF Accepted
<1> HIDE DEF ok
<1>5. PICK n \in good : r = file[n] /\ ok[n]
  BY <1>4
<1>6. PICK m \in good : s = file[m] /\ ok[m]
  BY <1>4
<1>7. Clear(ok, n) /\ Clear(ok, m)
  BY <1>3, <1>5, <1>6
<1>8. CASE n < m
  <2>1. n \in 1..(m - 1)
    BY <1>2, <1>8
  <2>2. ~Repeats(s, r)
    BY <1>5, <1>6, <1>7, <2>1
  <2>3. QED
    BY <2>2 DEF Repeats
<1>9. CASE m < n
  <2>1. m \in 1..(n - 1)
    BY <1>2, <1>9
  <2>2. QED
    BY <1>5, <1>6, <1>7, <2>1
<1>10. QED
  BY <1>2, <1>5, <1>6, <1>8, <1>9

LEMMA AcceptedShape ==
    ASSUME NEW file \in Seq(FileRow), NEW actor, NEW r \in Accepted(file, actor)
    PROVE  r \in FileRow /\ ~TakenBy(r.code, r.email)
<1>1. PICK n \in 1..Len(file) : r = file[n] /\ ~Unacceptable(file[n], actor)
  BY DEF Accepted
<1>2. file[n] \in FileRow
  OBVIOUS
<1>3. ~TakenBy(file[n].code, file[n].email)
  BY <1>1 DEF Unacceptable
<1>4. QED
  BY <1>1, <1>2, <1>3

LEMMA PlannedForeseen ==
    ASSUME TypeOK, NEW file \in Seq(FileRow), NEW actor
    PROVE  Foreseen(Planned(file, actor))
<1> DEFINE plan == Planned(file, actor)
<1>1. ASSUME NEW p \in plan
      PROVE  p.row \in Accepted(file, actor) /\ p.action = Action(p.row) /\ p = [row |-> p.row, action |-> p.action]
  BY DEF Planned
<1>2. ASSUME NEW p \in plan
      PROVE  /\ ~TakenBy(p.row.code, p.row.email)
             /\ p.action = "CREATE" <=> ~Exists(p.row.code)
             /\ p.action = "SKIP" => /\ user[p.row.code].email = p.row.email
                                     /\ p.row.role \in {"", user[p.row.code].role}
  <2>1. PICK r \in FileRow : r = p.row /\ ~TakenBy(r.code, r.email) /\ p.action = Action(r)
    BY <1>1, AcceptedShape
  <2>2. user[r.code] \in UserRow
    BY UserOf DEF FileRow
  <2>3. /\ Merged(r).email = r.email
        /\ Merged(r).role = IF r.role = "" THEN user[r.code].role ELSE r.role
    BY <2>2 DEF Merged, UserRow
  <2>4. p.action = "SKIP" => Merged(r) = user[r.code]
    BY <2>1 DEF Action
  <2>5. p.action = "CREATE" <=> ~Exists(r.code)
    BY <2>1 DEF Action
  <2>6. QED
    BY <2>1, <2>3, <2>4, <2>5
<1>3. ASSUME NEW p \in plan, NEW s \in plan, p.row.code = s.row.code PROVE p = s
  <2>1. p.row = s.row
    BY <1>1, <1>3, AcceptedApart DEF Repeats
  <2>2. QED
    BY <1>1, <2>1
<1>4. QED
  BY <1>2, <1>3 DEF Foreseen

LEMMA ForeseenStands ==
    ASSUME TypeOK, Identified, NEW plan \in SUBSET Plan, Foreseen(plan)
    PROVE  Foreseen(plan)'
<1>1. \A p \in plan : p.row.code \in Users /\ p.row.email \in Emails
  BY DEF Plan, FileRow
<1>2. \A u \in Users : /\ user'[u].status = "NONE" <=> user[u].status = "NONE"
                       /\ user'[u].email = user[u].email /\ user'[u].role = user[u].role
  BY DEF Identified, Kept
<1>3. \A u \in Users, e \in Emails : TakenBy(u, e)' <=> TakenBy(u, e)
  BY <1>2 DEF TakenBy, Exists
<1>4. QED
  BY <1>1, <1>2, <1>3 DEF Foreseen, Exists

\* Nobody else's row is met by a file whose classification still stands.
LEMMA ForeseenClear ==
    ASSUME NEW q \in Requests, Foreseen(req[q].plan)
    PROVE  ~Collides(q)
<1>1. ASSUME NEW r \in Creations(q) PROVE ~Exists(r.code) /\ ~TakenBy(r.code, r.email)
  BY DEF Creations, Rows, Foreseen
<1>2. ASSUME NEW r \in Changes(q) PROVE ~TakenBy(r.code, r.email)
  BY DEF Changes, Rows, Foreseen
<1>3. QED
  BY <1>1, <1>2 DEF Collides

LEMMA RedeemKeepsInput ==
    ASSUME TypeOK, NEW q \in Requests, Redeem(q)
    PROVE  req'[q].in = req[q].in
<1>1. (\E code \in Codes : Answer(q, code)) \/ Goto(q, "password")
  BY DEF Redeem, Claim, SetPassword, Refuse, Finish, Codes
<1>2. QED
  BY <1>1, AnswerType, GotoType DEF PCs

LEMMA ArrivedAnswer ==
    ASSUME TypeOK, NEW q \in Requests, Arrive(q)
    PROVE  req'[q].answer \in {"-", "CANNOT_MODIFY_SELF"} /\ req'[q].pc \in {"done", "gate", "claim", "read"}
<1>1. ASSUME NEW i, NEW a, Submit(q, i, a)
      PROVE  req'[q].answer \in {"-", "CANNOT_MODIFY_SELF"} /\ req'[q].pc \in {"done", "gate"}
  BY <1>1 DEF Submit, TypeOK, Idle
<1>2. ASSUME NEW i, NEW t, Follow(q, i, t) PROVE req'[q].answer = "-" /\ req'[q].pc = "claim"
  BY <1>2 DEF Follow, TypeOK, Idle
<1>3. ASSUME NEW i, Knock(q, i) PROVE req'[q].answer = "-" /\ req'[q].pc = "read"
  BY <1>3 DEF Knock, TypeOK, Idle
<1>4. QED
  BY <1>1, <1>2, <1>3 DEF Arrive

LEMMA StepOthers ==
    ASSUME TypeOK, Linked, Redeemers, NEW q \in Requests, Arrive(q) \/ Work(q)
    PROVE  /\ Others(q)
           /\ Work(q) => req'[q].in = req[q].in
BY WorkOnward, ArrivedRedeemer, LinkedRedeemer, RedeemKeepsInput, DeadlockOnward DEF Work, Onward

\* A plan is made by the classification and by nothing else.
LEMMA OnlyClassified ==
    ASSUME TypeOK, Redeemers, NEW q \in Requests, Arrive(q) \/ Work(q), req'[q].pc = "apply"
    PROVE  Classify(q)
<1>1. ASSUME NEW code \in Codes, Answer(q, code) PROVE FALSE
  BY <1>1, AnswerOnward
<1>2. ASSUME NEW pc \in PCs \ {"apply"}, Goto(q, pc) PROVE FALSE
  BY <1>2, GotoType
<1>3. CASE Arrive(q)
  BY <1>3, ArrivedAnswer
<1>4. CASE TakeGate(q) \/ LockTarget(q) \/ Check(q)
  <2>1. (\E pc \in PCs \ {"apply"} : Goto(q, pc)) \/ \E code \in Codes : Answer(q, code)
    BY <1>4 DEF TakeGate, LockTarget, Check, Refuse, Finish, Codes, PCs
  <2>2. QED
    BY <1>1, <1>2, <2>1
<1>5. CASE Create(q) \/ Patch(q) \/ Deactivate(q) \/ Reactivate(q) \/ Reissue(q) \/ Delete(q) \/ Apply(q)
  <2>1. \E code \in Codes : Answer(q, code)
    BY <1>5 DEF Create, Patch, Deactivate, Reactivate, Reissue, Delete, Apply, Refuse, Finish, Codes
  <2>2. QED
    BY <1>1, <2>1
<1>6. CASE SignIn(q) \/ Redeem(q)
  <2>1. (\E pc \in PCs \ {"apply"} : Goto(q, pc)) \/ \E code \in Codes : Answer(q, code)
    BY <1>6 DEF SignIn, Read, Restart, Verify, OpenSession, Enter, Miss, Redeem, Claim, SetPassword,
                Refuse, Finish, Codes, PCs
  <2>2. QED
    BY <1>1, <1>2, <2>1
<1>7. CASE Deadlock(q)
  BY <1>7, DeadlockOnward
<1>8. QED
  BY <1>3, <1>4, <1>5, <1>6, <1>7 DEF Work, Administer

\* Whose commit can meet a unique index.
LEMMA OnlyCollided ==
    ASSUME TypeOK, Redeemers, NEW q \in Requests, Arrive(q) \/ Work(q),
           req'[q].answer = "DUPLICATE", req[q].answer # "DUPLICATE"
    PROVE  Create(q) \/ Patch(q) \/ (Apply(q) /\ Collides(q))
<1>1. ASSUME NEW code \in Codes \ {"DUPLICATE"}, Answer(q, code) PROVE FALSE
  BY <1>1, AnswerOnward
<1>2. ASSUME NEW pc \in PCs, Goto(q, pc) PROVE FALSE
  <2>1. req[q] \in Request /\ req'[q] = [req[q] EXCEPT !.pc = pc]
    BY <1>2, GotoType DEF TypeOK
  <2>2. QED
    BY <2>1 DEF Request
<1>3. CASE Arrive(q)
  BY <1>3, ArrivedAnswer
<1>4. CASE TakeGate(q) \/ LockTarget(q) \/ Check(q)
  <2>1. (\E pc \in PCs : Goto(q, pc)) \/ \E code \in Codes \ {"DUPLICATE"} : Answer(q, code)
    BY <1>4 DEF TakeGate, LockTarget, Check, Refuse, Finish, Codes, PCs
  <2>2. QED
    BY <1>1, <1>2, <2>1
<1>5. CASE Deactivate(q) \/ Reactivate(q) \/ Reissue(q) \/ Delete(q)
  <2>1. Answer(q, "OK") /\ "OK" \in Codes \ {"DUPLICATE"}
    BY <1>5 DEF Deactivate, Reactivate, Reissue, Delete, Finish, Codes
  <2>2. QED
    BY <1>1, <2>1
<1>6. CASE Apply(q) /\ ~Collides(q)
  <2>1. \E code \in Codes \ {"DUPLICATE"} : Answer(q, code)
    BY <1>6 DEF Apply, Refuse, Finish, Codes
  <2>2. QED
    BY <1>1, <2>1
<1>7. CASE SignIn(q) \/ Redeem(q)
  <2>1. (\E pc \in PCs : Goto(q, pc)) \/ \E code \in Codes \ {"DUPLICATE"} : Answer(q, code)
    BY <1>7 DEF SignIn, Read, Restart, Verify, OpenSession, Enter, Miss, Redeem, Claim, SetPassword,
                Refuse, Finish, Codes, PCs
  <2>2. QED
    BY <1>1, <1>2, <2>1
<1>8. CASE Deadlock(q)
  BY <1>8, DeadlockOnward
<1>9. CASE Classify(q)
  BY <1>9, ClassifyOnward
<1>10. QED
  BY <1>3, <1>4, <1>5, <1>6, <1>7, <1>8, <1>9 DEF Work, Administer

LEMMA StepFiles ==
    ASSUME TypeOK, Actors, Safe, Linked, Redeemers, FileSafe, NEW q \in Requests, Arrive(q) \/ Work(q)
    PROVE  FileSafe'
<1>1. Others(q) /\ (Work(q) => req'[q].in = req[q].in)
  BY StepOthers
<1>2. ASSUME NEW p \in Requests \ {q}, req'[p].pc = "apply" PROVE Foreseen(req[p].plan)'
  <2>1. req'[p] = req[p] /\ req[p] \in Request /\ Foreseen(req[p].plan)
    BY <1>1, <1>2 DEF Others, FileSafe, TypeOK
  <2>2. gate = p /\ gate # q
    BY <1>2, <2>1 DEF Safe, Turn, Inside, Admin
  <2>3. req[q].pc \notin {"commit", "apply"}
    BY <2>2 DEF Safe, Turn, Inside, Admin
  <2>4. PICK plan \in SUBSET Plan : plan = req[p].plan
    BY <2>1 DEF Request
  <2>5. Foreseen(plan)'
    BY <2>1, <2>3, <2>4, OutsideKeeps, ForeseenStands
  <2>6. QED
    BY <2>1, <2>4, <2>5
<1>3. ASSUME req'[q].pc = "apply" PROVE Foreseen(req[q].plan)'
  <2>1. Classify(q)
    BY <1>3, OnlyClassified
  <2>2. PICK file \in Seq(FileRow), actor \in Users \cup {Nobody} : file = In(q).file /\ actor = req[q].actor
    BY InputShape DEF TypeOK, Request
  <2>3. PICK plan : plan = Planned(file, actor)
    OBVIOUS
  <2>4. req'[q].plan = plan
    BY <2>1, <2>2, <2>3, ClassifyOnward
  <2>5. plan \in SUBSET Plan
    BY <2>1, <2>4, ClassifyTyped DEF TypeOK, Request
  <2>6. Foreseen(plan)
    BY <2>3, PlannedForeseen
  <2>7. Identified
    BY <2>1, SamePeople DEF Classify, db
  <2>8. Foreseen(plan)'
    BY <2>5, <2>6, <2>7, ForeseenStands
  <2>9. QED
    BY <2>4, <2>8
<1>4. ASSUME req'[q].in.op = "import", req'[q].answer = "DUPLICATE" PROVE FALSE
  <2>1. CASE req[q].answer = "DUPLICATE"
    <3>1. ~Work(q)
      BY <1>1, <1>4, <2>1 DEF FileSafe
    <3>2. QED
      BY <1>4, <3>1, ArrivedAnswer
  <2>2. CASE req[q].answer # "DUPLICATE"
    <3>1. Create(q) \/ Patch(q) \/ (Apply(q) /\ Collides(q))
      BY <1>4, <2>2, OnlyCollided
    <3>2. req[q].in.op = "import"
      BY <1>1, <1>4, <3>1 DEF Work, Administer
    <3>3. Apply(q) /\ Collides(q)
      BY <3>1, <3>2 DEF Create, Patch, In
    <3>4. Foreseen(req[q].plan)
      BY <3>3 DEF Apply, At, FileSafe
    <3>5. QED
      BY <3>3, <3>4, ForeseenClear
  <2>3. QED
    BY <2>1, <2>2
<1>5. ASSUME NEW p \in Requests \ {q}, req'[p].in.op = "import" PROVE req'[p].answer # "DUPLICATE"
  BY <1>1, <1>5 DEF Others, FileSafe
<1>6. QED
  BY <1>2, <1>3, <1>4, <1>5 DEF FileSafe

LEMMA NextFiles ==
    ASSUME TypeOK, Actors, Safe, Linked, Redeemers, FileSafe, [Next]_vars
    PROVE  FileSafe'
<1>1. ASSUME NEW q \in Requests, Arrive(q) \/ Work(q) PROVE FileSafe'
  BY <1>1, StepFiles
<1>2. CASE World \/ UNCHANGED vars
  <2>1. req' = req /\ Identified
    BY <1>2, WorldKeeps, SamePeople DEF World, Send, Lapse, Expire, Maintain, vars
  <2>2. ASSUME NEW p \in Requests, req[p].pc = "apply" PROVE Foreseen(req[p].plan)'
    <3>1. PICK plan \in SUBSET Plan : plan = req[p].plan
      BY DEF TypeOK, Request
    <3>2. Foreseen(plan)'
      BY <2>1, <2>2, <3>1, ForeseenStands DEF FileSafe
    <3>3. QED
      BY <2>1, <3>1, <3>2
  <2>3. QED
    BY <2>1, <2>2 DEF FileSafe
<1>3. QED
  BY <1>1, <1>2 DEF Next

LEMMA InitFiles ==
    ASSUME Init
    PROVE  FileSafe
BY DEF Init, Idle, FileSafe

\* The whole inductive invariant.
AllSafe == TypeOK /\ Actors /\ Safe /\ LinkSafe /\ FileSafe
LEMMA AllSafeInvariant == Spec => []AllSafe
<1>1. Init => AllSafe
  BY InitTyped, InitSafe, InitLinks, InitFiles DEF AllSafe
<1>2. AllSafe /\ [Next]_vars => AllSafe'
  BY NextTyped, NextSafe, NextLinks, NextFiles DEF AllSafe, LinkSafe
<1>3. QED
  BY <1>1, <1>2, PTL DEF Spec

\* One administrator's file never meets a row that another one, a single creation, a sign-in or
\* a link put in its way after it was classified (ImportNeverCollides; import.ts runImport).
THEOREM ImportClear == Spec => []ImportNeverCollides
<1>1. AllSafe => ImportNeverCollides
  BY DEF AllSafe, FileSafe, ImportNeverCollides, In
<1>2. QED
  BY <1>1, AllSafeInvariant, PTL

(* What an applied file leaves *)

\* A row that says what the account is already known by is skipped.
LEMMA SameRowSkips ==
    ASSUME NEW r \in FileRow, NEW w \in UserRow, w.status # "NONE", w.email = r.email,
           r.role \in {"", w.role}, user'[r.code] = w
    PROVE  Action(r)' = "SKIP"
<1>1. [w EXCEPT !.email = r.email, !.role = IF r.role = "" THEN w.role ELSE r.role] = w
  BY DEF UserRow
<1>2. QED
  BY <1>1 DEF Action, Merged, Exists

LEMMA Settled ==
    ASSUME TypeOK, NEW q \in Requests, Foreseen(req[q].plan), user' = After(q), NEW p \in req[q].plan
    PROVE  Action(p.row)' = "SKIP"
<1>1. PICK r \in FileRow : r = p.row
  BY DEF TypeOK, Request, Plan
<1>2. p.action \in {"CREATE", "UPDATE", "SKIP"}
  BY DEF TypeOK, Request, Plan
<1>3. PICK u \in Users : u = r.code
  BY DEF FileRow
<1>4. ASSUME NEW x \in Creations(q), x.code = u PROVE x = r /\ p.action = "CREATE"
  BY <1>1, <1>3, <1>4 DEF Creations, Rows, Foreseen
<1>5. ASSUME NEW x \in Changes(q), x.code = u PROVE x = r /\ p.action = "UPDATE"
  BY <1>1, <1>3, <1>5 DEF Changes, Rows, Foreseen
<1>6. user[u] \in UserRow /\ user[u].role \in Roles
  BY UserOf
<1>7. PICK w \in UserRow : w = user'[u]
  BY AfterType
<1>8. w = After(q)[u]
  BY <1>7
<1>9. w.status # "NONE" /\ w.email = r.email /\ r.role \in {"", w.role}
  <2>1. CASE p.action = "CREATE"
    <3>1. r \in Creations(q)
      BY <1>1, <2>1 DEF Creations, Rows
    <3>2. w = NewUser(r.email, IF r.role = "" THEN "EMPLOYEE" ELSE r.role)
      BY <1>3, <1>4, <1>8, <3>1 DEF After
    <3>3. QED
      BY <3>2 DEF NewUser
  <2>2. CASE p.action = "UPDATE"
    <3>1. r \in Changes(q) /\ ~ \E x \in Creations(q) : x.code = u
      BY <1>1, <1>4, <2>2 DEF Changes, Rows
    <3>2. w = Merged(r)
      BY <1>3, <1>5, <1>8, <3>1 DEF After
    <3>3. user[u].status # "NONE"
      BY <1>1, <1>3, <2>2 DEF Foreseen, Exists
    <3>4. QED
      BY <1>3, <1>6, <3>2, <3>3 DEF Merged, UserRow
  <2>3. CASE p.action = "SKIP"
    <3>1. ~(\E x \in Creations(q) : x.code = u) /\ ~ \E x \in Changes(q) : x.code = u
      BY <1>4, <1>5, <2>3
    <3>2. w = user[u]
      BY <1>8, <3>1 DEF After
    <3>3. user[u].status # "NONE" /\ user[u].email = r.email /\ r.role \in {"", user[u].role}
      BY <1>1, <1>3, <2>3 DEF Foreseen, Exists
    <3>4. QED
      BY <3>2, <3>3
  <2>4. QED
    BY <1>2, <2>1, <2>2, <2>3
<1>10. QED
  BY <1>1, <1>3, <1>7, <1>9, SameRowSkips

\* Only its own commit ends a file with OK.
LEMMA OnlyApplied ==
    ASSUME TypeOK, Linked, Redeemers, Next, NEW q \in Requests, req[q].pc = "apply",
           req'[q].pc = "done", req'[q].answer = "OK"
    PROVE  Apply(q)
<1>1. CASE World
  BY <1>1 DEF World, Send, Lapse, Expire, Maintain
<1>2. ASSUME NEW p \in Requests \ {q}, Arrive(p) \/ Work(p) PROVE FALSE
  BY <1>2, StepOthers DEF Others
<1>3. CASE Arrive(q) \/ SignIn(q) \/ Redeem(q)
  BY <1>3 DEF Arrive, Submit, Follow, Knock, SignIn, Read, Restart, Verify, OpenSession, Enter, Miss,
              Redeem, Claim, SetPassword, At
<1>4. CASE Administer(q)
  BY <1>4 DEF Administer, TakeGate, LockTarget, Check, Create, Patch, Deactivate, Reactivate, Reissue,
              Delete, Classify, At
<1>5. CASE Deadlock(q)
  BY <1>5, DeadlockOnward
<1>6. QED
  BY <1>1, <1>2, <1>3, <1>4, <1>5 DEF Next, Work

LEMMA ApplyCases ==
    ASSUME TypeOK, NEW q \in Requests, Apply(q), req'[q].answer = "OK"
    PROVE  user' = After(q)
<1>1. ASSUME NEW code \in Codes \ {"OK"}, Refuse(q, code) PROVE FALSE
  BY <1>1, AnswerOnward DEF Refuse, Finish
<1>2. ~Refuse(q, "DUPLICATE") /\ ~Refuse(q, "LAST_ADMIN")
  BY <1>1 DEF Codes
<1>3. QED
  BY <1>2 DEF Apply

LEMMA StepSettles ==
    ASSUME AllSafe, [Next]_vars, NEW q \in Requests, req[q].pc = "apply", req'[q].pc = "done",
           req'[q].answer = "OK", NEW p \in req[q].plan
    PROVE  Action(p.row)' = "SKIP"
<1>1. TypeOK /\ Linked /\ Redeemers /\ Foreseen(req[q].plan)
  BY DEF AllSafe, LinkSafe, FileSafe
<1>2. Next
  BY DEF vars
<1>3. user' = After(q)
  BY <1>1, <1>2, OnlyApplied, ApplyCases
<1>4. QED
  BY <1>1, <1>3, Settled

\* A file that was applied has settled its accepted rows, of whatever length it is: classified
\* again at once it would change nothing (ImportSettles; import.ts classify and apply).
THEOREM FilesSettle == Spec => ImportSettles
<1>1. AllSafe /\ [Next]_vars =>
        [\A q \in Requests :
           /\ req[q].pc = "apply" /\ req'[q].pc = "done" /\ req'[q].answer = "OK"
           => \A p \in req[q].plan : Action(p.row)' = "SKIP"]_vars
  BY StepSettles
<1>2. QED
  BY <1>1, AllSafeInvariant, PTL DEF Spec, ImportSettles

=============================================================================
