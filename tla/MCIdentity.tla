----------------------------- MODULE MCIdentity -----------------------------
(* Instances of Identity: two administrators, one of them
   with an expired lock, an invited account, a code not yet in use. *)
EXTENDS Identity, TLC

CONSTANTS a1, a2, e1, x, q3

Person(status, role, email, pw) ==
    [status |-> status, role |-> role, email |-> email, hasPassword |-> pw, failed |-> 0, lock |-> "open"]

SeedTwo == (a1 :> Person("ACTIVE", "ADMIN", "a1", TRUE)) @@ (a2 :> [Person("ACTIVE", "ADMIN", "a2", TRUE) EXCEPT !.failed = Limit, !.lock = "lapsed"])
           @@ (e1 :> Person("INVITED", "EMPLOYEE", "e1", FALSE))
           @@ (x :> Person("NONE", "EMPLOYEE", "x", FALSE))

NoToken == [state |-> "none", user |-> a1, to |-> "a1", mail |-> "-"]
LinksOne == [t \in Tokens |-> IF t = 1 THEN [state |-> "open", user |-> e1, to |-> "e1", mail |-> "SENT"]
                                       ELSE NoToken]

Do(op, u)       == [op |-> op, target |-> u, role |-> "", email |-> "", file |-> <<>>]
Role(u, role)   == [Do("patch", u) EXCEPT !.role = role]
Move(u, email)  == [Do("patch", u) EXCEPT !.email = email]
Import(file)    == [Do("import", a1) EXCEPT !.file = file]
Line(c, e, role) == [code |-> c, email |-> e, role |-> role]

\* Two files: one demotes both administrators and promotes the invited account, the other
\* creates a code and repeats its address.
Purge == <<Line(a1, "a1", "EMPLOYEE"), Line(a2, "a2", "EMPLOYEE"), Line(e1, "e1", "ADMIN")>>
Hire  == <<Line(x, "x", ""), Line(e1, "x", "")>>

Anything ==
    {Do("setPassword", e1), Do("signIn", a2), [Do("create", x) EXCEPT !.email = "x"], Do("deactivate", a2),
     Do("deactivate", e1), Do("reset", e1), Do("delete", e1), Role(a1, "EMPLOYEE"),
     Role(a2, "EMPLOYEE"), Role(e1, "ADMIN"), Move(e1, "e2"), Import(Purge), Import(Hire)}
AfterThought == {Do("signIn", a2), Do("reactivate", e1)}
EveryMenu == [q \in Requests |-> IF q = q3 THEN AfterThought ELSE Anything]

RequestSymmetry == Permutations(Requests \ {q3})
=============================================================================
