------------------------------ MODULE Callers ------------------------------
(* What a client of the API meets: the pages of the employee application, any request of which *)
(* may be answered 429, and the limiter that gives that answer.  Pages leaves open when it is  *)
(* given and the limiter does not look at what it turns away, so a behaviour is one of either. *)
EXTENDS Pages, RateLimiter

VARIABLE side    \* of the API: a tab that calls it, or its limiter

CallersInit == PagesInit /\ Init /\ side \in {"tab", "limiter"}

CallersNext ==
    \/ side = "tab" /\ PagesNext /\ UNCHANGED <<vars, side>>
    \/ side = "limiter" /\ Next /\ UNCHANGED <<pagesVars, side>>

\* The browser runs the timer of the page's poll.
CallersSpec ==
    CallersInit /\ [][CallersNext]_<<pagesVars, vars, side>> /\ WF_pagesVars(Poll)
=============================================================================
