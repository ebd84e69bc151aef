---------------------------- MODULE RateLimiter ----------------------------
(***************************************************************************)
(* createRateLimiter (lib/rate-limit.ts): for each key the log of the      *)
(* accepted calls that are still inside the sliding window.  A refused     *)
(* call is not logged, and its caller is told how long to wait.            *)
(***************************************************************************)
EXTENDS Integers, FiniteSets

CONSTANTS
    Keys,     \* session cookies, addresses, user ids, each in one limiter's map
    Map,      \* the keys that share the map of a key
    Limit,    \* calls in a window
    Window,   \* windowMs
    Second,   \* 1000, in the unit of Window
    Crowd,    \* the number of keys that starts the lazy sweep (10_000)
    MaxNow, MaxCalls   \* bounds on the clock and on the calls served

ASSUME LimiterAssumption ==
    /\ Map \in [Keys -> SUBSET Keys] /\ Limit \in Nat \ {0} /\ Window \in Nat \ {0} /\ Second \in Nat \ {0} /\ Crowd \in Nat
    /\ MaxNow \in Nat /\ MaxCalls \in Nat

VARIABLES
    now,      \* Date.now()
    calls,    \* number of calls so far: tells stamps of the same instant apart
    hits,     \* the map of the limiter
    served,   \* history: every accepted call since the process started
    told      \* when the last refused caller was told to come back; Never after an accepted call

vars == <<now, calls, hits, served, told>>

Stamp == [at : Nat, no : Nat]
Never == -1

Init ==
    /\ now = 0 /\ calls = 0
    /\ hits = [k \in Keys |-> {}] /\ served = [k \in Keys |-> {}] /\ told = [k \in Keys |-> Never]

\* Deviation: the window is one unit short.
KeptShort(k) == {s \in hits[k] : s.at > now - Window + 1}
Kept(k) == {s \in hits[k] : s.at > now - Window}

Crowded(k) == Cardinality({j \in Map[k] : hits[j] # {}}) > Crowd

\* The map without abandoned keys, once it is crowded.
Swept(k) == [j \in Keys |-> IF Crowded(k) /\ j \in Map[k] /\ Kept(j) = {} THEN {} ELSE hits[j]]

Oldest(k) == CHOOSE s \in Kept(k) : \A r \in Kept(k) : s.at <= r.at
AtLeast(a, b) == IF a >= b THEN a ELSE b
\* Deviation: rounded down.
RetryAfterFloor(k) == AtLeast(1, (Oldest(k).at + Window - now) \div Second)
\* retry_after_seconds: rounded up, at least one.
RetryAfter(k) == AtLeast(1, (Oldest(k).at + Window - now + Second - 1) \div Second)

\* assertWithinLimit returns.
Serve(k) ==
    /\ Cardinality(Kept(k)) < Limit
    /\ calls < MaxCalls /\ calls' = calls + 1
    /\ LET stamp == [at |-> now, no |-> calls] IN
         /\ hits' = [Swept(k) EXCEPT ![k] = Kept(k) \cup {stamp}]
         /\ served' = [served EXCEPT ![k] = served[k] \cup {stamp}]
    /\ told' = [told EXCEPT ![k] = Never] /\ UNCHANGED now

\* assertWithinLimit throws RATE_LIMITED.
TurnAway(k) ==
    /\ Cardinality(Kept(k)) >= Limit
    /\ hits' = [Swept(k) EXCEPT ![k] = Kept(k)]
    /\ told' = [told EXCEPT ![k] = now + Second * RetryAfter(k)]
    /\ UNCHANGED <<now, calls, served>>

\* A restart: the memory of the process is gone.
Restart ==
    /\ hits' = [k \in Keys |-> {}] /\ served' = [k \in Keys |-> {}] /\ told' = [k \in Keys |-> Never]
    /\ UNCHANGED <<now, calls>>

Advance == now < MaxNow /\ now' = now + 1 /\ UNCHANGED <<calls, hits, served, told>>

Next == (\E k \in Keys : Serve(k) \/ TurnAway(k)) \/ Restart \/ Advance
Spec == Init /\ [][Next]_vars

----------------------------------------------------------------------------
(* Properties *)

TypeOK ==
    /\ now \in Nat /\ calls \in Nat
    /\ hits \in [Keys -> SUBSET Stamp] /\ served \in [Keys -> SUBSET Stamp]
    /\ told \in [Keys -> Nat \cup {Never}]

InWindow(k, t) == {s \in served[k] : t - Window < s.at /\ s.at <= t}

\* However calls are spaced, no window of that length, wherever it begins, holds more accepted
\* calls of one key than the limit (the "sliding window" of the comment, not fixed buckets).
NeverMoreThanLimit == \A k \in Keys : \A t \in 0..now : Cardinality(InWindow(k, t)) <= Limit

\* Whoever comes back when the Retry-After header says, and was not overtaken by another call
\* of the same key, is served.
RetryIsServed ==
    \A k \in Keys : told[k] # Never /\ now >= told[k] => Cardinality(Kept(k)) < Limit
=============================================================================
