---------------------------- MODULE CallersProofs ----------------------------
(***************************************************************************)
(* For every number of slots, titles, presses, bookings, keys and calls:   *)
(* what the pages of the employee application and the limiter promise.     *)
(*                                                                         *)
(* The limiter: what it has forgotten is older than the window that ends   *)
(* now, and a window that ended earlier gains no calls.                    *)
(*                                                                         *)
(* The pages: a booking changes only by a new version and keeps the key it *)
(* was created under, so what was carried out can be read from the         *)
(* bookings, what was seen of a version is what that version says, and     *)
(* everything under a form's key is about the slot of that form.           *)
(***************************************************************************)
EXTENDS Callers, FiniteSetTheorems, WellFoundedInduction, TLAPS

----------------------------------------------------------------------------
(* The limiter *)

\* What is still in the window that ends now is in the log.
Complete ==
    \A k \in Keys : /\ IsFiniteSet(served[k]) /\ hits[k] \subseteq served[k]
                    /\ \A s \in served[k] : s.at <= now
                    /\ \A s \in served[k] : s.at > now - Window => s \in hits[k]
\* At the time told, the log will have room.
Promise ==
    \A k \in Keys : told[k] # Never =>
        Cardinality({s \in hits[k] : s.at > told[k] - Window}) < Limit
Inv == TypeOK /\ Complete /\ NeverMoreThanLimit /\ Promise

LEMMA Smaller ==
    ASSUME NEW S, NEW T, IsFiniteSet(T), S \subseteq T
    PROVE  /\ IsFiniteSet(S) /\ Cardinality(S) \in Nat /\ Cardinality(T) \in Nat
           /\ Cardinality(S) <= Cardinality(T)
BY FS_Subset, FS_CardinalityType

\* A finite log that is not empty has an oldest stamp: one with the fewest stamps before it.
LEMMA OldestExists ==
    ASSUME NEW S, S \subseteq Stamp, IsFiniteSet(S), S # {}
    PROVE  \E s \in S : \A r \in S : s.at <= r.at
<1> DEFINE Before(s) == {r \in S : r.at < s.at}
           T == {Before(s) : s \in S}
<1>1. IsWellFoundedOn(StrictSubsetOrdering(S), SUBSET S)
  <2>1. FiniteSubsetsOf(S) = SUBSET S
    BY FS_FiniteSubsetsOfFinite
  <2>2. IsWellFoundedOn(StrictSubsetOrdering(S), FiniteSubsetsOf(S))
    BY FS_StrictSubsetOrderingWellFounded
  <2>3. QED
    BY <2>1, <2>2
<1>2. T \subseteq SUBSET S /\ T # {}
  OBVIOUS
<1> HIDE DEF T
<1>3. PICK x \in T : \A y \in T : <<y, x>> \notin StrictSubsetOrdering(S)
  BY <1>1, <1>2, WFMin
<1>4. PICK s \in S : x = Before(s)
  BY DEF T
<1>5. ASSUME NEW r \in S, r.at < s.at PROVE FALSE
  <2>1. r.at \in Nat /\ s.at \in Nat
    BY DEF Stamp
  <2>2. Before(r) \subseteq Before(s)
    <3>1. ASSUME NEW q \in S, q.at < r.at PROVE q.at < s.at
      BY <1>5, <2>1, <3>1 DEF Stamp
    <3>2. QED
      BY <3>1
  <2>3. r \in Before(s) /\ r \notin Before(r)
    BY <1>5, <2>1
  <2>4. Before(r) \in T /\ Before(r) \in SUBSET S /\ Before(s) \in SUBSET S
    BY DEF T
  <2> HIDE DEF Before
  <2>5. <<Before(r), x>> \in StrictSubsetOrdering(S)
    BY <1>4, <2>2, <2>3, <2>4 DEF StrictSubsetOrdering
  <2>6. QED
    BY <1>3, <2>4, <2>5
<1>6. QED
  <2>1. \A r \in S : s.at \in Nat /\ r.at \in Nat
    BY DEF Stamp
  <2>2. QED
    BY <1>5, <2>1

LEMMA RoundedUp ==
    ASSUME NEW a \in Nat, NEW b \in Nat \ {0}
    PROVE  b * ((a + b - 1) \div b) >= a
<1>1. a + b - 1 = b * ((a + b - 1) \div b) + ((a + b - 1) % b)
  BY SMT
<1>2. (a + b - 1) % b \in 0..(b - 1)
  BY SMT
<1>3. (a + b - 1) \div b \in Int
  BY SMT
<1>4. QED
  BY <1>1, <1>2, <1>3, SMT

\* The log of a key inside the window is small, and is what was served in it.
LEMMA KeptBounds ==
    ASSUME Inv, NEW k \in Keys
    PROVE  /\ IsFiniteSet(Kept(k)) /\ Kept(k) \subseteq served[k] /\ Kept(k) \subseteq InWindow(k, now)
           /\ Cardinality(Kept(k)) \in Nat /\ Cardinality(Kept(k)) <= Limit
<1>1. Kept(k) \subseteq served[k] /\ Kept(k) \subseteq InWindow(k, now)
  BY DEF Inv, Complete, Kept, InWindow
<1>2. IsFiniteSet(InWindow(k, now)) /\ Cardinality(InWindow(k, now)) <= Limit
  <2>1. InWindow(k, now) \subseteq served[k] /\ IsFiniteSet(served[k])
    BY DEF InWindow, Inv, Complete
  <2>2. now \in 0..now
    BY DEF Inv, TypeOK
  <2>3. QED
    BY <2>1, <2>2, Smaller DEF Inv, NeverMoreThanLimit
<1>3. QED
  BY <1>1, <1>2, Smaller, LimiterAssumption

LEMMA SweptKeeps ==
    ASSUME Inv, NEW k \in Keys
    PROVE  /\ Swept(k) \in [Keys -> SUBSET Stamp]
           /\ \A j \in Keys : Swept(k)[j] \subseteq hits[j] /\ Kept(j) \subseteq Swept(k)[j]
BY DEF Inv, TypeOK, Swept, Kept

\* Where the log of a key only loses what is out of the window, nothing is lost of Inv.
LEMMA QuietKey ==
    ASSUME Inv, NEW k \in Keys, now' = now, served'[k] = served[k], told'[k] = told[k],
           hits'[k] \subseteq hits[k], Kept(k) \subseteq hits'[k]
    PROVE  /\ IsFiniteSet(served'[k]) /\ hits'[k] \subseteq served'[k]
           /\ \A s \in served'[k] : s.at <= now' /\ (s.at > now' - Window => s \in hits'[k])
           /\ \A t \in 0..now' : Cardinality(InWindow(k, t)') <= Limit
           /\ told'[k] # Never => Cardinality({s \in hits'[k] : s.at > told'[k] - Window}) < Limit
<1>1. \A t : InWindow(k, t)' = InWindow(k, t)
  BY DEF InWindow
<1>2. ASSUME told[k] # Never PROVE Cardinality({s \in hits'[k] : s.at > told[k] - Window}) < Limit
  <2>1. {s \in hits'[k] : s.at > told[k] - Window} \subseteq {s \in hits[k] : s.at > told[k] - Window}
    OBVIOUS
  <2>2. {s \in hits[k] : s.at > told[k] - Window} \subseteq served[k] /\ IsFiniteSet(served[k])
    BY DEF Inv, Complete
  <2>3. IsFiniteSet({s \in hits[k] : s.at > told[k] - Window})
    BY <2>2, Smaller
  <2>4. Cardinality({s \in hits[k] : s.at > told[k] - Window}) < Limit
    BY <1>2 DEF Inv, Promise
  <2>5. QED
    BY <2>1, <2>3, <2>4, Smaller, LimiterAssumption
<1>3. QED
  BY <1>1, <1>2 DEF Inv, Complete, NeverMoreThanLimit, Kept

LEMMA ServeKeeps ==
    ASSUME Inv, NEW k \in Keys, Serve(k)
    PROVE  Inv'
<1> DEFINE stamp == [at |-> now, no |-> calls]
<1>1. stamp \in Stamp /\ stamp.at = now
  BY DEF Stamp, Inv, TypeOK
<1>2. /\ hits' = [Swept(k) EXCEPT ![k] = Kept(k) \cup {stamp}] /\ now' = now
      /\ served' = [served EXCEPT ![k] = served[k] \cup {stamp}]
      /\ told' = [told EXCEPT ![k] = Never] /\ calls' = calls + 1
      /\ Cardinality(Kept(k)) < Limit
  BY DEF Serve
<1> HIDE DEF stamp
<1>3. TypeOK'
  BY <1>1, <1>2, SweptKeeps DEF Inv, TypeOK, Kept, Never
<1>4. ASSUME NEW j \in Keys \ {k}
      PROVE  served'[j] = served[j] /\ told'[j] = told[j] /\ hits'[j] \subseteq hits[j] /\ Kept(j) \subseteq hits'[j]
  BY <1>2, SweptKeeps DEF Inv, TypeOK
<1>5. served'[k] = served[k] \cup {stamp} /\ hits'[k] = Kept(k) \cup {stamp} /\ told'[k] = Never
  BY <1>2, SweptKeeps DEF Inv, TypeOK
<1>6. IsFiniteSet(served'[k]) /\ hits'[k] \subseteq served'[k]
  <2>1. IsFiniteSet(served[k]) /\ Kept(k) \subseteq served[k]
    BY KeptBounds DEF Inv, Complete
  <2>2. IsFiniteSet(served[k] \cup {stamp})
    BY <2>1, FS_AddElement
  <2>3. QED
    BY <1>5, <2>1, <2>2
<1>7. \A s \in served'[k] : s.at <= now' /\ (s.at > now' - Window => s \in hits'[k])
  BY <1>1, <1>2, <1>5 DEF Inv, Complete, Kept, TypeOK, Stamp
<1>8. ASSUME NEW t \in 0..now' PROVE Cardinality(InWindow(k, t)') <= Limit
  <2>1. CASE t < now
    <3>1. InWindow(k, t)' = InWindow(k, t)
      BY <1>1, <1>5, <2>1 DEF InWindow, Inv, TypeOK
    <3>2. QED
      BY <1>2, <3>1 DEF Inv, NeverMoreThanLimit
  <2>2. CASE t = now
    <3>1. InWindow(k, t)' \subseteq Kept(k) \cup {stamp}
      BY <1>5, <2>2 DEF InWindow, Kept, Inv, Complete
    <3>2. IsFiniteSet(Kept(k) \cup {stamp}) /\ Cardinality(Kept(k) \cup {stamp}) <= Cardinality(Kept(k)) + 1
      <4>1. IsFiniteSet(Kept(k)) /\ Cardinality(Kept(k)) \in Nat
        BY KeptBounds
      <4>2. IsFiniteSet(Kept(k) \cup {stamp})
            /\ Cardinality(Kept(k) \cup {stamp}) \in {Cardinality(Kept(k)), Cardinality(Kept(k)) + 1}
        BY <4>1, FS_AddElement
      <4>3. QED
        BY <4>1, <4>2
    <3>3. QED
      BY <1>2, <3>1, <3>2, Smaller, KeptBounds, LimiterAssumption
  <2>3. QED
    BY <1>2, <2>1, <2>2 DEF Inv, TypeOK
<1>9. \A j \in Keys : /\ IsFiniteSet(served'[j]) /\ hits'[j] \subseteq served'[j]
                      /\ \A s \in served'[j] : s.at <= now' /\ (s.at > now' - Window => s \in hits'[j])
                      /\ \A t \in 0..now' : Cardinality(InWindow(j, t)') <= Limit
                      /\ told'[j] # Never => Cardinality({s \in hits'[j] : s.at > told'[j] - Window}) < Limit
  <2>1. ASSUME NEW j \in Keys, j # k
        PROVE  /\ IsFiniteSet(served'[j]) /\ hits'[j] \subseteq served'[j]
               /\ \A s \in served'[j] : s.at <= now' /\ (s.at > now' - Window => s \in hits'[j])
               /\ \A t \in 0..now' : Cardinality(InWindow(j, t)') <= Limit
               /\ told'[j] # Never => Cardinality({s \in hits'[j] : s.at > told'[j] - Window}) < Limit
    BY <1>2, <1>4, <2>1, QuietKey
  <2>2. QED
    BY <1>5, <1>6, <1>7, <1>8, <2>1
<1>10. QED
  BY <1>3, <1>9 DEF Inv, Complete, NeverMoreThanLimit, Promise

LEMMA WaitIsLongEnough ==
    ASSUME Inv, NEW k \in Keys, Cardinality(Kept(k)) >= Limit
    PROVE  /\ Oldest(k) \in Kept(k) /\ RetryAfter(k) \in Nat
           /\ Oldest(k).at <= now + Second * RetryAfter(k) - Window
<1>1. \E s \in Kept(k) : \A r \in Kept(k) : s.at <= r.at
  <2>1. Kept(k) # {}
    BY FS_EmptySet, KeptBounds, LimiterAssumption
  <2>2. Kept(k) \subseteq Stamp /\ IsFiniteSet(Kept(k))
    BY KeptBounds DEF Kept, Inv, TypeOK
  <2>3. QED
    BY <2>1, <2>2, OldestExists
<1>2. Oldest(k) \in Kept(k)
  BY <1>1 DEF Oldest
<1> DEFINE x == Oldest(k).at + Window - now
<1>3. Oldest(k).at \in Nat /\ x \in Nat /\ now \in Nat
  BY <1>2, LimiterAssumption DEF Kept, Inv, TypeOK, Stamp
<1>4. Second * ((x + Second - 1) \div Second) >= x /\ (x + Second - 1) \div Second \in Int
  <2>1. x \in Nat /\ Second \in Nat \ {0}
    BY <1>3, LimiterAssumption
  <2> HIDE DEF x
  <2>2. Second * ((x + Second - 1) \div Second) >= x
    BY <2>1, RoundedUp
  <2>3. (x + Second - 1) \div Second \in Int
    BY <2>1, SMT
  <2>4. QED
    BY <2>2, <2>3
<1>5. RetryAfter(k) \in Nat /\ RetryAfter(k) >= (x + Second - 1) \div Second
  BY <1>4 DEF RetryAfter, AtLeast
<1>6. Second * RetryAfter(k) >= Second * ((x + Second - 1) \div Second)
  BY <1>4, <1>5, LimiterAssumption, SMT
<1>7. QED
  BY <1>2, <1>3, <1>4, <1>5, <1>6, LimiterAssumption

LEMMA TurnAwayKeeps ==
    ASSUME Inv, NEW k \in Keys, TurnAway(k)
    PROVE  Inv'
<1> DEFINE at == now + Second * RetryAfter(k)
<1>1. /\ hits' = [Swept(k) EXCEPT ![k] = Kept(k)] /\ told' = [told EXCEPT ![k] = at]
      /\ now' = now /\ served' = served /\ calls' = calls /\ Cardinality(Kept(k)) >= Limit
  BY DEF TurnAway
<1>2. at \in Nat /\ Oldest(k) \in Kept(k) /\ Oldest(k).at <= at - Window
  BY <1>1, WaitIsLongEnough, LimiterAssumption DEF Inv, TypeOK
<1> HIDE DEF at
<1>3. TypeOK'
  BY <1>1, <1>2, SweptKeeps DEF Inv, TypeOK, Kept
<1>4. ASSUME NEW j \in Keys \ {k}
      PROVE  told'[j] = told[j] /\ hits'[j] \subseteq hits[j] /\ Kept(j) \subseteq hits'[j]
  BY <1>1, SweptKeeps DEF Inv, TypeOK
<1>5. hits'[k] = Kept(k) /\ told'[k] = at
  BY <1>1, SweptKeeps DEF Inv, TypeOK
<1>6. Cardinality({s \in hits'[k] : s.at > at - Window}) < Limit
  <2>1. {s \in hits'[k] : s.at > at - Window} \subseteq Kept(k) \ {Oldest(k)}
    <3>1. ASSUME NEW s \in Kept(k), s.at > at - Window PROVE s # Oldest(k)
      <4>1. s.at \in Nat /\ at - Window \in Int
        BY <1>2, LimiterAssumption DEF Kept, Inv, TypeOK, Stamp
      <4>2. QED
        BY <1>2, <3>1, <4>1
    <3>2. QED
      BY <1>5, <3>1
  <2>2. IsFiniteSet(Kept(k) \ {Oldest(k)}) /\ Cardinality(Kept(k) \ {Oldest(k)}) = Cardinality(Kept(k)) - 1
    BY <1>2, KeptBounds, FS_RemoveElement
  <2>3. QED
    BY <2>1, <2>2, Smaller, KeptBounds, LimiterAssumption
<1>7. \A j \in Keys : /\ IsFiniteSet(served'[j]) /\ hits'[j] \subseteq served'[j]
                      /\ \A s \in served'[j] : s.at <= now' /\ (s.at > now' - Window => s \in hits'[j])
                      /\ \A t \in 0..now' : Cardinality(InWindow(j, t)') <= Limit
  <2>1. \A j \in Keys : hits'[j] \subseteq hits[j] /\ Kept(j) \subseteq hits'[j]
    BY <1>4, <1>5 DEF Kept
  <2>2. \A j, t : InWindow(j, t)' = InWindow(j, t)
    BY <1>1 DEF InWindow
  <2>3. QED
    BY <1>1, <2>1, <2>2 DEF Inv, Complete, NeverMoreThanLimit, Kept
<1>8. ASSUME NEW j \in Keys, told'[j] # Never
      PROVE  Cardinality({s \in hits'[j] : s.at > told'[j] - Window}) < Limit
  <2>1. CASE j = k
    BY <1>5, <1>6, <2>1
  <2>2. CASE j # k
    BY <1>1, <1>4, <1>8, <2>2, QuietKey
  <2>3. QED
    BY <2>1, <2>2
<1>9. QED
  BY <1>3, <1>7, <1>8 DEF Inv, Complete, NeverMoreThanLimit, Promise

LEMMA AdvanceKeeps ==
    ASSUME Inv, Advance
    PROVE  Inv'
<1>1. now' = now + 1 /\ now \in Nat /\ UNCHANGED <<calls, hits, served, told>>
  BY DEF Advance, Inv, TypeOK
<1>2. TypeOK' /\ Complete' /\ Promise'
  BY <1>1, LimiterAssumption DEF Inv, TypeOK, Complete, Promise, Stamp
<1>3. ASSUME NEW k \in Keys, NEW t \in 0..now' PROVE Cardinality(InWindow(k, t)') <= Limit
  <2>1. InWindow(k, t)' = InWindow(k, t)
    BY <1>1 DEF InWindow
  <2>2. CASE t \in 0..now
    BY <2>1, <2>2 DEF Inv, NeverMoreThanLimit
  <2>3. CASE t = now + 1
    <3>1. InWindow(k, t) \subseteq InWindow(k, now)
      BY <1>1, <2>3, LimiterAssumption DEF InWindow, Inv, Complete, TypeOK, Stamp
    <3>2. IsFiniteSet(InWindow(k, now))
      BY Smaller DEF InWindow, Inv, Complete
    <3>3. Cardinality(InWindow(k, now)) <= Limit /\ now \in 0..now
      BY <1>1 DEF Inv, NeverMoreThanLimit
    <3>4. QED
      BY <2>1, <3>1, <3>2, <3>3, Smaller, LimiterAssumption
  <2>4. QED
    BY <1>1, <2>2, <2>3
<1>4. QED
  BY <1>2, <1>3 DEF Inv, NeverMoreThanLimit

LEMMA RestartKeeps ==
    ASSUME Inv, Restart
    PROVE  Inv'
<1>1. \A k \in Keys : hits'[k] = {} /\ served'[k] = {} /\ told'[k] = Never
  BY DEF Restart
<1>2. \A k \in Keys, t \in 0..now' : InWindow(k, t)' = {}
  BY <1>1 DEF InWindow
<1>3. IsFiniteSet({}) /\ Cardinality({}) = 0
  BY FS_EmptySet
<1>4. TypeOK'
  BY DEF Inv, TypeOK, Restart
<1>5. Complete' /\ Promise'
  BY <1>1, <1>3 DEF Complete, Promise
<1>6. NeverMoreThanLimit'
  BY <1>2, <1>3, LimiterAssumption DEF NeverMoreThanLimit
<1>7. QED
  BY <1>4, <1>5, <1>6 DEF Inv

LEMMA NextKeeps ==
    ASSUME Inv, [Next]_vars
    PROVE  Inv'
<1>1. CASE UNCHANGED vars
  BY <1>1 DEF vars, Inv, TypeOK, Complete, NeverMoreThanLimit, Promise, InWindow
<1>2. QED
  BY <1>1, ServeKeeps, TurnAwayKeeps, RestartKeeps, AdvanceKeeps DEF Next

LEMMA InitHolds ==
    ASSUME Init
    PROVE  Inv
<1>1. \A k \in Keys, t \in 0..now : InWindow(k, t) = {}
  BY DEF Init, InWindow
<1>2. IsFiniteSet({}) /\ Cardinality({}) = 0
  BY FS_EmptySet
<1>3. QED
  BY <1>1, <1>2, LimiterAssumption DEF Init, Inv, TypeOK, Complete, NeverMoreThanLimit, Promise, Never

----------------------------------------------------------------------------
(* The pages: types and invariant *)

States == {"FREE", "CONFIRMED", "CHECKED_IN", "CANCELLED", "AUTO_RELEASED", "COMPLETED"}
Places == Slots \cup {NoSlot}
Names  == 0..MaxRows
Bookings == [status : States, slot : Places, made : Places, title : Titles, version : Nat, key : Nat,
             attempt : Nat]
Views    == [status : States, slot : Places, title : Titles, version : Nat]
Asks == [n : Nat, op : {"create", "edit", "move", "cancel", "checkin"}, id : Names, slot : Places,
         title : Titles, key : Nat, attempt : Nat, seen : Views]
Codes == {"ok", "refused", "conflict", "stale", "throttled", "unauthenticated", "broken"}
Responses == [req : Asks, code : Codes, id : Names]
PageStates ==
    [at : {"board", "form", "detail", "login"}, slot : Places, key : Nat, attempt : Nat, id : Names, seen : Views,
     panel : {"none", "edit", "move"}, asking : BOOLEAN, draft : Titles, asked : SUBSET Asks,
     note : {"none", "conflict", "stale"}]
PagesTypes ==
    /\ rows \in [Ids -> Bookings] /\ signedIn \in BOOLEAN
    /\ wire \subseteq Asks /\ replies \subseteq Responses /\ page \in PageStates
    /\ presses \in Nat /\ others \in Nat

There(i) == rows[i].status # "FREE"
\* What somebody saw of a booking is what it is, or of an earlier version.
Behind(i, v) == v.version <= rows[i].version /\ (v.version = rows[i].version => View(i) = v)

\* A row that is free has never been anybody's; keys are presses.
Blank == \A i \in Ids : (~There(i) => rows[i] = Free) /\ rows[i].key <= presses
\* Pages and requests are about bookings that are there, as they were at some time.
Real ==
    /\ page.id # Nobody => There(page.id)
    /\ page.at = "detail" => page.id # Nobody /\ Behind(page.id, page.seen)
    /\ \A r \in wire : r.op # "create" => r.id # Nobody /\ There(r.id) /\ Behind(r.id, r.seen)
\* A key stands for an attempt, and what was carried out can be seen in the bookings.
Carried ==
    /\ page.attempt = page.key
    /\ \A r \in wire : r.op = "create" => r.attempt = r.key /\ r.key # Nobody
    /\ \A k \in Nat : <<"create", k>> \in done => \E i \in Ids : There(i) /\ rows[i].key = k
    /\ \A i \in Ids : <<"cancel", i>> \in done => rows[i].status = "CANCELLED"
Numbered ==
    /\ page.key <= presses
    /\ \A r \in wire \cup page.asked : r.n <= presses /\ r.key <= presses
\* An answer is the one answer to a request the page waits for.
Awaited ==
    /\ \A x \in replies :
         /\ x.req \in page.asked /\ x.req \notin wire
         /\ x.code = "ok" /\ x.req.op = "create" => x.id # Nobody /\ There(x.id) /\ rows[x.id].key = x.req.key
    /\ \A x, y \in replies : x.req = y.req => x = y
\* While a form has a key, everything asked and made under that key was for the slot of the form.
OneSlot ==
    /\ page.at \in {"board", "login"} => page.asked = {}
    /\ page.at = "form" =>
         /\ page.id = Nobody
         /\ \A r, q \in page.asked : r.op = "create" /\ r.key = page.key /\ r = q
         /\ page.key = Nobody => page.asked = {}
         /\ page.key # Nobody =>
              /\ page.note = "none"
              /\ \A r \in wire : r.op = "create" /\ r.key = page.key => r.slot = page.slot
              /\ \A i \in Ids : There(i) /\ rows[i].key = page.key => rows[i].made = page.slot
PagesSafe == PagesTypes /\ Blank /\ Real /\ Carried /\ Numbered /\ Awaited /\ OneSlot

LEMMA LeastName ==
    ASSUME NEW S \in SUBSET Ids, S # {}
    PROVE  Min(S) \in S
<1>1. S \subseteq Nat
  BY PagesAssumption DEF Ids
<1>2. IsWellFoundedOn(OpToRel(<, Nat), Nat)
  BY NatLessThanWellFounded
<1>3. PICK x \in S : \A y \in S : <<y, x>> \notin OpToRel(<, Nat)
  BY <1>1, <1>2, WFMin
<1>4. ASSUME NEW y \in S PROVE x <= y
  <2>1. x \in Nat /\ y \in Nat /\ ~(y < x)
    BY <1>1, <1>3 DEF OpToRel
  <2>2. QED
    BY <2>1
<1>5. QED
  BY <1>4 DEF Min

LEMMA FirstPages ==
    /\ Free \in Bookings /\ NoView \in Views /\ Board \in PageStates
    /\ \A s \in Slots \cup {NoSlot} : Form(s) \in PageStates
    /\ Ids \subseteq Nat /\ Nobody \notin Ids /\ Names = Ids \cup {Nobody} /\ Nobody \in Names
<1>1. Ids \subseteq Nat /\ Nobody \notin Ids /\ Names = Ids \cup {Nobody} /\ Nobody \in Names
  BY PagesAssumption DEF Ids, Names, Nobody
<1>2. Free \in Bookings /\ NoView \in Views
  BY PagesAssumption DEF Free, NoView, Bookings, Views, States, Places, Nobody
<1>3. Board \in PageStates
  BY <1>1, <1>2, PagesAssumption DEF Board, PageStates, Places, Nobody
<1>4. \A s \in Slots \cup {NoSlot} : Form(s) \in PageStates
  BY <1>3 DEF Form, PageStates, Places
<1>5. QED
  BY <1>1, <1>2, <1>3, <1>4

LEMMA BookedRow ==
    ASSUME NEW s \in Places, NEW k \in Nat, NEW a \in Nat
    PROVE  /\ Booked(s, k, a) \in Bookings
           /\ Booked(s, k, a).status = "CONFIRMED" /\ Booked(s, k, a).made = s /\ Booked(s, k, a).version = 1
           /\ Booked(s, k, a).key = k /\ Booked(s, k, a).attempt = a
BY FirstPages DEF Booked, Free, Bookings, States

LEMMA ViewType == ASSUME PagesTypes, NEW i \in Ids PROVE View(i) \in Views
BY DEF PagesTypes, Bookings, Views, View

LEMMA DetailPage ==
    ASSUME PagesTypes, NEW i \in Ids
    PROVE  /\ Detail(i) \in PageStates
           /\ Detail(i).at = "detail" /\ Detail(i).id = i /\ Detail(i).seen = View(i)
           /\ Detail(i).asked = {} /\ Detail(i).key = Nobody /\ Detail(i).attempt = Nobody
<1>1. View(i) \in Views /\ Board \in PageStates /\ i \in Names
  BY ViewType, FirstPages
<1>2. PICK v \in Views : v = View(i)
  BY <1>1
<1>3. Detail(i) = [Board EXCEPT !.at = "detail", !.id = i, !.seen = v]
  BY <1>2 DEF Detail
<1>4. Board.asked = {} /\ Board.key = Nobody /\ Board.attempt = Nobody
  BY DEF Board
<1>5. QED
  BY <1>1, <1>2, <1>3, <1>4 DEF PageStates

LEMMA PagesInitSafe == PagesInit => PagesSafe
<1> SUFFICES ASSUME PagesInit PROVE PagesSafe
  OBVIOUS
<1>1. PICK s \in Slots \cup {NoSlot} : \/ rows = [i \in Ids |-> Free]
                                       \/ rows = [i \in Ids |-> IF i = 1 THEN Booked(s, Nobody, Nobody) ELSE Free]
  <2>1. CASE rows = [i \in Ids |-> Free]
    BY <2>1
  <2>2. CASE \E s \in Slots : rows = [i \in Ids |-> IF i = 1 THEN Booked(s, Nobody, Nobody) ELSE Free]
    BY <2>2
  <2>3. QED
    BY <2>1, <2>2 DEF PagesInit
<1>2. PICK b \in Bookings : b = Booked(s, Nobody, Nobody) /\ b.status = "CONFIRMED" /\ b.key = Nobody
  BY BookedRow DEF Places, Nobody
<1>3. \A i \in Ids : rows[i] \in {Free, b}
  BY <1>1, <1>2
<1>4. rows \in [Ids -> Bookings]
  BY <1>1, <1>2, FirstPages
<1>5. PagesTypes
  BY <1>4, FirstPages DEF PagesInit, PagesTypes
<1>6. Board.at = "board" /\ Board.id = Nobody /\ Board.asked = {} /\ Board.key = Nobody /\ Board.attempt = Nobody
  BY DEF Board
<1>7. Free.key = Nobody
  BY DEF Free
<1>8. Blank
  BY <1>2, <1>3, <1>7 DEF Blank, There, PagesInit, Nobody
<1>9. Real /\ Carried /\ Numbered /\ Awaited /\ OneSlot
  BY <1>6 DEF PagesInit, Real, Carried, Numbered, Awaited, OneSlot, Nobody
<1>10. QED
  BY <1>5, <1>8, <1>9 DEF PagesSafe

----------------------------------------------------------------------------
(* Steps of the tab *)

\* A page that goes on as what it is, with fewer answers to wait for.
LEMMA StaysSafe ==
    ASSUME PagesSafe, UNCHANGED <<rows, wire, presses, done, signedIn, others>>,
           page' \in PageStates, page'.at = page.at, page'.id = page.id, page'.attempt = page'.key,
           page'.asked \subseteq page.asked, replies' \subseteq replies, \A x \in replies' : x.req \in page'.asked,
           page'.seen = page.seen \/ page'.seen = View(page.id),
           page'.key \in {page.key, Nobody},
           page.at = "form" =>
             \/ page'.key = page.key /\ page'.slot = page.slot /\ page'.note \in {page.note, "none"}
             \/ page'.key = Nobody /\ page'.asked = {}
    PROVE  PagesSafe'
<1>1. PagesTypes /\ Blank /\ Real /\ Carried /\ Numbered /\ Awaited /\ OneSlot
  BY DEF PagesSafe
<1>2. PagesTypes'
  BY <1>1 DEF PagesTypes
<1>3. Blank' /\ Carried'
  BY <1>1 DEF Blank, Carried, There
<1>4. Numbered' /\ Awaited'
  <2>1. Numbered'
    BY <1>1 DEF Numbered, PagesTypes, Nobody
  <2>2. Awaited'
    BY <1>1 DEF Awaited, There
  <2>3. QED
    BY <2>1, <2>2
<1>5. Real'
  <2>1. page.at = "detail" => Behind(page.id, page'.seen)
    <3>1. page.at = "detail" => page.id \in Ids
      BY <1>1, FirstPages DEF Real, PagesTypes, PageStates
    <3>2. page.at = "detail" => View(page.id).version = rows[page.id].version /\ rows[page.id].version \in Nat
      BY <1>1, <3>1 DEF View, PagesTypes, Bookings
    <3>3. QED
      BY <1>1, <3>1, <3>2 DEF Real, Behind
  <2>2. QED
    BY <1>1, <2>1 DEF Real, Behind, There, View
<1>6. OneSlot'
  BY <1>1 DEF OneSlot, There
<1>7. QED
  BY <1>2, <1>3, <1>4, <1>5, <1>6 DEF PagesSafe

\* A page that is built anew hears of nothing that was asked before.
LEMMA AnewSafe ==
    ASSUME PagesSafe, UNCHANGED <<rows, wire, presses, done, others>>, signedIn' \in BOOLEAN,
           page' \in PageStates, replies' = {}, page'.asked = {}, page'.key = Nobody, page'.attempt = Nobody,
           page'.id # Nobody => There(page'.id),
           page'.at = "form" => page'.id = Nobody,
           page'.at = "detail" => page'.id # Nobody /\ page'.seen = View(page'.id)
    PROVE  PagesSafe'
<1>1. PagesTypes /\ Blank /\ Real /\ Carried /\ Numbered
  BY DEF PagesSafe
<1>2. PagesTypes'
  BY <1>1 DEF PagesTypes
<1>3. Blank' /\ Carried' /\ Awaited' /\ OneSlot'
  BY <1>1 DEF Blank, Carried, Awaited, OneSlot, There
<1>4. Numbered'
  BY <1>1 DEF Numbered, PagesTypes, Nobody
<1>5. Real'
  <2>1. page'.at = "detail" => page'.id \in Ids
    BY FirstPages DEF PageStates
  <2>2. page'.at = "detail" => Behind(page'.id, page'.seen)
    BY <1>1, <2>1 DEF Behind, View, PagesTypes, Bookings
  <2>3. QED
    BY <1>1, <2>2 DEF Real, Behind, There, View
<1>6. QED
  BY <1>2, <1>3, <1>4, <1>5 DEF PagesSafe

LEMMA Moves ==
    ASSUME PagesSafe,
           \/ \E s \in Slots : OpenForm(s) \/ PickAlternative(s)
           \/ \E i \in Ids : OpenDetail(i)
           \/ Back \/ SignIn
    PROVE  PagesSafe'
<1>1. PagesTypes /\ Blank /\ Real /\ Carried /\ Awaited /\ OneSlot /\ page \in PageStates
  BY DEF PagesSafe, PagesTypes
<1>2. Board \in PageStates /\ Board.at = "board" /\ Board.id = Nobody /\ Board.asked = {} /\ Board.key = Nobody
      /\ Board.attempt = Nobody
  BY FirstPages DEF Board
<1>3. ASSUME NEW s \in Places PROVE /\ Form(s) \in PageStates /\ Form(s).at = "form" /\ Form(s).id = Nobody
                                    /\ Form(s).asked = {} /\ Form(s).key = Nobody /\ Form(s).attempt = Nobody
  BY <1>2, FirstPages DEF Form, PageStates, Places
<1>4. ASSUME NEW i \in Ids, There(i), Leave(Detail(i)) PROVE PagesSafe'
  BY <1>1, <1>4, DetailPage, FirstPages, AnewSafe DEF Leave, Go, PagesTypes
<1>5. CASE \E s \in Slots : OpenForm(s)
  <2>1. PICK s \in Places : Leave(Form(s))
    BY <1>5 DEF OpenForm, Places
  <2>2. QED
    BY <1>1, <1>3, <2>1, AnewSafe DEF Leave, Go, PagesTypes
<1>6. CASE \E s \in Slots : PickAlternative(s)
  <2>1. PICK s \in Slots : PickAlternative(s)
    BY <1>6
  <2>2. /\ page' = [page EXCEPT !.slot = s, !.note = "none"] /\ page.at = "form" /\ page.note = "conflict"
        /\ UNCHANGED <<rows, signedIn, wire, presses, others, done, replies>>
    BY <2>1 DEF PickAlternative, Stay, Go
  <2>3. page.key = Nobody /\ page.asked = {}
    BY <1>1, <2>2 DEF OneSlot
  <2>4. /\ page' \in PageStates /\ page'.at = page.at /\ page'.id = page.id /\ page'.attempt = page.attempt
        /\ page'.key = page.key /\ page'.asked = page.asked /\ page'.seen = page.seen
    BY <1>1, <2>2 DEF PageStates, Places
  <2>5. QED
    BY <1>1, <2>2, <2>3, <2>4, StaysSafe DEF Carried, Awaited
<1>7. CASE \E i \in Ids : OpenDetail(i)
  <2>1. PICK i \in Ids : rows[i].key # Nobody /\ Leave(Detail(i))
    BY <1>7 DEF OpenDetail
  <2>2. There(i)
    BY <1>1, <2>1 DEF Blank, Free
  <2>3. QED
    BY <1>4, <2>1, <2>2
<1>8. CASE Back
  BY <1>1, <1>2, <1>8, AnewSafe DEF Back, Leave, Go, PagesTypes
<1>9. CASE SignIn
  <2>1. page.asked = {} /\ replies = {}
    BY <1>1, <1>9 DEF SignIn, OneSlot, Awaited
  <2>2. page.slot \in Places /\ page.id \in Names
    BY <1>1 DEF PageStates
  <2>3. signedIn' = TRUE /\ replies' = {} /\ UNCHANGED <<rows, wire, presses, others, done>>
    BY <1>9, <2>1 DEF SignIn
  <2>4. CASE page.id # Nobody
    <3>1. page.id \in Ids /\ There(page.id) /\ page' = Detail(page.id)
      BY <1>1, <1>9, <2>2, <2>4, FirstPages DEF Real, SignIn
    <3>2. QED
      BY <1>1, <2>3, <2>4, <3>1, DetailPage, AnewSafe
  <2>5. CASE page.id = Nobody
    <3>1. page' = Form(page.slot)
      BY <1>9, <2>5 DEF SignIn
    <3>2. QED
      BY <1>3, <2>2, <2>3, <3>1, AnewSafe
  <2>6. QED
    BY <2>4, <2>5
<1>10. QED
  BY <1>5, <1>6, <1>7, <1>8, <1>9

\* What the tab forgets at the login page, apart from the address.
LEMMA LoginSafe ==
    ASSUME PagesSafe, page' = Login(page), replies' = {}, UNCHANGED <<rows, signedIn, wire, presses, others, done>>
    PROVE  PagesSafe'
<1>1. page \in PageStates /\ signedIn \in BOOLEAN /\ Real
  BY DEF PagesSafe, PagesTypes
<1>2. page.slot \in Places /\ page.id \in Names
  BY <1>1 DEF PageStates
<1>3. Board.asked = {} /\ Board.key = Nobody /\ Board.attempt = Nobody
  BY DEF Board
<1>4. /\ page' \in PageStates /\ page'.at = "login" /\ page'.id = page.id
      /\ page'.asked = {} /\ page'.key = Nobody /\ page'.attempt = Nobody
  BY <1>2, <1>3, FirstPages DEF Login, PageStates
<1>5. QED
  BY <1>1, <1>4, AnewSafe DEF Real

\* The page of a booking: panels, drafts, dialogs and what is fetched again.
LEMMA Looks ==
    ASSUME PagesSafe,
           \/ OpenEdit \/ OpenMove \/ ClosePanel \/ OpenDialog \/ CloseDialog \/ Reload \/ Refetch
           \/ \E t \in Titles : Type(t)
    PROVE  PagesSafe'
<1>1. PagesTypes /\ Real /\ Carried /\ Awaited /\ page \in PageStates /\ page.seen \in Views
  BY DEF PagesSafe, PagesTypes, PageStates
<1>2. ASSUME NEW panel \in {"none", "edit", "move"}, NEW draft \in Titles, NEW asking \in BOOLEAN,
             NEW seen \in {page.seen, View(page.id)}, NEW note \in {page.note, "none"}, OnDetail,
             Stay([page EXCEPT !.panel = panel, !.draft = draft, !.asking = asking, !.seen = seen, !.note = note])
      PROVE  PagesSafe'
  <2>1. page.id \in Ids
    BY <1>1, <1>2, FirstPages DEF Real, OnDetail, PageStates
  <2>2. seen \in Views
    BY <1>1, <1>2, <2>1, ViewType
  <2>3. note \in {"none", "conflict", "stale"}
    BY <1>1 DEF PageStates
  <2>4. page' = [page EXCEPT !.panel = panel, !.draft = draft, !.asking = asking, !.seen = seen, !.note = note]
    BY <1>2 DEF Stay, Go
  <2>5. /\ page' \in PageStates /\ page'.at = page.at /\ page'.id = page.id /\ page'.attempt = page.attempt
        /\ page'.key = page.key /\ page'.asked = page.asked /\ page'.seen = seen
    BY <1>1, <2>2, <2>3, <2>4 DEF PageStates
  <2>6. page.at = "detail" /\ UNCHANGED <<rows, signedIn, wire, presses, others, done, replies>>
    BY <1>2 DEF Stay, Go, OnDetail
  <2>7. QED
    BY <1>1, <2>5, <2>6, StaysSafe DEF Carried, Awaited
<1>3. page.seen.title \in Titles /\ FirstTitle \in Titles /\ page.draft \in Titles /\ page.asking \in BOOLEAN
      /\ page.panel \in {"none", "edit", "move"}
  BY <1>1, PagesAssumption DEF PageStates, Views
<1>4. page = [page EXCEPT !.panel = page.panel, !.draft = page.draft,
                          !.asking = page.asking, !.seen = page.seen, !.note = page.note]
  BY <1>1 DEF PageStates
<1>5. CASE OpenEdit
  <2>1. Stay([page EXCEPT !.panel = "edit", !.draft = page.seen.title,
                          !.asking = page.asking, !.seen = page.seen, !.note = page.note])
    BY <1>1, <1>5 DEF OpenEdit, PageStates
  <2>2. QED
    BY <1>2, <1>3, <1>5, <2>1 DEF OpenEdit, Can
<1>6. CASE OpenMove
  <2>1. Stay([page EXCEPT !.panel = "move", !.draft = FirstTitle,
                          !.asking = page.asking, !.seen = page.seen, !.note = page.note])
    BY <1>1, <1>6 DEF OpenMove, PageStates
  <2>2. QED
    BY <1>2, <1>3, <1>6, <2>1 DEF OpenMove, Can
<1>7. CASE ClosePanel
  <2>1. Stay([page EXCEPT !.panel = "none", !.draft = FirstTitle,
                          !.asking = page.asking, !.seen = page.seen, !.note = page.note])
    BY <1>1, <1>7 DEF ClosePanel, Closed, PageStates
  <2>2. QED
    BY <1>2, <1>3, <1>7, <2>1 DEF ClosePanel
<1>8. CASE OpenDialog
  <2>1. Stay([page EXCEPT !.panel = page.panel, !.draft = page.draft,
                          !.asking = TRUE, !.seen = page.seen, !.note = page.note])
    BY <1>1, <1>8 DEF OpenDialog, PageStates
  <2>2. QED
    BY <1>2, <1>3, <1>8, <2>1 DEF OpenDialog, Can
<1>9. CASE CloseDialog
  <2>1. Stay([page EXCEPT !.panel = page.panel, !.draft = page.draft,
                          !.asking = FALSE, !.seen = page.seen, !.note = page.note])
    BY <1>1, <1>9 DEF CloseDialog, PageStates
  <2>2. QED
    BY <1>2, <1>3, <1>9, <2>1 DEF CloseDialog
<1>10. CASE \E t \in Titles : Type(t)
  <2>1. PICK t \in Titles : Type(t)
    BY <1>10
  <2>2. Stay([page EXCEPT !.panel = page.panel, !.draft = t,
                          !.asking = page.asking, !.seen = page.seen, !.note = page.note])
    BY <1>1, <2>1 DEF Type, PageStates
  <2>3. QED
    BY <1>2, <1>3, <2>1, <2>2 DEF Type
<1>11. CASE Reload
  <2>1. PICK v : v = View(page.id)
    OBVIOUS
  <2>2. CASE page.panel = "edit"
    <3>1. Stay([page EXCEPT !.panel = "none", !.draft = FirstTitle, !.asking = page.asking, !.seen = v, !.note = "none"])
      BY <1>1, <1>11, <2>1, <2>2 DEF Reload, Closed, PageStates
    <3>2. QED
      BY <1>2, <1>3, <1>11, <2>1, <3>1 DEF Reload
  <2>3. CASE page.panel # "edit"
    <3>1. Stay([page EXCEPT !.panel = page.panel, !.draft = page.draft,
                            !.asking = page.asking, !.seen = v, !.note = "none"])
      BY <1>1, <1>11, <2>1, <2>3 DEF Reload, PageStates
    <3>2. QED
      BY <1>2, <1>3, <1>11, <2>1, <3>1 DEF Reload
  <2>4. QED
    BY <2>2, <2>3
<1>12. CASE Refetch
  <2>1. CASE signedIn
    <3>1. PICK v : v = View(page.id)
      OBVIOUS
    <3>2. Stay([page EXCEPT !.panel = page.panel, !.draft = page.draft,
                            !.asking = page.asking, !.seen = v, !.note = page.note])
      BY <1>1, <1>12, <2>1, <3>1 DEF Refetch, PageStates
    <3>3. QED
      BY <1>2, <1>3, <1>12, <3>1, <3>2 DEF Refetch
  <2>2. CASE ~signedIn
    BY <1>12, <2>2, LoginSafe DEF Refetch, Leave, Go
  <2>3. QED
    BY <2>1, <2>2
<1>13. QED
  BY <1>5, <1>6, <1>7, <1>8, <1>9, <1>10, <1>11, <1>12

----------------------------------------------------------------------------
(* Requests and answers *)

\* A new request: the page that sends it may have taken a key for it.
LEMMA SendsSafe ==
    ASSUME PagesSafe, NEW r \in Asks, NEW key \in Nat, r.n = presses + 1, key <= presses + 1, r.key <= presses + 1,
           presses' = presses + 1, wire' = wire \cup {r},
           page' = [page EXCEPT !.key = key, !.attempt = key, !.asked = @ \cup {r}, !.note = "none"],
           UNCHANGED <<rows, signedIn, replies, others, done>>,
           page.at \in {"form", "detail"},
           r.op = "create" => r.attempt = r.key /\ r.key # Nobody,
           r.op # "create" => r.id # Nobody /\ There(r.id) /\ Behind(r.id, r.seen),
           page.at = "form" => /\ r.op = "create" /\ page.asked = {} /\ r.key = key /\ r.slot = page.slot
                               /\ key = IF page.key = Nobody THEN presses + 1 ELSE page.key
    PROVE  PagesSafe'
<1>1. PagesTypes /\ Blank /\ Real /\ Carried /\ Numbered /\ Awaited /\ OneSlot /\ page \in PageStates /\ presses \in Nat
      /\ page.asked \subseteq Asks /\ page.key \in Nat
  BY DEF PagesSafe, PagesTypes, PageStates
<1>2. PICK asked \in SUBSET Asks : asked = page.asked \cup {r}
  BY <1>1
<1>3. page' = [page EXCEPT !.key = key, !.attempt = key, !.asked = asked, !.note = "none"]
  BY <1>1, <1>2 DEF PageStates
<1>4. /\ page' \in PageStates /\ page'.at = page.at /\ page'.id = page.id /\ page'.key = key /\ page'.attempt = key
      /\ page'.asked = asked /\ page'.note = "none" /\ page'.slot = page.slot /\ page'.seen = page.seen
  BY <1>1, <1>3 DEF PageStates
<1>5. PagesTypes'
  BY <1>1, <1>4 DEF PagesTypes
<1>6. Blank'
  <2>1. \A i \in Ids : rows[i].key \in Nat
    BY <1>1 DEF PagesTypes, Bookings
  <2>2. QED
    BY <1>1, <2>1 DEF Blank, There
<1>7. Real'
  BY <1>1, <1>4 DEF Real, There, Behind, View
<1>8. Carried'
  BY <1>1, <1>4 DEF Carried, There
<1>9. Numbered'
  <2>1. \A x \in wire \cup asked : x.n \in Nat /\ x.key \in Nat
    BY <1>1, <1>2 DEF PagesTypes, Asks
  <2>2. QED
    BY <1>1, <1>2, <1>4, <2>1 DEF Numbered
<1>10. Awaited'
  <2>1. r \notin page.asked
    BY <1>1 DEF Numbered
  <2>2. QED
    BY <1>1, <1>2, <1>4, <2>1 DEF Awaited, There
<1>11. OneSlot'
  <2>1. CASE page.at = "detail"
    BY <2>1, <1>4 DEF OneSlot
  <2>2. CASE page.at = "form"
    <3>1. page'.key # Nobody /\ asked = {r} /\ page.id = Nobody
      BY <1>1, <1>2, <1>4, <2>2 DEF OneSlot, Nobody
    <3>2. CASE page.key # Nobody
      BY <1>1, <1>4, <2>2, <3>1, <3>2 DEF OneSlot, There
    <3>3. CASE page.key = Nobody
      <4>1. \A x \in wire : x.key # key
        BY <1>1, <2>2, <3>3 DEF Numbered, PagesTypes, Asks
      <4>2. \A i \in Ids : rows[i].key # key
        BY <1>1, <2>2, <3>3 DEF Blank, PagesTypes, Bookings
      <4>3. QED
        BY <1>4, <2>2, <3>1, <4>1, <4>2 DEF OneSlot, There
    <3>4. QED
      BY <3>2, <3>3
  <2>3. QED
    BY <2>1, <2>2
<1>12. QED
  BY <1>5, <1>6, <1>7, <1>8, <1>9, <1>10, <1>11 DEF PagesSafe

LEMMA PressesSafe == ASSUME PagesSafe, Presses PROVE PagesSafe'
<1>1. PagesTypes /\ Real /\ Carried /\ Numbered /\ OneSlot /\ page \in PageStates /\ presses \in Nat
      /\ page.slot \in Places /\ page.seen \in Views /\ page.key \in Nat /\ page.attempt = page.key /\ page.id \in Names
      /\ page.draft \in Titles
  BY DEF PagesSafe, PagesTypes, PageStates, Carried
<1>2. CASE PressCreate
  <2>1. PICK key \in Nat : key = Key /\ key = Attempt /\ key <= presses + 1 /\ key # Nobody
    BY <1>1 DEF Key, Attempt, Numbered, Nobody
  <2>2. PICK r : r = Request("create", Nobody, page.slot, FirstTitle, key, key)
    OBVIOUS
  <2>3. r = [n |-> presses + 1, op |-> "create", id |-> Nobody, slot |-> page.slot, title |-> FirstTitle,
             key |-> key, attempt |-> key, seen |-> page.seen]
    BY <2>2 DEF Request
  <2>4. r \in Asks
    BY <1>1, <2>3, PagesAssumption, FirstPages DEF Asks
  <2>5. page.asked = {}
    BY <1>1, <1>2 DEF PressCreate, Waits, OneSlot
  <2>6. Send(r, [page EXCEPT !.key = key, !.attempt = key]) /\ page.at = "form"
    BY <1>2, <2>1, <2>2 DEF PressCreate
  <2>7. page' = [page EXCEPT !.key = key, !.attempt = key, !.asked = @ \cup {r}, !.note = "none"]
    BY <1>1, <2>6 DEF Send, PageStates
  <2>8. presses' = presses + 1 /\ wire' = wire \cup {r} /\ UNCHANGED <<rows, signedIn, replies, others, done>>
    BY <2>6 DEF Send
  <2>9. key = IF page.key = Nobody THEN presses + 1 ELSE page.key
    BY <2>1 DEF Key
  <2>10. r.n = presses + 1 /\ r.op = "create" /\ r.slot = page.slot /\ r.key = key /\ r.attempt = key
    BY <2>3
  <2>11. QED
    BY <2>1, <2>4, <2>5, <2>6, <2>7, <2>8, <2>9, <2>10, SendsSafe
<1>3. ASSUME NEW op \in {"edit", "move", "cancel", "checkin"}, NEW s \in Places, NEW t \in Titles,
             OnDetail, Change(op, s, t)
      PROVE  PagesSafe'
  <2>1. PICK r : r = Request(op, page.id, s, t, Nobody, Nobody)
    OBVIOUS
  <2>2. r = [n |-> presses + 1, op |-> op, id |-> page.id, slot |-> s, title |-> t,
             key |-> Nobody, attempt |-> Nobody, seen |-> page.seen]
    BY <2>1 DEF Request
  <2>3. r \in Asks
    BY <1>1, <2>2 DEF Asks, Nobody
  <2>4. Send(r, page) /\ page.at = "detail"
    BY <1>3, <2>1 DEF Change, OnDetail
  <2>5. page' = [page EXCEPT !.key = page.key, !.attempt = page.key, !.asked = @ \cup {r}, !.note = "none"]
    BY <1>1, <2>4 DEF Send, PageStates
  <2>6. presses' = presses + 1 /\ wire' = wire \cup {r} /\ UNCHANGED <<rows, signedIn, replies, others, done>>
    BY <2>4 DEF Send
  <2>7. page.key <= presses + 1 /\ 0 <= presses + 1
    BY <1>1 DEF Numbered
  <2>8. r.n = presses + 1 /\ r.op = op /\ r.id = page.id /\ r.seen = page.seen /\ r.key = Nobody
    BY <2>2
  <2>9. page.id # Nobody /\ There(page.id) /\ Behind(page.id, page.seen)
    BY <1>1, <2>4 DEF Real
  <2>10. QED
    BY <1>1, <2>3, <2>4, <2>5, <2>6, <2>7, <2>8, <2>9, SendsSafe DEF Nobody
<1>4. page.seen.slot \in Places /\ page.seen.title \in Titles
  BY <1>1 DEF Views
<1>5. CASE PressEdit
  BY <1>1, <1>3, <1>4, <1>5 DEF PressEdit
<1>6. CASE PressCancel
  BY <1>1, <1>3, <1>4, <1>6 DEF PressCancel
<1>7. CASE PressCheckIn
  BY <1>1, <1>3, <1>4, <1>7 DEF PressCheckIn, Can
<1>8. CASE \E s \in Slots : PressMove(s)
  BY <1>1, <1>3, <1>4, <1>8 DEF PressMove, Places
<1>9. QED
  BY <1>2, <1>5, <1>6, <1>7, <1>8 DEF Presses

LEMMA BreaksSafe == ASSUME PagesSafe, NEW r \in page.asked, Break(r) PROVE PagesSafe'
<1>1. page \in PageStates /\ page.asked \subseteq Asks /\ Carried /\ Awaited
  BY DEF PagesSafe, PagesTypes, PageStates
<1>2. PICK asked \in SUBSET Asks : asked = page.asked \ {r}
  BY <1>1
<1>3. page' = [page EXCEPT !.asked = asked]
  BY <1>1, <1>2 DEF Break, Go, PageStates
<1>4. /\ page' \in PageStates /\ page'.at = page.at /\ page'.id = page.id /\ page'.key = page.key
      /\ page'.attempt = page.attempt
      /\ page'.asked = asked /\ page'.note = page.note /\ page'.slot = page.slot /\ page'.seen = page.seen
  BY <1>1, <1>3 DEF PageStates
<1>5. replies' = {x \in replies : x.req # r} /\ UNCHANGED <<rows, wire, presses, done, signedIn, others>>
  BY DEF Break, Go
<1>6. \A x \in replies' : x.req \in asked
  BY <1>1, <1>2, <1>5 DEF Awaited
<1>7. QED
  BY <1>1, <1>2, <1>4, <1>5, <1>6, StaysSafe DEF Carried

LEMMA ReceivesSafe == ASSUME PagesSafe, NEW x \in replies, Receive(x) PROVE PagesSafe'
<1>1. /\ page \in PageStates /\ page.asked \subseteq Asks /\ PagesTypes /\ Carried /\ Awaited /\ OneSlot
      /\ x \in Responses /\ x.req \in Asks /\ x.id \in Names /\ x.req \in page.asked /\ page.draft \in Titles
      /\ signedIn \in BOOLEAN
  BY DEF PagesSafe, PagesTypes, PageStates, Responses, Awaited
<1>2. UNCHANGED <<rows, wire, presses, done, signedIn, others>> /\ replies' \subseteq replies
  BY DEF Receive, Go
<1>3. PICK asked \in SUBSET Asks : asked = page.asked \ {x.req}
  BY <1>1
<1>4. PICK heard : heard = Heard(x)
  OBVIOUS
<1>5. /\ heard \in PageStates /\ heard.at = page.at /\ heard.id = page.id /\ heard.key = page.key
      /\ heard.attempt = page.attempt
      /\ heard.asked = asked /\ heard.note = page.note /\ heard.slot = page.slot /\ heard.seen = page.seen
  <2>1. heard = [page EXCEPT !.asked = asked]
    BY <1>1, <1>3, <1>4 DEF Heard, PageStates
  <2>2. QED
    BY <1>1, <2>1 DEF PageStates
<1>6. ASSUME x.code # "unauthenticated", x.req.op # "create" PROVE \A y \in replies' : y.req \in asked
  BY <1>1, <1>3, <1>6 DEF Receive, Awaited
<1>7. ASSUME NEW panel \in {"none", "edit", "move"}, NEW draft \in Titles, NEW asking \in BOOLEAN,
             NEW note \in {page.note, "none", "conflict", "stale"}, NEW key \in {page.key, Nobody},
             page' = [heard EXCEPT !.panel = panel, !.draft = draft, !.asking = asking, !.note = note,
                                   !.key = key, !.attempt = key],
             \A y \in replies' : y.req \in asked,
             page.at = "form" => (key = page.key /\ note \in {page.note, "none"}) \/ (key = Nobody /\ asked = {})
      PROVE  PagesSafe'
  <2>1. note \in {"none", "conflict", "stale"} /\ key \in Nat
    BY <1>1 DEF PageStates, Nobody
  <2>2. /\ page' \in PageStates /\ page'.at = page.at /\ page'.id = page.id /\ page'.key = key /\ page'.attempt = key
        /\ page'.asked = asked /\ page'.note = note /\ page'.slot = page.slot /\ page'.seen = page.seen
    BY <1>5, <1>7, <2>1 DEF PageStates
  <2>3. asked \subseteq page.asked
    BY <1>3
  <2>4. QED
    BY <1>2, <1>7, <2>2, <2>3, StaysSafe
<1>8. page.asking \in BOOLEAN /\ page.panel \in {"none", "edit", "move"} /\ FirstTitle \in Titles
      /\ heard.draft = page.draft
      /\ heard.asking = page.asking /\ heard.panel = page.panel
  <2>1. heard = [page EXCEPT !.asked = asked]
    BY <1>1, <1>3, <1>4 DEF Heard, PageStates
  <2>2. QED
    BY <1>1, <2>1, PagesAssumption DEF PageStates
<1>9. CASE x.code = "ok" /\ x.req.op = "create"
  <2>1. x.id \in Ids /\ There(x.id)
    BY <1>1, <1>9, FirstPages DEF Awaited
  <2>2. page' = Detail(x.id) /\ replies' = {}
    BY <1>9 DEF Receive, Go, AfterOk
  <2>3. QED
    BY <1>1, <1>2, <2>1, <2>2, DetailPage, FirstPages, AnewSafe
<1>10. CASE x.code = "ok" /\ x.req.op # "create"
  <2>1. page.at = "detail" \/ page.at \notin {"form", "board", "login"}
    BY <1>1, <1>10 DEF OneSlot
  <2>2. page' = AfterOk(x)
    BY <1>10 DEF Receive, Go
  <2>3. CASE x.req.op \in {"edit", "move"}
    <3>1. page' = [heard EXCEPT !.panel = "none", !.draft = FirstTitle, !.asking = page.asking, !.note = page.note,
                                !.key = page.key, !.attempt = page.key]
      <4>1. page' = [heard EXCEPT !.panel = "none", !.draft = FirstTitle]
        BY <1>4, <1>10, <2>2, <2>3 DEF AfterOk, Closed
      <4>2. QED
        BY <1>1, <1>5, <1>8, <4>1 DEF PageStates, Carried
    <3>2. QED
      BY <1>6, <1>7, <1>8, <1>10, <2>1, <3>1
  <2>4. CASE x.req.op = "cancel"
    <3>1. page' = [heard EXCEPT !.panel = page.panel, !.draft = page.draft, !.asking = FALSE, !.note = page.note,
                                !.key = page.key, !.attempt = page.key]
      <4>1. page' = [heard EXCEPT !.asking = FALSE]
        BY <1>4, <1>10, <2>2, <2>4 DEF AfterOk
      <4>2. QED
        BY <1>1, <1>5, <1>8, <4>1 DEF PageStates, Carried
    <3>2. QED
      BY <1>1, <1>6, <1>7, <1>8, <1>10, <2>1, <3>1
  <2>5. CASE x.req.op = "checkin"
    <3>1. page' = [heard EXCEPT !.panel = page.panel, !.draft = page.draft, !.asking = page.asking, !.note = page.note,
                                !.key = page.key, !.attempt = page.key]
      <4>1. page' = heard
        BY <1>4, <1>10, <2>2, <2>5 DEF AfterOk
      <4>2. QED
        BY <1>1, <1>5, <1>8, <4>1 DEF PageStates, Carried
    <3>2. QED
      BY <1>1, <1>6, <1>7, <1>8, <1>10, <2>1, <3>1
  <2>6. QED
    BY <1>1, <1>10, <2>3, <2>4, <2>5 DEF Asks
<1>11. CASE x.code = "unauthenticated"
  BY <1>2, <1>11, LoginSafe DEF Receive, Go
<1>12. CASE x.code \notin {"ok", "unauthenticated"}
  <2>1. page' = Judged(x)
    BY <1>12 DEF Receive, Go
  <2>2. PICK note \in {"none", "conflict", "stale"} : note = IF x.code \in {"conflict", "stale"} THEN x.code ELSE "none"
    OBVIOUS
  <2>3. PICK key \in {page.key, Nobody} : key = IF Forgets(x.code) THEN Nobody ELSE page.key
    OBVIOUS
  <2>4. x.code \in {"conflict", "refused", "stale", "throttled", "broken"}
    BY <1>1, <1>12 DEF Responses, Codes
  <2>5. key = IF x.code = "broken" THEN page.key ELSE Nobody
    BY <2>3, <2>4 DEF Forgets
  <2>6. Judged(x) = [heard EXCEPT !.note = note, !.key = key, !.attempt = key]
    BY <1>1, <1>4, <1>5, <2>2, <2>3, <2>5 DEF Judged, Carried, PageStates
  <2>7. page' = [heard EXCEPT !.panel = page.panel, !.draft = page.draft, !.asking = page.asking, !.note = note,
                              !.key = key, !.attempt = key]
    <3>1. page' = [heard EXCEPT !.note = note, !.key = key, !.attempt = key]
      BY <2>1, <2>6
    <3>2. QED
      BY <1>5, <1>8, <3>1 DEF PageStates
  <2>8. ASSUME page.at = "form" PROVE x.req.op = "create" /\ replies' = {}
    BY <1>1, <2>8 DEF OneSlot, Receive
  <2>9. \A y \in replies' : y.req \in asked
    <3>1. CASE x.req.op = "create"
      BY <3>1 DEF Receive
    <3>2. CASE x.req.op # "create"
      BY <1>6, <1>12, <3>2
    <3>3. QED
      BY <3>1, <3>2
  <2>10. page.at = "form" => (key = page.key /\ note \in {page.note, "none"}) \/ (key = Nobody /\ asked = {})
    <3>1. CASE x.code = "broken"
      BY <2>2, <2>5, <3>1
    <3>2. CASE x.code # "broken"
      <4>1. page.at = "form" => asked = {}
        BY <1>1, <1>3 DEF OneSlot
      <4>2. QED
        BY <2>5, <3>2, <4>1
    <3>3. QED
      BY <3>1, <3>2
  <2>11. key \in Nat /\ asked \subseteq page.asked
    BY <1>1, <1>3, <2>3 DEF PageStates, Nobody
  <2>12. /\ page' \in PageStates /\ page'.at = page.at /\ page'.id = page.id /\ page'.key = key /\ page'.attempt = key
         /\ page'.asked = asked /\ page'.note = note /\ page'.slot = page.slot /\ page'.seen = page.seen
    BY <1>1, <1>5, <1>8, <2>2, <2>7, <2>11 DEF PageStates
  <2>13. QED
    BY <1>2, <2>3, <2>9, <2>10, <2>11, <2>12, StaysSafe
<1>13. QED
  BY <1>9, <1>10, <1>11, <1>12

----------------------------------------------------------------------------
(* The server and everybody else *)

\* A row changes by a new version and stays the booking that was made; nobody's row becomes
\* somebody's, not the other way round.
Grows(a, b) ==
    \/ b = a
    \/ /\ b.version > a.version /\ b.status # "FREE"
       /\ a.status # "FREE" => b.key = a.key /\ b.made = a.made
       /\ a.status = "CANCELLED" => b.status = "CANCELLED"
\* What an outcome may do to the bookings, and what its code says of them.
Writes(r, o) ==
    /\ o.code \in Codes /\ o.id \in Names /\ o.rows \in [Ids -> Bookings]
    /\ \A i \in Ids : Grows(rows[i], o.rows[i])
    /\ \A i \in Ids : o.rows[i] = rows[i] \/ (r.op # "create" /\ i = r.id /\ o.rows[i].key = rows[i].key) \/
                      (r.op = "create" /\ ~There(i) /\ o.rows[i].made = r.slot /\ o.rows[i].key = r.key)
Tells(r, o) ==
    /\ r.op \in {"edit", "move"} /\ o.rows # rows => rows[r.id].version = r.seen.version
    /\ r.op = "create" /\ o.code = "ok" => o.id \in Ids /\ o.rows[o.id].status # "FREE" /\ o.rows[o.id].key = r.key
    /\ r.op = "create" /\ o.code \in {"conflict", "refused"} => Prior(r) = {}
    /\ r.op = "cancel" /\ o.code = "ok" => o.rows[r.id].status = "CANCELLED"
    /\ r.op = "cancel" /\ o.code = "refused" => rows[r.id].status # "CANCELLED"
    /\ r.op = "checkin" /\ o.code = "refused" => o.id = r.id /\ rows[r.id].status # "CHECKED_IN"

\* An answer that writes nothing.
LEMMA SameWrites ==
    ASSUME PagesTypes, NEW r, NEW code \in Codes, NEW i \in Names, NEW o, o = Same(code, i)
    PROVE  Writes(r, o) /\ o.code = code /\ o.id = i /\ o.rows = rows
<1>1. o = [code |-> code, id |-> i, rows |-> rows]
  BY DEF Same, Outcome
<1>2. o.code = code /\ o.id = i /\ o.rows = rows
  BY <1>1
<1>3. rows \in [Ids -> Bookings]
  BY DEF PagesTypes
<1>4. QED
  BY <1>2, <1>3 DEF Writes, Grows

\* An answer that writes one row.
LEMMA OneRowWrites ==
    ASSUME PagesTypes, NEW r, NEW code \in Codes, NEW j \in Ids, NEW b \in Bookings, NEW o,
           o = Outcome(code, j, [rows EXCEPT ![j] = b]), Grows(rows[j], b),
           (r.op # "create" /\ j = r.id /\ b.key = rows[j].key) \/
           (r.op = "create" /\ ~There(j) /\ b.made = r.slot /\ b.key = r.key)
    PROVE  Writes(r, o) /\ o.code = code /\ o.id = j /\ o.rows[j] = b
<1>1. PICK table : table = [rows EXCEPT ![j] = b]
  OBVIOUS
<1>2. o = [code |-> code, id |-> j, rows |-> table]
  BY <1>1 DEF Outcome
<1>3. o.code = code /\ o.id = j /\ o.rows = table
  BY <1>2
<1>4. rows \in [Ids -> Bookings] /\ j \in Names
  BY FirstPages DEF PagesTypes
<1>5. table \in [Ids -> Bookings] /\ table[j] = b /\ \A i \in Ids : i # j => table[i] = rows[i]
  BY <1>1, <1>4
<1>6. \A i \in Ids : Grows(rows[i], table[i])
  BY <1>5 DEF Grows
<1>7. QED
  BY <1>3, <1>4, <1>5, <1>6 DEF Writes

LEMMA CreateFacts ==
    ASSUME PagesTypes, Blank, NEW r \in Asks, r.op = "create", NEW o \in Create(r)
    PROVE  Writes(r, o) /\ Tells(r, o)
<1>1. Prior(r) \in SUBSET Ids /\ Holder(r.slot) \in SUBSET Ids /\ Spare \in SUBSET Ids
  BY DEF Prior, Holder, Spare
<1>2. CASE Prior(r) # {}
  <2>1. PICK i \in Ids : i = Min(Prior(r)) /\ i \in Prior(r)
    BY <1>1, <1>2, LeastName
  <2>2. o = Same("ok", i)
    BY <1>2, <2>1 DEF Create
  <2>3. Writes(r, o) /\ o.code = "ok" /\ o.id = i /\ o.rows = rows
    BY <2>2, SameWrites, FirstPages DEF Codes
  <2>4. rows[i].status # "FREE" /\ rows[i].key = r.key
    BY <2>1 DEF Prior
  <2>5. QED
    BY <2>3, <2>4 DEF Tells
<1>3. CASE Prior(r) = {} /\ o = Same("refused", Nobody)
  <2>1. Writes(r, o) /\ o.code = "refused" /\ o.rows = rows
    BY <1>3, SameWrites, FirstPages DEF Codes
  <2>2. QED
    BY <1>3, <2>1 DEF Tells
<1>4. CASE Prior(r) = {} /\ Holder(r.slot) # {} /\ o = Same("conflict", Min(Holder(r.slot)))
  <2>1. PICK i \in Ids : i = Min(Holder(r.slot))
    BY <1>1, <1>4, LeastName
  <2>2. Writes(r, o) /\ o.code = "conflict" /\ o.rows = rows
    BY <1>4, <2>1, SameWrites, FirstPages DEF Codes
  <2>3. QED
    BY <1>4, <2>2 DEF Tells
<1>5. CASE /\ Prior(r) = {} /\ Spare # {}
           /\ o = Outcome("ok", Min(Spare), [rows EXCEPT ![Min(Spare)] = Booked(r.slot, r.key, r.attempt)])
  <2>1. PICK i \in Ids : i = Min(Spare) /\ i \in Spare
    BY <1>1, <1>5, LeastName
  <2>2. rows[i] = Free /\ ~There(i)
    BY <2>1 DEF Spare, Blank, There
  <2>3. PICK b \in Bookings : /\ b = Booked(r.slot, r.key, r.attempt)
                              /\ b.status = "CONFIRMED" /\ b.made = r.slot /\ b.version = 1 /\ b.key = r.key
    <3>1. r.slot \in Places /\ r.key \in Nat /\ r.attempt \in Nat
      BY DEF Asks
    <3>2. QED
      BY <3>1, BookedRow
  <2>4. Grows(rows[i], b)
    <3>1. Free.version = 0 /\ Free.status = "FREE"
      BY DEF Free
    <3>2. QED
      BY <2>2, <2>3, <3>1 DEF Grows
  <2>5. o = Outcome("ok", i, [rows EXCEPT ![i] = b])
    BY <1>5, <2>1, <2>3
  <2>6. Writes(r, o) /\ o.code = "ok" /\ o.id = i /\ o.rows[i] = b
    BY <2>2, <2>3, <2>4, <2>5, OneRowWrites DEF Codes
  <2>7. QED
    BY <2>3, <2>6 DEF Tells
<1>6. QED
  BY <1>2, <1>3, <1>4, <1>5 DEF Create

LEMMA PatchFacts ==
    ASSUME PagesTypes, NEW r \in Asks, r.op \in {"edit", "move"}, r.id \in Ids, NEW o \in Patch(r)
    PROVE  Writes(r, o) /\ Tells(r, o)
<1>1. ASSUME NEW code \in Codes, NEW i \in Names, o = Same(code, i)
      PROVE  Writes(r, o) /\ Tells(r, o)
  <2>1. Writes(r, o) /\ o.rows = rows
    BY <1>1, SameWrites
  <2>2. QED
    BY <2>1 DEF Tells
<1>2. CASE ~Writable(r)
  <2>1. o = Same("stale", r.id) \/ o = Same("refused", r.id)
    BY <1>2 DEF Patch
  <2>2. QED
    BY <1>1, <2>1, FirstPages DEF Codes
<1>3. CASE Writable(r) /\ o = Same("refused", r.id)
  BY <1>1, <1>3, FirstPages DEF Codes
<1>4. CASE /\ Writable(r) /\ Holder(r.slot) \ {r.id} # {}
           /\ o = Same("conflict", Min(Holder(r.slot) \ {r.id}))
  <2>1. Holder(r.slot) \ {r.id} \in SUBSET Ids
    BY DEF Holder
  <2>2. PICK i \in Ids : i = Min(Holder(r.slot) \ {r.id})
    BY <1>4, <2>1, LeastName
  <2>3. QED
    BY <1>1, <1>4, <2>2, FirstPages DEF Codes
<1>5. CASE /\ Writable(r)
           /\ o = Outcome("ok", r.id, [rows EXCEPT ![r.id].slot = r.slot, ![r.id].title = r.title,
                                                   ![r.id].version = @ + 1])
  <2>1. PICK old \in Bookings : old = rows[r.id]
    BY DEF PagesTypes
  <2>2. r.slot \in Places /\ r.title \in Titles /\ old.version \in Nat /\ old.status = "CONFIRMED"
        /\ old.version = r.seen.version
    BY <1>5, <2>1 DEF Asks, Bookings, Writable
  <2>3. PICK n \in Nat : n = old.version + 1
    BY <2>2
  <2>4. PICK b : b = [old EXCEPT !.slot = r.slot, !.title = r.title, !.version = n]
    OBVIOUS
  <2>5. b \in Bookings /\ b.version = n /\ b.status = old.status /\ b.key = old.key /\ b.made = old.made
    <3>1. old \in Bookings /\ n \in Nat /\ r.slot \in Places /\ r.title \in Titles
      BY <2>1, <2>2, <2>3
    <3>2. QED
      BY <2>4, <3>1 DEF Bookings
  <2>6. [rows EXCEPT ![r.id].slot = r.slot, ![r.id].title = r.title, ![r.id].version = @ + 1] = [rows EXCEPT ![r.id] = b]
    BY <2>1, <2>3, <2>4 DEF PagesTypes, Bookings
  <2>7. o = Outcome("ok", r.id, [rows EXCEPT ![r.id] = b])
    BY <1>5, <2>6
  <2>8. Grows(rows[r.id], b)
    BY <2>1, <2>2, <2>3, <2>5 DEF Grows
  <2>9. Writes(r, o)
    BY <2>1, <2>5, <2>7, <2>8, OneRowWrites DEF Codes
  <2>10. QED
    BY <2>1, <2>2, <2>9 DEF Tells
<1>6. QED
  BY <1>2, <1>3, <1>4, <1>5 DEF Patch

LEMMA BecomesFacts ==
    ASSUME PagesTypes, NEW r \in Asks, r.op \in {"cancel", "checkin"}, r.id \in Ids, NEW to,
           to = IF r.op = "cancel" THEN "CANCELLED" ELSE "CHECKED_IN", NEW o \in Becomes(r, to)
    PROVE  Writes(r, o) /\ Tells(r, o)
<1>1. r.id \in Names /\ "ok" \in Codes /\ "refused" \in Codes /\ r.op # "create"
  BY FirstPages DEF Codes
<1>2. CASE rows[r.id].status = to
  <2>1. o = Same("ok", r.id)
    BY <1>2 DEF Becomes
  <2>2. Writes(r, o) /\ o.code = "ok" /\ o.rows = rows
    BY <1>1, <2>1, SameWrites
  <2>3. QED
    BY <1>2, <2>2 DEF Tells
<1>3. CASE rows[r.id].status # to /\ o = Same("refused", r.id)
  <2>1. Writes(r, o) /\ o.code = "refused" /\ o.id = r.id /\ o.rows = rows
    BY <1>1, <1>3, SameWrites
  <2>2. QED
    BY <1>3, <2>1 DEF Tells
<1>4. CASE /\ rows[r.id].status = "CONFIRMED"
           /\ o = Outcome("ok", r.id, [rows EXCEPT ![r.id].status = to, ![r.id].version = @ + 1])
  <2>1. PICK old \in Bookings : old = rows[r.id]
    BY DEF PagesTypes
  <2>2. old.version \in Nat /\ to \in States /\ to # "FREE"
    BY DEF Bookings, States
  <2>3. PICK n \in Nat : n = old.version + 1
    BY <2>2
  <2>4. PICK b : b = [old EXCEPT !.status = to, !.version = n]
    OBVIOUS
  <2>5. b \in Bookings /\ b.version = n /\ b.status = to /\ b.key = old.key /\ b.made = old.made
    <3>1. old \in Bookings /\ n \in Nat /\ to \in States
      BY <2>1, <2>2, <2>3
    <3>2. QED
      BY <2>4, <3>1 DEF Bookings
  <2>6. [rows EXCEPT ![r.id].status = to, ![r.id].version = @ + 1] = [rows EXCEPT ![r.id] = b]
    BY <2>1, <2>3, <2>4 DEF PagesTypes, Bookings
  <2>7. o = Outcome("ok", r.id, [rows EXCEPT ![r.id] = b])
    BY <1>4, <2>6
  <2>8. Grows(rows[r.id], b)
    BY <1>4, <2>1, <2>2, <2>3, <2>5 DEF Grows
  <2>9. Writes(r, o) /\ o.code = "ok" /\ o.rows[r.id] = b
    <3>1. b.key = rows[r.id].key /\ b \in Bookings
      BY <2>1, <2>5
    <3>2. r.op # "create" /\ "ok" \in Codes
      BY <1>1
    <3>3. Writes(r, o)
      BY <2>7, <2>8, <3>1, <3>2, OneRowWrites
    <3>4. o.code = "ok" /\ o.rows = [rows EXCEPT ![r.id] = b]
      BY <2>7 DEF Outcome
    <3>5. [rows EXCEPT ![r.id] = b][r.id] = b
      BY DEF PagesTypes
    <3>6. QED
      BY <3>3, <3>4, <3>5
  <2>10. QED
    BY <2>5, <2>9 DEF Tells
<1>5. QED
  BY <1>2, <1>3, <1>4 DEF Becomes

LEMMA AnswerFacts ==
    ASSUME PagesTypes, Blank, NEW r \in Asks, r.op # "create" => r.id \in Ids, NEW o \in Answers(r)
    PROVE  Writes(r, o) /\ Tells(r, o)
<1>1. ASSUME NEW code \in {"throttled", "unauthenticated", "broken"}, o = Same(code, Nobody)
      PROVE  Writes(r, o) /\ Tells(r, o)
  <2>1. Writes(r, o) /\ o.code = code /\ o.rows = rows
    BY <1>1, SameWrites, FirstPages DEF Codes
  <2>2. QED
    BY <2>1 DEF Tells
<1>2. CASE o \in Judgement(r)
  <2>1. CASE r.op = "create"
    BY <1>2, <2>1, CreateFacts DEF Judgement
  <2>2. CASE r.op \in {"edit", "move"}
    BY <1>2, <2>2, PatchFacts DEF Judgement
  <2>3. CASE r.op \in {"cancel", "checkin"}
    <3>1. PICK to : to = IF r.op = "cancel" THEN "CANCELLED" ELSE "CHECKED_IN"
      OBVIOUS
    <3>2. o \in Becomes(r, to)
      BY <1>2, <2>3, <3>1 DEF Judgement
    <3>3. QED
      BY <2>3, <3>1, <3>2, BecomesFacts
  <2>4. QED
    BY <2>1, <2>2, <2>3 DEF Asks
<1>3. QED
  BY <1>1, <1>2 DEF Answers

LEMMA BehindStays ==
    ASSUME PagesTypes, NEW i \in Ids, rows' \in [Ids -> Bookings], Grows(rows[i], rows'[i]), NEW v \in Views, Behind(i, v)
    PROVE  Behind(i, v)'
<1>1. rows[i] \in Bookings /\ rows'[i] \in Bookings
  BY DEF PagesTypes
<1>2. rows[i].version \in Nat /\ rows'[i].version \in Nat /\ v.version \in Nat
  BY <1>1 DEF Bookings, Views
<1>3. CASE rows'[i] = rows[i]
  BY <1>3 DEF Behind, View
<1>4. CASE rows'[i].version > rows[i].version
  <2>1. v.version < rows'[i].version
    BY <1>2, <1>4 DEF Behind
  <2>2. QED
    BY <1>2, <2>1 DEF Behind
<1>5. QED
  BY <1>3, <1>4 DEF Grows

\* What growing bookings leave of the invariant, whoever writes.
LEMMA GrownSafe ==
    ASSUME PagesTypes, Blank, Real, rows' \in [Ids -> Bookings], \A i \in Ids : Grows(rows[i], rows'[i]),
           page' = page, wire' \subseteq wire
    PROVE  /\ Real' /\ \A i \in Ids : There(i) => There(i)' /\ rows'[i].key = rows[i].key
           /\ \A i \in Ids : ~There(i)' => rows'[i] = Free
<1>1. \A i \in Ids : There(i) => There(i)' /\ rows'[i].key = rows[i].key
  BY DEF Grows, There
<1>2. \A i \in Ids : ~There(i)' => rows'[i] = Free
  BY DEF Grows, There, Blank
<1>3. page \in PageStates /\ page.id \in Names /\ page.seen \in Views
  BY DEF PagesTypes, PageStates
<1>4. page.id # Nobody => rows'[page.id].status # "FREE"
  <2>1. page.id # Nobody => page.id \in Ids /\ There(page.id)
    BY <1>3, FirstPages DEF Real
  <2>2. QED
    BY <1>1, <2>1 DEF There
<1>5. page.at = "detail" => page.id # Nobody /\ Behind(page.id, page.seen)'
  <2>1. page.at = "detail" => page.id # Nobody /\ page.id \in Ids /\ Behind(page.id, page.seen)
    BY <1>3, FirstPages DEF Real
  <2>2. PICK i, v : i = page.id /\ v = page.seen
    OBVIOUS
  <2>3. page.at = "detail" => Behind(i, v)'
    BY <1>3, <2>1, <2>2, BehindStays
  <2>4. i = page'.id /\ v = page'.seen
    BY <2>2
  <2>5. QED
    BY <2>1, <2>3, <2>4 DEF Behind, View
<1>6. ASSUME NEW r \in wire', r.op # "create" PROVE r.id # Nobody /\ There(r.id)' /\ Behind(r.id, r.seen)'
  <2>1. r \in wire /\ r \in Asks
    BY DEF PagesTypes
  <2>2. r.id \in Names /\ r.seen \in Views
    BY <2>1 DEF Asks
  <2>3. r.id # Nobody /\ r.id \in Ids /\ There(r.id) /\ Behind(r.id, r.seen)
    BY <1>6, <2>1, <2>2, FirstPages DEF Real
  <2>4. QED
    BY <1>1, <2>2, <2>3, BehindStays
<1>7. QED
  <2>1. Real'
    BY <1>4, <1>5, <1>6 DEF Real, There
  <2>2. QED
    BY <1>1, <1>2, <2>1

\* Other people write rows that are not about this tab's keys.
LEMMA RowsSafe ==
    ASSUME PagesSafe, UNCHANGED <<wire, replies, page, presses, done>>, signedIn' \in BOOLEAN, others' \in Nat,
           rows' \in [Ids -> Bookings],
           \A i \in Ids : Grows(rows[i], rows'[i]) /\ rows'[i].key = rows[i].key
    PROVE  PagesSafe'
<1>1. PagesTypes /\ Blank /\ Real /\ Carried /\ Numbered /\ Awaited /\ OneSlot
  BY DEF PagesSafe
<1>2. PagesTypes'
  BY <1>1 DEF PagesTypes
<1>3. /\ Real' /\ \A i \in Ids : There(i) => There(i)' /\ rows'[i].key = rows[i].key
      /\ \A i \in Ids : ~There(i)' => rows'[i] = Free
  BY <1>1, GrownSafe
<1>4. Blank' /\ Numbered'
  BY <1>1, <1>3 DEF Blank, Numbered
<1>5. Carried'
  <2>1. \A i \in Ids : rows[i].status = "CANCELLED" => rows'[i].status = "CANCELLED"
    BY DEF Grows
  <2>2. QED
    BY <1>1, <1>3, <2>1 DEF Carried
<1>6. Awaited'
  <2>1. \A x \in replies : x.id # Nobody => x.id \in Ids
    BY <1>1, FirstPages DEF PagesTypes, Responses
  <2>2. QED
    BY <1>1, <1>3, <2>1 DEF Awaited
<1>7. OneSlot'
  <2>1. page.key # Nobody => \A i \in Ids : There(i)' /\ rows'[i].key = page.key => There(i)
    BY <1>1 DEF Blank, Free
  <2>2. QED
    BY <1>1, <2>1 DEF OneSlot, Grows, There
<1>8. QED
  BY <1>2, <1>3, <1>4, <1>5, <1>6, <1>7 DEF PagesSafe

LEMMA ElsewhereSafe ==
    ASSUME PagesSafe,
           \/ \E s \in Slots : SomebodyBooks(s)
           \/ \E i \in Ids, to \in {"CANCELLED", "CHECKED_IN", "AUTO_RELEASED", "COMPLETED"} : StatusMoves(i, to)
           \/ \E i \in Ids, s \in Slots, t \in Titles : SomebodyEdits(i, s, t)
           \/ Revoke
    PROVE  PagesSafe'
<1>1. PagesTypes /\ Blank /\ rows \in [Ids -> Bookings] /\ others \in Nat /\ signedIn \in BOOLEAN
  BY DEF PagesSafe, PagesTypes
<1>2. ASSUME NEW i \in Ids, NEW b \in Bookings, Elsewhere, UNCHANGED signedIn, rows' = [rows EXCEPT ![i] = b],
             Grows(rows[i], b), b.key = rows[i].key
      PROVE  PagesSafe'
  <2>1. UNCHANGED <<wire, replies, page, presses, done>> /\ others' \in Nat /\ signedIn' \in BOOLEAN
    BY <1>1, <1>2 DEF Elsewhere
  <2>2. rows' \in [Ids -> Bookings] /\ \A j \in Ids : rows'[j] = IF j = i THEN b ELSE rows[j]
    BY <1>1, <1>2
  <2>3. \A j \in Ids : Grows(rows[j], rows'[j]) /\ rows'[j].key = rows[j].key
    BY <1>2, <2>2 DEF Grows
  <2>4. QED
    BY <2>1, <2>2, <2>3, RowsSafe
<1>3. ASSUME NEW s \in Slots, SomebodyBooks(s) PROVE PagesSafe'
  <2>1. Spare \in SUBSET Ids /\ Spare # {}
    BY <1>3 DEF SomebodyBooks, Spare
  <2>2. PICK i \in Ids : i = Min(Spare) /\ i \in Spare
    BY <2>1, LeastName
  <2>3. PICK b \in Bookings : /\ b = Booked(s, Nobody, Nobody)
                              /\ b.status = "CONFIRMED" /\ b.version = 1 /\ b.key = Nobody
    BY BookedRow DEF Places, Nobody
  <2>4. rows[i] = Free /\ ~There(i)
    BY <1>1, <2>2 DEF Spare, Blank, There
  <2>5. Free.key = Nobody /\ Free.version = 0 /\ Free.status = "FREE"
    BY DEF Free
  <2>6. Grows(rows[i], b) /\ b.key = rows[i].key
    BY <2>3, <2>4, <2>5 DEF Grows
  <2>7. Elsewhere /\ UNCHANGED signedIn /\ rows' = [rows EXCEPT ![i] = b]
    BY <1>3, <2>2, <2>3 DEF SomebodyBooks, Rewrite
  <2>8. QED
    BY <1>2, <2>3, <2>4, <2>6, <2>7
<1>4. ASSUME NEW i \in Ids, NEW to \in {"CANCELLED", "CHECKED_IN", "AUTO_RELEASED", "COMPLETED"}, StatusMoves(i, to)
      PROVE  PagesSafe'
  <2>1. PICK old \in Bookings : old = rows[i]
    BY <1>1
  <2>2. old.version \in Nat /\ old \in Bookings /\ to \in States
    BY <2>1 DEF Bookings, States
  <2>3. PICK n \in Nat : n = old.version + 1
    BY <2>2
  <2>4. PICK b : b = [old EXCEPT !.status = to, !.version = n]
    OBVIOUS
  <2>5. b \in Bookings /\ b.version = n /\ b.status = to /\ b.key = old.key /\ b.made = old.made
    <3>1. old \in Bookings /\ n \in Nat /\ to \in States
      BY <2>2, <2>3
    <3>2. QED
      BY <2>4, <3>1 DEF Bookings
  <2>6. Elsewhere /\ UNCHANGED signedIn /\ rows' = [rows EXCEPT ![i] = [old EXCEPT !.status = to, !.version = @ + 1]]
        /\ old.status \in Live /\ old.status # "CANCELLED" /\ to # "FREE"
    BY <1>4, <2>1 DEF StatusMoves, Rewrite, Live
  <2>7. b = [old EXCEPT !.status = to, !.version = @ + 1]
    BY <2>2, <2>3, <2>4 DEF Bookings
  <2>8. rows' = [rows EXCEPT ![i] = b]
    BY <2>6, <2>7
  <2>9. Grows(rows[i], b)
    BY <2>1, <2>2, <2>3, <2>5, <2>6 DEF Grows
  <2>10. QED
    BY <1>2, <2>1, <2>5, <2>6, <2>8, <2>9
<1>5. ASSUME NEW i \in Ids, NEW s \in Slots, NEW t \in Titles, SomebodyEdits(i, s, t) PROVE PagesSafe'
  <2>1. PICK old \in Bookings : old = rows[i]
    BY <1>1
  <2>2. old.version \in Nat /\ old \in Bookings
    BY <2>1 DEF Bookings
  <2>3. PICK n \in Nat : n = old.version + 1
    BY <2>2
  <2>4. PICK b : b = [old EXCEPT !.slot = s, !.title = t, !.version = n]
    OBVIOUS
  <2>5. b \in Bookings /\ b.version = n /\ b.status = old.status /\ b.key = old.key /\ b.made = old.made
    <3>1. old \in Bookings /\ n \in Nat /\ s \in Places
      BY <2>2, <2>3 DEF Places
    <3>2. QED
      BY <2>4, <3>1 DEF Bookings
  <2>6. Elsewhere /\ UNCHANGED signedIn /\ rows' = [rows EXCEPT ![i] = [old EXCEPT !.slot = s, !.title = t, !.version = @ + 1]]
        /\ old.status = "CONFIRMED"
    BY <1>5, <2>1 DEF SomebodyEdits, Rewrite
  <2>7. b = [old EXCEPT !.slot = s, !.title = t, !.version = @ + 1]
    BY <2>2, <2>3, <2>4 DEF Bookings
  <2>8. rows' = [rows EXCEPT ![i] = b]
    BY <2>6, <2>7
  <2>9. Grows(rows[i], b)
    BY <2>1, <2>2, <2>3, <2>5, <2>6 DEF Grows
  <2>10. QED
    BY <1>2, <2>1, <2>5, <2>6, <2>8, <2>9
<1>6. CASE Revoke
  <2>1. UNCHANGED <<wire, replies, page, presses, done>> /\ others' \in Nat /\ signedIn' \in BOOLEAN /\ rows' = rows
    <3>1. UNCHANGED <<wire, replies, page, presses, done>> /\ others' = others + 1 /\ rows' = rows
      BY <1>6 DEF Revoke, Elsewhere
    <3>2. signedIn' \in BOOLEAN
      BY <1>6 DEF Revoke
    <3>3. others' \in Nat
      BY <1>1, <3>1
    <3>4. QED
      BY <3>1, <3>2, <3>3
  <2>2. \A j \in Ids : Grows(rows[j], rows'[j])
    BY <2>1 DEF Grows
  <2>3. QED
    BY <1>1, <2>1, <2>2, RowsSafe
<1>7. QED
  BY <1>3, <1>4, <1>5, <1>6

----------------------------------------------------------------------------
(* The server's answer *)

\* The step as an outcome that Writes and Tells describe.
LEMMA Handled ==
    ASSUME PagesSafe, NEW r \in wire, Handle(r)
    PROVE  /\ r \in Asks /\ r \in wire /\ (r.op # "create" => r.id \in Ids /\ There(r.id))
           /\ \E o : /\ Writes(r, o) /\ Tells(r, o) /\ rows' = o.rows
                     /\ done' = IF o.code = "ok" THEN done \cup {What(r)} ELSE done
                     /\ replies' = IF r \in page.asked
                                   THEN replies \cup {[req |-> r, code |-> o.code, id |-> o.id]} ELSE replies
<1>1. PagesTypes /\ Blank /\ Real
  BY DEF PagesSafe
<1>2. r \in Asks /\ (r.op # "create" => r.id \in Ids /\ There(r.id))
  BY <1>1, FirstPages DEF PagesTypes, Real, Asks
<1>3. PICK o \in Answers(r) : /\ rows' = o.rows
                              /\ done' = IF o.code = "ok" THEN done \cup {What(r)} ELSE done
                              /\ replies' = IF r \in page.asked
                                            THEN replies \cup {[req |-> r, code |-> o.code, id |-> o.id]} ELSE replies
  BY DEF Handle
<1>4. Writes(r, o) /\ Tells(r, o)
  BY <1>1, <1>2, <1>3, AnswerFacts
<1>5. QED
  BY <1>2, <1>3, <1>4

LEMMA HandleSafe ==
    ASSUME PagesSafe, NEW r \in wire, Handle(r)
    PROVE  PagesSafe'
<1>1. PagesTypes /\ Blank /\ Real /\ Carried /\ Numbered /\ Awaited /\ OneSlot
  BY DEF PagesSafe
<1>2. wire' = wire \ {r} /\ UNCHANGED <<signedIn, page, presses, others>>
  BY DEF Handle
<1>3. r \in Asks /\ r \in wire /\ (r.op # "create" => r.id \in Ids /\ There(r.id))
  BY Handled
<1>4. PICK o : /\ Writes(r, o) /\ Tells(r, o) /\ rows' = o.rows
               /\ done' = IF o.code = "ok" THEN done \cup {What(r)} ELSE done
               /\ replies' = IF r \in page.asked
                             THEN replies \cup {[req |-> r, code |-> o.code, id |-> o.id]} ELSE replies
  BY Handled
<1>5. /\ rows' \in [Ids -> Bookings] /\ o.code \in Codes /\ o.id \in Names
      /\ \A i \in Ids : Grows(rows[i], rows'[i])
      /\ \A i \in Ids : rows'[i] = rows[i] \/ (r.op # "create" /\ i = r.id /\ rows'[i].key = rows[i].key) \/
                        (r.op = "create" /\ ~There(i) /\ rows'[i].made = r.slot /\ rows'[i].key = r.key)
  BY <1>4 DEF Writes
<1>6. PICK x : x = [req |-> r, code |-> o.code, id |-> o.id]
  OBVIOUS
<1>7. x.req = r /\ x.code = o.code /\ x.id = o.id /\ x \in Responses
  <2>1. r \in Asks /\ o.code \in Codes /\ o.id \in Names
    BY <1>3, <1>5
  <2>2. QED
    BY <1>6, <2>1 DEF Responses
<1>8. replies' = IF r \in page.asked THEN replies \cup {x} ELSE replies
  BY <1>4, <1>6
<1>9. /\ Real' /\ \A i \in Ids : There(i) => There(i)' /\ rows'[i].key = rows[i].key
      /\ \A i \in Ids : ~There(i)' => rows'[i] = Free
  BY <1>1, <1>2, <1>5, GrownSafe
<1>10. PagesTypes'
  BY <1>1, <1>2, <1>5, <1>7, <1>8 DEF PagesTypes
<1>11. Blank'
  <2>1. r.key <= presses
    BY <1>1, <1>3 DEF Numbered
  <2>2. \A i \in Ids : rows'[i].key <= presses
    BY <1>1, <1>5, <2>1 DEF Blank
  <2>3. QED
    BY <1>2, <1>9, <2>2 DEF Blank
<1>12. Carried'
  <2>1. What(r) = IF r.op = "create" THEN <<"create", r.key>> ELSE <<r.op, r.id>>
    BY <1>1, <1>3 DEF What, Carried
  <2>2. ASSUME NEW k \in Nat, <<"create", k>> \in done' PROVE \E i \in Ids : There(i)' /\ rows'[i].key = k
    <3>1. CASE <<"create", k>> \in done
      BY <1>1, <1>9, <3>1 DEF Carried
    <3>2. CASE o.code = "ok" /\ <<"create", k>> = What(r)
      <4>1. r.op = "create" /\ k = r.key
        BY <2>1, <3>2
      <4>2. o.id \in Ids /\ rows'[o.id].status # "FREE" /\ rows'[o.id].key = r.key
        BY <1>4, <3>2, <4>1 DEF Tells
      <4>3. QED
        BY <4>1, <4>2 DEF There
    <3>3. QED
      BY <1>4, <2>2, <3>1, <3>2
  <2>3. ASSUME NEW i \in Ids, <<"cancel", i>> \in done' PROVE rows'[i].status = "CANCELLED"
    <3>1. CASE <<"cancel", i>> \in done
      BY <1>1, <1>5, <3>1 DEF Carried, Grows
    <3>2. CASE o.code = "ok" /\ <<"cancel", i>> = What(r)
      <4>1. r.op = "cancel" /\ i = r.id
        BY <2>1, <3>2
      <4>2. QED
        BY <1>4, <3>2, <4>1 DEF Tells
    <3>3. QED
      BY <1>4, <2>3, <3>1, <3>2
  <2>4. QED
    BY <1>1, <1>2, <2>2, <2>3 DEF Carried
<1>13. Numbered'
  BY <1>1, <1>2 DEF Numbered
<1>14. Awaited'
  <2>1. ASSUME NEW y \in replies' PROVE /\ y.req \in page.asked /\ y.req \notin wire'
                                        /\ y.code = "ok" /\ y.req.op = "create" =>
                                             y.id # Nobody /\ There(y.id)' /\ rows'[y.id].key = y.req.key
    <3>1. CASE y \in replies
      <4>1. y.id # Nobody => y.id \in Ids
        BY <1>1, <3>1, FirstPages DEF PagesTypes, Responses
      <4>2. QED
        BY <1>1, <1>2, <1>9, <3>1, <4>1 DEF Awaited
    <3>2. CASE r \in page.asked /\ y = x
      <4>1. y.code = "ok" /\ y.req.op = "create" => o.id \in Ids /\ rows'[o.id].status # "FREE" /\ rows'[o.id].key = r.key
        BY <1>4, <1>7, <3>2 DEF Tells
      <4>2. QED
        BY <1>2, <1>7, <3>2, <4>1, FirstPages DEF There
    <3>3. QED
      BY <1>8, <2>1, <3>1, <3>2
  <2>2. ASSUME NEW y \in replies', NEW z \in replies', y.req = z.req PROVE y = z
    <3>1. \A w \in replies : w.req # r
      BY <1>1, <1>3 DEF Awaited
    <3>2. QED
      BY <1>1, <1>7, <1>8, <2>2, <3>1 DEF Awaited
  <2>3. QED
    BY <1>2, <2>1, <2>2 DEF Awaited
<1>15. OneSlot'
  <2>1. ASSUME page.at = "form", page.key # Nobody
        PROVE  /\ \A q \in wire' : q.op = "create" /\ q.key = page.key => q.slot = page.slot
               /\ \A i \in Ids : There(i)' /\ rows'[i].key = page.key => rows'[i].made = page.slot
    <3>1. /\ \A q \in wire : q.op = "create" /\ q.key = page.key => q.slot = page.slot
          /\ \A i \in Ids : There(i) /\ rows[i].key = page.key => rows[i].made = page.slot
      BY <1>1, <2>1 DEF OneSlot
    <3>2. ASSUME NEW i \in Ids, There(i)', rows'[i].key = page.key PROVE rows'[i].made = page.slot
      <4>1. CASE There(i)
        BY <1>5, <3>1, <3>2, <4>1 DEF Grows, There
      <4>2. CASE ~There(i)
        <5>1. r.op = "create" /\ rows'[i].made = r.slot /\ rows'[i].key = r.key
          BY <1>3, <1>5, <3>2, <4>2 DEF There
        <5>2. QED
          BY <1>3, <3>1, <3>2, <5>1
      <4>3. QED
        BY <4>1, <4>2
    <3>3. QED
      BY <1>2, <3>1, <3>2
  <2>2. QED
    BY <1>1, <1>2, <2>1 DEF OneSlot
<1>16. QED
  BY <1>9, <1>10, <1>11, <1>12, <1>13, <1>14, <1>15 DEF PagesSafe

LEMMA PagesNextSafe == PagesSafe /\ [PagesNext]_pagesVars => PagesSafe'
<1> SUFFICES ASSUME PagesSafe, [PagesNext]_pagesVars PROVE PagesSafe'
  OBVIOUS
<1>1. CASE UNCHANGED pagesVars
  <2>1. UNCHANGED <<rows, signedIn, wire, replies, page, presses, others, done>>
    BY <1>1 DEF pagesVars
  <2>2. \A i : (There(i) <=> There(i)') /\ (View(i) = View(i)')
    BY <2>1 DEF There, View
  <2>3. PagesTypes' /\ Blank' /\ Carried' /\ Numbered'
    BY <2>1 DEF PagesSafe, PagesTypes, Blank, There, Carried, Numbered
  <2>4. Real' /\ Awaited' /\ OneSlot'
    BY <2>1 DEF PagesSafe, Real, Awaited, OneSlot, There, Behind, View
  <2>5. QED
    BY <2>3, <2>4 DEF PagesSafe
<1>2. CASE PagesNext
  BY <1>2, HandleSafe, Moves, Looks, PressesSafe, ReceivesSafe, BreaksSafe, ElsewhereSafe DEF PagesNext
<1>3. QED
  BY <1>1, <1>2

----------------------------------------------------------------------------
(* What a step may do *)

\* Only the server takes a request off the wire and answers.
LEMMA OnlyHandled ==
    ASSUME [PagesNext]_pagesVars
    PROVE  (\E r \in wire : Handle(r)) \/ (wire \subseteq wire' /\ replies' \subseteq replies)
<1>1. ASSUME NEW p, Go(p) PROVE wire' = wire
  BY <1>1 DEF Go
<1>2. ASSUME NEW p, Leave(p) PROVE wire' = wire /\ replies' = {}
  BY <1>2 DEF Leave, Go
<1>3. ASSUME NEW p, Stay(p) PROVE wire' = wire /\ replies' = replies
  BY <1>3 DEF Stay, Go
<1>4. ASSUME NEW r, NEW p, Send(r, p) PROVE wire \subseteq wire' /\ replies' = replies
  BY <1>4 DEF Send
<1>5. CASE \/ \E s \in Slots : OpenForm(s) \/ PickAlternative(s)
           \/ \E i \in Ids : OpenDetail(i)
           \/ Back
  BY <1>2, <1>3, <1>5 DEF OpenForm, PickAlternative, OpenDetail, Back
<1>6. CASE \/ OpenEdit \/ OpenMove \/ ClosePanel \/ OpenDialog \/ CloseDialog \/ Reload \/ Refetch
           \/ \E t \in Titles : Type(t)
  BY <1>2, <1>3, <1>6 DEF OpenEdit, OpenMove, ClosePanel, OpenDialog, CloseDialog, Reload, Refetch, Type
<1>7. CASE Presses
  BY <1>4, <1>7 DEF Presses, PressCreate, PressEdit, PressMove, PressCancel, PressCheckIn, Change
<1>8. CASE (\E x \in replies : Receive(x)) \/ (\E r \in page.asked : Break(r))
  BY <1>1, <1>8 DEF Receive, Break
<1>9. CASE \/ SignIn \/ Revoke \/ \E s \in Slots : SomebodyBooks(s)
           \/ \E i \in Ids, to \in {"CANCELLED", "CHECKED_IN", "AUTO_RELEASED", "COMPLETED"} : StatusMoves(i, to)
           \/ \E i \in Ids, s \in Slots, t \in Titles : SomebodyEdits(i, s, t)
  BY <1>9 DEF SignIn, Revoke, SomebodyBooks, StatusMoves, SomebodyEdits, Elsewhere
<1>10. CASE UNCHANGED pagesVars
  BY <1>10 DEF pagesVars
<1>11. QED
  BY <1>5, <1>6, <1>7, <1>8, <1>9, <1>10 DEF PagesNext

\* What carries a change out compares the version first, and a version has one content.
LEMMA ChangesSeen ==
    ASSUME PagesSafe, [PagesNext]_pagesVars, NEW r \in wire \ wire',
           r.op \in {"edit", "move"}, rows'[r.id] # rows[r.id]
    PROVE  View(r.id) = r.seen
<1>1. PICK q \in wire : Handle(q)
  BY OnlyHandled
<1>2. q = r
  BY <1>1 DEF Handle
<1>3. PICK o : Tells(r, o) /\ rows' = o.rows
  BY <1>1, <1>2, Handled
<1>4. rows[r.id].version = r.seen.version
  BY <1>3 DEF Tells
<1>5. Behind(r.id, r.seen)
  BY DEF PagesSafe, Real
<1>6. QED
  BY <1>4, <1>5 DEF Behind

\* A refusal says that the server does not find what was carried out.
LEMMA RefusalsTrue ==
    ASSUME PagesSafe, [PagesNext]_pagesVars, NEW x \in replies' \ replies
    PROVE  /\ x.req.op = "create" /\ x.code \in {"conflict", "refused"} => What(x.req) \notin done
           /\ x.req.op = "cancel" /\ x.code = "refused" => What(x.req) \notin done
           /\ x.req.op = "checkin" /\ x.code = "refused" =>
                  What(x.req) \notin done \/ rows[x.id].status # "CHECKED_IN"
<1>1. PICK r \in wire : Handle(r)
  BY OnlyHandled
<1>2. r \in Asks /\ (r.op # "create" => r.id \in Ids) /\ (r.op = "create" => r.attempt = r.key)
  BY <1>1, Handled DEF PagesSafe, Carried
<1>3. PICK o : Tells(r, o) /\ (x \in replies' \ replies => x = [req |-> r, code |-> o.code, id |-> o.id])
  <2>1. PICK o : /\ Tells(r, o)
                 /\ replies' = IF r \in page.asked
                               THEN replies \cup {[req |-> r, code |-> o.code, id |-> o.id]} ELSE replies
    BY <1>1, Handled
  <2>2. QED
    BY <2>1
<1>4. x.req = r /\ x.code = o.code /\ x.id = o.id
  BY <1>3
<1>5. CASE r.op = "create" /\ o.code \in {"conflict", "refused"}
  <2>1. Prior(r) = {} /\ r.key \in Nat
    BY <1>2, <1>3, <1>5 DEF Tells, Asks
  <2>2. \A i \in Ids : ~(There(i) /\ rows[i].key = r.key)
    BY <2>1 DEF Prior, There
  <2>3. <<"create", r.key>> \notin done
    BY <2>1, <2>2 DEF PagesSafe, Carried
  <2>4. QED
    BY <1>2, <1>4, <1>5, <2>3 DEF What
<1>6. CASE r.op = "cancel" /\ o.code = "refused"
  <2>1. rows[r.id].status # "CANCELLED"
    BY <1>3, <1>6 DEF Tells
  <2>2. <<"cancel", r.id>> \notin done
    BY <1>2, <1>6, <2>1 DEF PagesSafe, Carried
  <2>3. QED
    BY <1>4, <1>6, <2>2 DEF What
<1>7. CASE r.op = "checkin" /\ o.code = "refused"
  BY <1>3, <1>4, <1>7 DEF Tells
<1>8. QED
  BY <1>4, <1>5, <1>6, <1>7

\* A form becomes a booking's page by the answer to its create.
LEMMA FormEnds ==
    ASSUME PagesSafe, [PagesNext]_pagesVars, page.at = "form", page'.at = "detail"
    PROVE  rows[page'.id].made = page.slot
<1>1. PagesTypes /\ Awaited /\ OneSlot /\ page \in PageStates
  BY DEF PagesSafe, PagesTypes
<1>2. Board.at = "board"
  BY DEF Board
<1>3. ASSUME NEW p, page' = [page EXCEPT !.slot = p, !.note = "none"] PROVE page'.at = page.at
  BY <1>1, <1>3 DEF PageStates
<1>4. ~\E s \in Slots : OpenForm(s) \/ PickAlternative(s)
  BY <1>3 DEF OpenForm, PickAlternative, Stay, Go
<1>5. ~((\E i \in Ids : OpenDetail(i)) \/ Back \/ SignIn)
  BY <1>2 DEF OpenDetail, Back, SignIn, Leave, Go
<1>6. ~(OpenEdit \/ OpenMove \/ ClosePanel \/ OpenDialog \/ CloseDialog \/ Reload \/ Refetch \/ \E t \in Titles : Type(t))
  BY DEF OpenEdit, OpenMove, ClosePanel, OpenDialog, CloseDialog, Reload, Refetch, Type, Can, OnDetail
<1>7. ~Presses
  <2>1. ASSUME PressCreate PROVE FALSE
    <3>1. PICK r, key, attempt :
                  page' = [[page EXCEPT !.key = key, !.attempt = attempt] EXCEPT !.asked = @ \cup {r}, !.note = "none"]
      BY <2>1 DEF PressCreate, Send
    <3>2. page'.at = page.at
      BY <1>1, <3>1 DEF PageStates
    <3>3. QED
      BY <3>2
  <2>2. QED
    BY <2>1 DEF Presses, PressEdit, PressMove, PressCancel, PressCheckIn, Can, OnDetail
<1>8. ~\E r \in page.asked : Break(r)
  <2>1. ASSUME NEW r \in page.asked, Break(r) PROVE FALSE
    <3>1. page'.at = page.at
      BY <1>1, <2>1 DEF Break, Go, PageStates
    <3>2. QED
      BY <3>1
  <2>2. QED
    BY <2>1
<1>9. ~((\E r \in wire : Handle(r)) \/ UNCHANGED pagesVars)
  BY DEF Handle, pagesVars
<1>10. ~(\/ Revoke \/ \E s \in Slots : SomebodyBooks(s)
         \/ \E i \in Ids, to \in {"CANCELLED", "CHECKED_IN", "AUTO_RELEASED", "COMPLETED"} : StatusMoves(i, to)
         \/ \E i \in Ids, s \in Slots, t \in Titles : SomebodyEdits(i, s, t))
  BY DEF Revoke, SomebodyBooks, StatusMoves, SomebodyEdits, Elsewhere
<1>11. PICK x \in replies : Receive(x)
  BY <1>4, <1>5, <1>6, <1>7, <1>8, <1>9, <1>10 DEF PagesNext
<1>12. x.req \in page.asked /\ x.req.op = "create" /\ x.req.key = page.key /\ page.key # Nobody
  BY <1>1 DEF Awaited, OneSlot
<1>13. x.code = "ok"
  <2>1. CASE x.code = "unauthenticated"
    <3>1. page' = [Board EXCEPT !.at = "login", !.slot = page.slot, !.id = page.id]
      BY <1>11, <2>1 DEF Receive, Go, Login
    <3>2. page'.at = "login"
      BY <3>1 DEF Board
    <3>3. QED
      BY <3>2
  <2>2. CASE x.code # "ok" /\ x.code # "unauthenticated"
    <3>1. PICK asked, note, key, attempt :
              page' = [[page EXCEPT !.asked = asked] EXCEPT !.note = note, !.key = key, !.attempt = attempt]
      BY <1>11, <2>2 DEF Receive, Go, Judged, Heard
    <3>2. page'.at = page.at
      BY <1>1, <3>1 DEF PageStates
    <3>3. QED
      BY <3>2
  <2>3. QED
    BY <2>1, <2>2
<1>14. page' = Detail(x.id)
  BY <1>11, <1>12, <1>13 DEF Receive, Go, AfterOk
<1>15. x.id \in Ids /\ There(x.id) /\ rows[x.id].key = page.key
  BY <1>1, <1>12, <1>13, FirstPages DEF Awaited, PagesTypes, Responses
<1>16. page'.id = x.id
  BY <1>1, <1>14, <1>15, DetailPage
<1>17. QED
  BY <1>1, <1>12, <1>15, <1>16 DEF OneSlot

----------------------------------------------------------------------------
(* The clients of the API *)

\* One part moves at a time, and a step of either is one of that part.
LEMMA OneSide ==
    /\ CallersInit => PagesInit /\ Init
    /\ [CallersNext]_<<pagesVars, vars, side>> => [PagesNext]_pagesVars /\ [Next]_vars
BY DEF CallersInit, CallersNext

LEMMA LimiterInvariant == CallersSpec => []Inv
BY OneSide, InitHolds, NextKeeps, PTL DEF CallersSpec

LEMMA PagesInvariant == CallersSpec => []PagesSafe
BY OneSide, PagesInitSafe, PagesNextSafe, PTL DEF CallersSpec

\* The limiter never serves a key more than the limit in any window of its length
\* (NeverMoreThanLimit; createRateLimiter).
THEOREM AtMostLimit == CallersSpec => [](TypeOK /\ NeverMoreThanLimit)
<1>1. Inv => TypeOK /\ NeverMoreThanLimit
  BY DEF Inv
<1>2. QED
  BY <1>1, LimiterInvariant, PTL

\* Retry-After is never too short (RetryIsServed; retry_after_seconds of RATE_LIMITED).
THEOREM RetryAfterSuffices == CallersSpec => []RetryIsServed
<1>1. ASSUME Inv, NEW k \in Keys, told[k] # Never, now >= told[k] PROVE Cardinality(Kept(k)) < Limit
  <2>1. Kept(k) \subseteq {s \in hits[k] : s.at > told[k] - Window}
    BY <1>1, LimiterAssumption DEF Kept, Inv, TypeOK, Stamp
  <2>2. IsFiniteSet({s \in hits[k] : s.at > told[k] - Window})
    BY <1>1, Smaller DEF Inv, Complete
  <2>3. Cardinality({s \in hits[k] : s.at > told[k] - Window}) < Limit
    BY <1>1 DEF Inv, Promise
  <2>4. QED
    BY <2>1, <2>2, <2>3, Smaller, LimiterAssumption
<1>2. Inv => RetryIsServed
  BY <1>1 DEF RetryIsServed
<1>3. QED
  BY <1>2, LimiterInvariant, PTL

LEMMA PagesActs ==
    /\ PagesSafe /\ [PagesNext]_pagesVars =>
         [\A r \in wire \ wire' :
            r.op \in {"edit", "move"} /\ rows'[r.id] # rows[r.id] => View(r.id) = r.seen]_pagesVars
    /\ PagesSafe /\ [PagesNext]_pagesVars =>
         [\A x \in replies' \ replies :
            /\ x.req.op = "create" /\ x.code \in {"conflict", "refused"} => What(x.req) \notin done
            /\ x.req.op = "cancel" /\ x.code = "refused" => What(x.req) \notin done
            /\ x.req.op = "checkin" /\ x.code = "refused" =>
                   What(x.req) \notin done \/ rows[x.id].status # "CHECKED_IN"]_pagesVars
    /\ PagesSafe /\ [PagesNext]_pagesVars =>
         [page.at = "form" /\ page'.at = "detail" => rows[page'.id].made = page.slot]_pagesVars
BY ChangesSeen, RefusalsTrue, FormEnds

\* A change from the booking page replaces exactly the version, and so the content, the page showed
\* when the button was pressed, for any network and any other writers (the version of a PATCH).
THEOREM ChangesOverSeen == CallersSpec => ChangesWhatWasShown
BY OneSide, PagesInvariant, PagesActs, PTL DEF CallersSpec, ChangesWhatWasShown

\* A repeated create, cancellation or check-in is not refused because it has been carried out
\* already (the Idempotency-Key, and the statuses that count as success).
THEOREM RetriesAreNotRefused == CallersSpec => NothingDoneIsRefused
BY OneSide, PagesInvariant, PagesActs, PTL DEF CallersSpec, NothingDoneIsRefused

\* A form ends on a booking made for the slot it shows, whatever its earlier attempts were about and
\* wherever others have moved the booking since (the form forgets its key with every answer that
\* judges the attempt; booking-new.tsx).
THEOREM FormsEndOnTheirSlot == CallersSpec => CreatedIsThisSlot
BY OneSide, PagesInvariant, PagesActs, PTL DEF CallersSpec, CreatedIsThisSlot
=============================================================================
