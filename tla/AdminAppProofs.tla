--------------------------- MODULE AdminAppProofs ---------------------------
(***************************************************************************)
(* The administrators' application for any number of pages, fields, files, *)
(* requests and acts of other people.  Each of its three parts has an      *)
(* inductive invariant of its own; a behaviour of the application is one   *)
(* of each part, so what is proved of a part is proved of the application. *)
(*   settings  A policy PUT commits over the document it matched, for the  *)
(*             lock is held from the comparison to the commit; an entry of *)
(*             the cache ages no faster than it was stale when the read    *)
(*             behind it ended.                                            *)
(*   console   What a screen says was saved has been stored: a PUT follows *)
(*             a PATCH that is stored, and an answer tells of a part that  *)
(*             is; a PATCH that no PUT follows is one of features the tab  *)
(*             had read.                                                   *)
(*   accounts  A request fits the account it was made over, and a change   *)
(*             names fields the administrator touched.                     *)
(***************************************************************************)
EXTENDS AdminApp, TLAPS

----------------------------------------------------------------------------
(* Settings *)

\* The lock is held by whoever is between BEGIN and COMMIT.
Locked == \A p \in Pages : save[p].pc \in {"locked", "read"} => lock = p
\* What was compared is still so.
Matched == \A p \in Pages : save[p].pc = "read" /\ save[p].section = Policy => Matches(p)
\* A read under way and an entry of the cache.
Bounded ==
    /\ \A l \in Loads : loads[l].on => loads[l].stale <= loads[l].age /\ loads[l].age <= ReadFor
    /\ cache.on => cache.stale <= cache.age + ReadFor
Inv == TypeOK /\ Locked /\ Matched /\ Bounded

LEMMA Blanks ==
    /\ Policy \in Sections /\ Hours \in Sections /\ Blank \in Document
    /\ NoFetch \in FetchState /\ NoSave \in SaveState
    /\ \A r \in BOOLEAN : NewFetch(r) \in FetchState
    /\ NoLoad \in Entry
<1>1. Policy \in Sections /\ Hours \in Sections
  BY DEF Sections
<1>2. Blank \in Document
  BY SettingsAssumption DEF Blank, Document
<1>3. QED
  BY <1>1, <1>2, SettingsAssumption DEF NoFetch, NewFetch, NoSave, NoLoad, Entry, FetchState, SaveState

LEMMA InitInv == Init => Inv
<1> SUFFICES ASSUME Init PROVE Inv
  OBVIOUS
<1>1. TypeOK
  BY Blanks DEF Init, TypeOK, FormState
<1>2. Locked /\ Matched /\ Bounded
  BY DEF Init, Locked, Matched, Bounded, NoSave, NoLoad
<1>3. QED
  BY <1>1, <1>2 DEF Inv

----------------------------------------------------------------------------
(* Types *)

LEMMA SettleTypes ==
    ASSUME TypeOK, NEW p \in Pages, NEW outcome \in {"saved", "partial", "conflict"}, Settle(p, outcome)
    PROVE  save' \in [Pages -> SaveState] /\ form' \in [Pages -> FormState] /\ fetch' \in [Pages -> FetchState]
<1>1. NewFetch(fetch[p].remount) \in FetchState
  <2>1. fetch[p].remount \in BOOLEAN
    BY DEF TypeOK, FetchState
  <2>2. QED
    BY <2>1, Blanks
<1>2. [form[p] EXCEPT !.outcome = outcome] \in FormState
  BY DEF TypeOK, FormState
<1>3. form' \in [Pages -> FormState]
  BY <1>2 DEF Settle, TypeOK
<1>4. QED
  BY <1>1, <1>3, Blanks DEF Settle, TypeOK

\* The draft, a copied document and a written section stay documents.
LEMMA DocumentUpdate ==
    ASSUME NEW d \in Document, NEW s \in Sections, NEW v \in Values
    PROVE  [d EXCEPT ![s] = v] \in Document
BY DEF Document

LEMMA PageTypes ==
    ASSUME TypeOK, NEW p \in Pages, OfPage(p)
    PROVE  TypeOK'
<1> USE DEF OnServer, InProcess
<1>a. form[p] \in FormState /\ fetch[p] \in FetchState /\ save[p] \in SaveState
  BY DEF TypeOK
<1>1. CASE Refetch(p)
  <2>1. NewFetch(FALSE) \in FetchState
    BY Blanks DEF NewFetch, FetchState
  <2>2. fetches + 1 \in Nat
    BY DEF TypeOK
  <2>3. QED
    BY <1>1, <2>1, <2>2 DEF Refetch, TypeOK
<1>2. CASE Reload(p)
  <2>1. [form[p] EXCEPT !.outcome = None] \in FormState
    BY <1>a DEF FormState
  <2>2. QED
    BY <1>2, <2>1, Blanks DEF Reload, TypeOK
<1>3. CASE Select(p)
  <2> DEFINE now == Selects(fetch[p].left)
             got == [s \in Sections |-> IF s \in now THEN doc[s] ELSE fetch[p].got[s]]
  <2>1. got \in Document
    BY <1>a DEF TypeOK, Document, FetchState
  <2>2. fetch[p].left \ now \in SUBSET Sections
    BY <1>a DEF FetchState
  <2> HIDE DEF now, got
  <2>3. [fetch[p] EXCEPT !.left = fetch[p].left \ now, !.got = got] \in FetchState
    BY <1>a, <2>1, <2>2 DEF FetchState
  <2>4. fetch' = [fetch EXCEPT ![p] = [fetch[p] EXCEPT !.left = fetch[p].left \ now, !.got = got]]
    BY <1>3 DEF Select, now, got, TypeOK
  <2>5. fetch' \in [Pages -> FetchState]
    BY <2>3, <2>4 DEF TypeOK
  <2>6. QED
    BY <1>3, <2>5 DEF Select, TypeOK
<1>4. CASE Deliver(p)
  <2>1. ASSUME NEW d \in Document, NEW e \in Document
        PROVE  [form[p] EXCEPT !.doc = d, !.draft = e] \in FormState
    BY <1>a DEF FormState
  <2>2. fetch[p].got \in Document /\ form[p].draft \in Document
    BY <1>a DEF FormState, FetchState
  <2>3. form' \in [Pages -> FormState]
    BY <1>4, <2>1, <2>2 DEF Deliver, TypeOK
  <2>4. QED
    BY <1>4, <2>3, Blanks DEF Deliver, TypeOK
<1>5. CASE \E s \in Sections, v \in Values : Edit(p, s, v)
  <2>1. PICK s \in Sections, v \in Values : Edit(p, s, v)
    BY <1>5
  <2>2. [form[p].draft EXCEPT ![s] = v] \in Document
    BY <1>a, DocumentUpdate DEF FormState
  <2>3. [form[p] EXCEPT !.draft = [form[p].draft EXCEPT ![s] = v], !.outcome = None] \in FormState
    BY <1>a, <2>2 DEF FormState
  <2>4. form' = [form EXCEPT ![p] =
                    [form[p] EXCEPT !.draft = [form[p].draft EXCEPT ![s] = v], !.outcome = None]]
    BY <2>1 DEF Edit, TypeOK, FormState
  <2>5. form' \in [Pages -> FormState]
    BY <2>3, <2>4 DEF TypeOK
  <2>6. QED
    BY <2>1, <2>5, SettingsAssumption DEF Edit, TypeOK
<1>6. CASE Press(p)
  <2>1. Changed(p) \in SUBSET Sections
    BY DEF Changed, Differs
  <2>2. [NoSave EXCEPT !.pc = "sent", !.left = Changed(p), !.etag = form[p].doc, !.body = form[p].draft]
            \in SaveState
    BY <1>a, <2>1, Blanks DEF SaveState, FormState
  <2>3. QED
    BY <1>6, <2>2, SettingsAssumption DEF Press, TypeOK
<1>7. CASE Answered(p)
  <2>1. CASE save[p].left = {}
    BY <1>7, <2>1, SettleTypes DEF Answered, TypeOK
  <2>2. CASE save[p].left # {}
    <3>1. NextSection(save[p].left) \in Sections /\ save[p].left \in SUBSET Sections
      <4>1. save[p].left \in SUBSET Sections
        BY <1>a DEF SaveState
      <4>2. QED
        BY <2>2, <4>1, Blanks DEF NextSection
    <3>2. ASSUME NEW s \in Sections
          PROVE  [save[p] EXCEPT !.pc = "sent", !.section = s, !.left = save[p].left \ {s}] \in SaveState
      BY <1>a, <3>1 DEF SaveState
    <3>3. save' \in [Pages -> SaveState]
      BY <1>7, <2>2, <3>1, <3>2 DEF Answered, TypeOK
    <3>4. QED
      BY <1>7, <2>2, <3>3 DEF Answered, TypeOK
  <2>3. QED
    BY <2>1, <2>2
<1>8. CASE Lost(p)
  BY <1>8, SettleTypes DEF Lost, TypeOK
<1>9. CASE Reject(p)
  BY <1>9, SettleTypes DEF Reject, TypeOK
<1>b. ASSUME NEW pc \in {"locked", "read", "committed", "done"}
      PROVE  [save[p] EXCEPT !.pc = pc] \in SaveState
  BY <1>a DEF SaveState
<1>10. CASE TakeLock(p)
  BY <1>10, <1>b DEF TakeLock, TypeOK
<1>11. CASE Before(p)
  <2>1. CASE save' = [save EXCEPT ![p].pc = "read"] /\ UNCHANGED <<lock, form, fetch>>
    BY <1>11, <1>b, <2>1 DEF Before, TypeOK
  <2>2. CASE Settle(p, "conflict") /\ lock' = IF lock = p THEN None ELSE lock
    BY <1>11, <2>2, SettleTypes DEF Before, TypeOK
  <2>3. QED
    BY <1>11, <2>1, <2>2 DEF Before
<1>12. CASE Commit(p)
  <2>1. [doc EXCEPT ![save[p].section] = save[p].body[save[p].section]] \in Document
    <3>1. save[p].section \in Sections /\ save[p].body \in Document
      BY <1>a DEF SaveState
    <3>2. save[p].body[save[p].section] \in Values
      BY <3>1 DEF Document
    <3>3. QED
      BY <3>1, <3>2, DocumentUpdate DEF TypeOK
  <2>2. save' \in [Pages -> SaveState]
    BY <1>12, <1>b DEF Commit, TypeOK
  <2>3. QED
    BY <1>12, <2>1, <2>2 DEF Commit, TypeOK
<1>13. CASE Invalidate(p)
  BY <1>13, <1>b, Blanks DEF Invalidate, TypeOK
<1>14. QED
  BY <1>1, <1>2, <1>3, <1>4, <1>5, <1>6, <1>7, <1>8, <1>9, <1>10, <1>11, <1>12, <1>13 DEF OfPage

LEMMA CacheTypes ==
    ASSUME TypeOK, Tick \/ \E l \in Loads : OfLoad(l)
    PROVE  TypeOK'
<1> USE DEF OnServer, InProcess
<1>1. CASE Tick
  <2>1. ASSUME NEW e \in Entry PROVE Older(e) \in Entry
    <3>1. e.age + 1 \in Nat /\ e.stale + 1 \in Nat
      BY DEF Entry
    <3>2. ASSUME NEW n \in Nat PROVE [e EXCEPT !.age = e.age + 1, !.stale = n] \in Entry
      BY <3>1 DEF Entry
    <3>3. [e EXCEPT !.age = e.age + 1, !.stale = IF e.value = doc[Policy] THEN 0 ELSE e.stale + 1] \in Entry
      BY <3>1, <3>2
    <3>4. QED
      BY <3>3 DEF Older
  <2>2. QED
    BY <1>1, <2>1, Blanks DEF Tick, TypeOK
<1>2. CASE \E l \in Loads : Miss(l)
  <2>1. doc[Policy] \in Values
    BY Blanks DEF TypeOK, Document
  <2>2. [on |-> TRUE, value |-> doc[Policy], age |-> 0, stale |-> 0] \in Entry
    BY <2>1 DEF Entry
  <2>3. QED
    BY <1>2, <2>2 DEF Miss, TypeOK
<1>3. CASE \E l \in Loads : Fill(l)
  <2>1. PICK l \in Loads : Fill(l)
    BY <1>3
  <2>2. [loads[l] EXCEPT !.age = 0] \in Entry
    BY DEF TypeOK, Entry
  <2>3. QED
    BY <2>1, <2>2, Blanks DEF Fill, TypeOK
<1>4. QED
  BY <1>1, <1>2, <1>3 DEF OfLoad

----------------------------------------------------------------------------
(* The lock *)

\* A step of p that leaves the document, and the lock of everybody else, alone.
LEMMA OwnSave ==
    ASSUME TypeOK, Locked, Matched, NEW p \in Pages, UNCHANGED doc,
           \A q \in Pages \ {p} : save'[q] = save[q] /\ (lock = q => lock' = q),
           save'[p].pc \in {"locked", "read"} => lock' = p,
           save'[p].pc = "read" /\ save'[p].section = Policy => doc = save'[p].etag
    PROVE  (Locked /\ Matched)'
<1>1. Locked'
  BY DEF Locked
<1>2. Matched'
  BY DEF Matched, Matches
<1>3. QED
  BY <1>1, <1>2

LEMMA PageLocks ==
    ASSUME TypeOK, Locked, Matched, NEW p \in Pages, OfPage(p)
    PROVE  (Locked /\ Matched)'
<1> USE DEF OnServer, InProcess
<1>1. CASE UNCHANGED <<doc, lock, save>>
  BY <1>1 DEF Locked, Matched, Matches
<1>2. CASE Press(p)
  BY <1>2, OwnSave DEF Press, NoSave, TypeOK
<1>3. CASE Answered(p) \/ Lost(p) \/ Reject(p)
  <2>1. UNCHANGED <<doc, lock>> /\ \A q \in Pages \ {p} : save'[q] = save[q]
    BY <1>3 DEF Answered, Lost, Reject, Settle, TypeOK
  <2>2. save'[p].pc \notin {"locked", "read"}
    <3>1. CASE save' = [save EXCEPT ![p] = NoSave]
      BY <3>1 DEF NoSave, TypeOK
    <3>2. CASE save[p].pc = "done" /\ save[p].left # {} /\ Answered(p)
      <4>1. save' = [save EXCEPT ![p].pc = "sent", ![p].section = NextSection(save[p].left),
                                 ![p].left = save[p].left \ {NextSection(save[p].left)}]
        BY <3>2 DEF Answered
      <4>2. QED
        BY <4>1 DEF TypeOK, SaveState
    <3>3. QED
      BY <1>3, <3>1, <3>2 DEF Answered, Lost, Reject, Settle
  <2>3. QED
    BY <2>1, <2>2, OwnSave
<1>4. CASE TakeLock(p)
  <2>1. \A q \in Pages : lock # q
    BY <1>4, SettingsAssumption DEF TakeLock
  <2>2. QED
    BY <1>4, <2>1, OwnSave DEF TakeLock, TypeOK
<1>5. CASE Before(p)
  <2>0. lock = p
    BY <1>5 DEF Before, Locked
  <2>1. CASE (save[p].section = Policy => Matches(p)) /\ save' = [save EXCEPT ![p].pc = "read"] /\ UNCHANGED lock
    BY <1>5, <2>0, <2>1, OwnSave DEF Before, Matches, TypeOK
  <2>2. CASE Settle(p, "conflict")
    BY <1>5, <2>0, <2>2, OwnSave DEF Before, Settle, NoSave, TypeOK
  <2>3. QED
    BY <1>5, <2>1, <2>2 DEF Before
<1>6. CASE Commit(p)
  <2>1. lock = p
    BY <1>6 DEF Commit, Locked
  <2>2. save'[p].pc \notin {"locked", "read"} /\ \A q \in Pages \ {p} : save'[q] = save[q]
    BY <1>6 DEF Commit, TypeOK
  <2>3. \A q \in Pages \ {p} : save[q].pc \notin {"locked", "read"}
    BY <2>1 DEF Locked
  <2>4. QED
    BY <2>2, <2>3 DEF Locked, Matched
<1>7. CASE Invalidate(p)
  BY <1>7, OwnSave DEF Invalidate, TypeOK
<1>8. QED
  BY <1>1, <1>2, <1>3, <1>4, <1>5, <1>6, <1>7
  DEF OfPage, Refetch, Reload, Select, Deliver, Edit

----------------------------------------------------------------------------
(* The cache *)

\* A page never fills the cache: at most it empties it.
LEMMA PageBounds ==
    ASSUME Bounded, NEW p \in Pages, OfPage(p)
    PROVE  Bounded'
<1>1. UNCHANGED loads /\ (UNCHANGED cache \/ cache' = NoLoad)
  BY DEF OfPage, Refetch, Reload, Select, Deliver, Edit, Press, Answered, Lost, Reject, TakeLock,
         Before, Commit, Invalidate, InProcess
<1>2. QED
  BY <1>1 DEF Bounded, NoLoad

\* A minute makes an entry one older and at most one staler.
LEMMA OlderByOne ==
    ASSUME NEW e \in Entry
    PROVE  LET o == Older(e) IN
           /\ o.on = e.on
           /\ e.on => o.age = e.age + 1 /\ o.stale <= e.stale + 1
BY DEF Older, Entry

LEMMA CacheBounds ==
    ASSUME TypeOK, Bounded, Tick \/ \E l \in Loads : OfLoad(l)
    PROVE  Bounded'
<1> USE SettingsAssumption DEF InProcess
<1>1. CASE Tick
  <2>1. ASSUME NEW l \in Loads, loads'[l].on
        PROVE  loads'[l].stale <= loads'[l].age /\ loads'[l].age <= ReadFor
    <3>1. loads[l] \in Entry /\ loads'[l] = Older(loads[l])
      BY <1>1 DEF Tick, TypeOK
    <3>2. loads[l].on /\ loads[l].age < ReadFor
      BY <1>1, <2>1, <3>1, OlderByOne DEF Tick
    <3>3. loads'[l].age = loads[l].age + 1 /\ loads'[l].stale <= loads[l].stale + 1
      BY <3>1, <3>2, OlderByOne
    <3>4. loads'[l] \in Entry
      BY <1>1, CacheTypes DEF TypeOK
    <3>5. QED
      BY <3>1, <3>2, <3>3, <3>4 DEF Bounded, Entry
  <2>2. ASSUME cache'.on PROVE cache'.stale <= cache'.age + ReadFor
    <3>1. Fresh /\ cache' = Older(cache)
      BY <1>1, <2>2 DEF Tick, NoLoad
    <3>2. cache \in Entry /\ cache' \in Entry /\ cache.on
      BY <1>1, <3>1, CacheTypes DEF TypeOK, Fresh
    <3>3. cache'.age = cache.age + 1 /\ cache'.stale <= cache.stale + 1
      BY <3>1, <3>2, OlderByOne
    <3>4. QED
      BY <3>2, <3>3 DEF Bounded, Entry
  <2>3. QED
    BY <2>1, <2>2 DEF Bounded
<1>2. CASE \E l \in Loads : Miss(l)
  BY <1>2 DEF Miss, Bounded, TypeOK
<1>3. CASE \E l \in Loads : Fill(l)
  <2>1. PICK l \in Loads : Fill(l)
    BY <1>3
  <2>2. loads[l] \in Entry /\ loads[l].stale <= ReadFor
    BY <2>1 DEF Fill, Bounded, TypeOK, Entry
  <2>3. cache'.stale <= cache'.age + ReadFor
    BY <2>1, <2>2 DEF Fill, Entry
  <2>4. \A m \in Loads : loads'[m] = loads[m] \/ ~loads'[m].on
    BY <2>1 DEF Fill, NoLoad, TypeOK
  <2>5. QED
    BY <2>3, <2>4 DEF Bounded
<1>4. QED
  BY <1>1, <1>2, <1>3 DEF OfLoad

----------------------------------------------------------------------------
LEMMA NextInv == Inv /\ [Next]_vars => Inv'
<1> SUFFICES ASSUME Inv, [Next]_vars PROVE Inv'
  OBVIOUS
<1>1. CASE \E p \in Pages : OfPage(p)
  BY <1>1, PageTypes, PageLocks, PageBounds DEF Inv
<1>2. CASE Tick \/ \E l \in Loads : OfLoad(l)
  <2>1. (Locked /\ Matched)'
    BY <1>2 DEF Inv, Tick, OfLoad, Miss, Fill, OnServer, Locked, Matched, Matches
  <2>2. QED
    BY <1>2, <2>1, CacheTypes, CacheBounds DEF Inv
<1>3. CASE UNCHANGED vars
  BY <1>3 DEF vars, Inv, TypeOK, Locked, Matched, Matches, Bounded
<1>4. QED
  BY <1>1, <1>2, <1>3 DEF Next

LEMMA SettingsInvariant == Spec => []Inv
BY InitInv, NextInv, PTL DEF Spec

\* No save comes between another's comparison of the ETag and its commit (SETTINGS_LOCK).
LEMMA PolicySaves == Spec => OverTheMatchedDocument
<1>1. Spec => []Inv
  BY SettingsInvariant
<1>2. Inv /\ [Next]_vars =>
        [\A p \in Pages : save[p].pc = "read" /\ save[p].section = Policy /\ save'[p].pc = "committed"
            => doc = save[p].etag]_vars
  BY DEF Inv, Matched, Matches
<1>3. QED
  BY <1>1, <1>2, PTL DEF Spec, OverTheMatchedDocument

\* What the cache serves was in force within CACHE_MS and the time of one read (loadSettings).
LEMMA CacheBounded == Spec => []StaleNoLongerThan
<1>1. Spec => []Inv
  BY SettingsInvariant
<1>2. Inv => StaleNoLongerThan
  BY SettingsAssumption DEF Inv, Bounded, TypeOK, Entry, Fresh, StaleNoLongerThan
<1>3. QED
  BY <1>1, <1>2, PTL

----------------------------------------------------------------------------
(* Console *)

----------------------------------------------------------------------------
(* The room form *)

Drafts   == [details : Details \cup {"unsaved"}, active : BOOLEAN, features : SUBSET Features]
RoomBody == [draft : Drafts, base : SUBSET Features]
RunBody  == [file : Files \cup {NoFile}, dry : BOOLEAN]
Calls    == [n : Int, op : {"patch", "put"}, body : RoomBody] \cup
            [n : Int, op : {"import"}, body : RunBody] \cup
            [n : Int, op : {"deactivate"}, body : [reason : {""}]]
Screens  == [at : {"menu", "room", "import", "deactivate"}, awaits : SUBSET Calls,
             confirm : {"none", "reading", "ready"}, draft : Drafts, saved : RoomBody,
             file : Files \cup {NoFile}, preview : RunBody, result : RunBody]
ConsoleTypes ==
    /\ room \in Drafts /\ query \in Drafts
    /\ clicks \in Nat /\ line \subseteq Calls /\ back \subseteq [req : Calls, code : {"ok", "refused"}]
    /\ screen \in Screens

\* What each half of the room has held since the press: what it holds, and what a request that
\* follows another, or an answer, says was stored.  An answer on its way is to a request the screen
\* waits for, so none tells of an earlier press.
Stored ==
    /\ \A x \in back : x.req \in screen.awaits
    /\ Parts(room) \subseteq kept
    /\ \A r \in screen.awaits : r.op = "put" => FieldsPart(r.body.draft) \in kept
    /\ \A x \in back : x.code = "ok" =>
         /\ x.req.op \in {"patch", "put"} => FieldsPart(x.req.body.draft) \in kept
         /\ x.req.op = "put" => ChipsPart(x.req.body.draft) \in kept
\* What a press of Save asked for and the room has held.
Done(press) ==
    /\ FieldsPart(press.draft) \in kept
    /\ press.draft.features = press.base \/ ChipsPart(press.draft) \in kept
ConsoleSafe == ConsoleTypes /\ Stored /\ SavedWasStored

LEMMA PartsOf ==
    ASSUME NEW d
    PROVE  Parts(d) = {FieldsPart(d), ChipsPart(d)}
BY DEF Parts

LEMMA FirstTypes ==
    /\ FirstRoom \in Drafts /\ NoRow \in Drafts /\ Unsaved \in RoomBody /\ NoRun \in RunBody
    /\ \A at \in {"menu", "room", "import", "deactivate"}, r \in Drafts : Screen(at, r) \in Screens
<1>1. FirstRoom \in Drafts /\ NoRow \in Drafts /\ NoRun \in RunBody
  BY ConsoleAssumption DEF FirstRoom, NoRow, NoRun, Drafts, RunBody
<1>2. Unsaved \in RoomBody
  BY <1>1 DEF Unsaved, RoomBody
<1>3. QED
  BY <1>1, <1>2 DEF Screen, Screens

LEMMA ConsoleInitSafe == ConsoleInit => ConsoleSafe
<1> SUFFICES ASSUME ConsoleInit PROVE ConsoleSafe
  OBVIOUS
<1>1. ConsoleTypes
  BY FirstTypes DEF ConsoleInit, ConsoleTypes, Menu
<1>2. screen.at = "menu" /\ screen.awaits = {} /\ screen.saved = Unsaved /\ back = {} /\ kept = Parts(room)
  BY DEF ConsoleInit, Menu, Screen
<1>3. QED
  BY <1>1, <1>2 DEF ConsoleSafe, Stored, SavedWasStored

\* A screen opens: nothing is asked yet.
LEMMA OpensSafe ==
    ASSUME ConsoleSafe, NEW at \in {"menu", "room", "import", "deactivate"}, NEW r \in Drafts,
           Opens(Screen(at, r))
    PROVE  ConsoleSafe'
<1>1. screen' = Screen(at, r) /\ back' = {} /\ kept' = Parts(room) /\ UNCHANGED <<room, query, line, clicks>>
  BY DEF Opens, Shows
<1>2. screen'.awaits = {} /\ screen'.saved = Unsaved
  BY <1>1 DEF Screen
<1>3. ConsoleTypes'
  BY <1>1, FirstTypes DEF ConsoleSafe, ConsoleTypes
<1>4. Stored' /\ SavedWasStored'
  BY <1>1, <1>2 DEF Stored, SavedWasStored, Parts, FieldsPart, ChipsPart
<1>5. QED
  BY <1>3, <1>4 DEF ConsoleSafe

LEMMA OpenMenuSafe == ConsoleSafe /\ Opens(Menu) => ConsoleSafe'
BY OpensSafe, FirstTypes DEF Menu

LEMMA OpenSafe ==
    ASSUME ConsoleSafe, OpenRoom \/ OpenImport \/ OpenDeactivate \/ Close
    PROVE  ConsoleSafe'
<1>1. PICK at \in {"menu", "room", "import", "deactivate"}, r \in Drafts : Opens(Screen(at, r))
  BY FirstTypes DEF OpenRoom, OpenImport, OpenDeactivate, Close, Menu, ConsoleSafe, ConsoleTypes
<1>2. QED
  BY <1>1, OpensSafe

\* The screen changes in what no request is about.
LEMMA MoveSafe ==
    ASSUME ConsoleSafe, NEW s \in Screens, Moves(s), s.awaits = screen.awaits, s.saved = screen.saved
    PROVE  ConsoleSafe'
<1>1. screen' = s /\ UNCHANGED <<room, query, line, clicks, back, kept>>
  BY DEF Moves, Shows
<1>2. ConsoleTypes'
  BY <1>1 DEF ConsoleSafe, ConsoleTypes
<1>3. Stored' /\ SavedWasStored'
  BY <1>1 DEF ConsoleSafe, Stored, SavedWasStored, Parts, FieldsPart, ChipsPart
<1>4. QED
  BY <1>2, <1>3 DEF ConsoleSafe

LEMMA ScreenMoves ==
    ASSUME ConsoleSafe,
           \/ Impact \/ Toggle \/ ConfirmClosing \/ KeepOpen \/ ReadRoom \/ BackToFile
           \/ \E d \in Details : TypeDetails(d)
           \/ \E f \in Features : Chip(f)
           \/ \E f \in Files : ChooseFile(f)
    PROVE  ConsoleSafe'
<1>1. screen \in Screens /\ room \in Drafts
  BY DEF ConsoleSafe, ConsoleTypes
<1>2. CASE Impact \/ KeepOpen
  <2>1. PICK s \in Screens : /\ Moves(s)
                             /\ s \in {[screen EXCEPT !.confirm = "ready"], [screen EXCEPT !.confirm = "none"]}
    BY <1>1, <1>2 DEF Impact, KeepOpen, Screens
  <2>2. QED
    BY <1>1, <2>1, MoveSafe DEF Screens
<1>3. CASE Toggle \/ ConfirmClosing
  <2>1. PICK d \in Drafts, c \in {"none", "reading", "ready"} :
          Moves([screen EXCEPT !.confirm = c, !.draft = d])
    <3>1. ASSUME NEW a \in BOOLEAN PROVE [screen.draft EXCEPT !.active = a] \in Drafts
      BY <1>1 DEF Screens, Drafts
    <3>2. /\ screen.draft \in Drafts /\ screen.confirm \in {"none", "reading", "ready"}
          /\ (~screen.draft.active) \in BOOLEAN
      BY <1>1 DEF Screens
    <3>3. \/ Moves([screen EXCEPT !.draft.active = ~screen.draft.active])
          \/ Moves([screen EXCEPT !.confirm = "reading"])
          \/ Moves([screen EXCEPT !.confirm = "none", !.draft.active = FALSE])
      BY <1>1, <1>3 DEF Toggle, ConfirmClosing, Screens, Drafts
    <3>4. /\ \A a \in BOOLEAN : [screen EXCEPT !.draft.active = a]
                = [screen EXCEPT !.confirm = screen.confirm, !.draft = [screen.draft EXCEPT !.active = a]]
          /\ [screen EXCEPT !.confirm = "reading"] = [screen EXCEPT !.confirm = "reading", !.draft = screen.draft]
          /\ [screen EXCEPT !.confirm = "none", !.draft.active = FALSE]
                = [screen EXCEPT !.confirm = "none", !.draft = [screen.draft EXCEPT !.active = FALSE]]
      BY <1>1 DEF Screens
    <3>5. QED
      BY <3>1, <3>2, <3>3, <3>4
  <2>2. [screen EXCEPT !.confirm = c, !.draft = d] \in Screens
    BY <1>1 DEF Screens
  <2>3. QED
    BY <1>1, <2>1, <2>2, MoveSafe DEF Screens
<1>5. CASE ReadRoom
  <2>1. /\ query' \in Drafts
        /\ UNCHANGED <<room, line, back, screen, clicks, kept>>
    BY <1>1, <1>5, FirstTypes DEF ReadRoom, ConsoleSafe, ConsoleTypes
  <2>2. QED
    BY <2>1 DEF ConsoleSafe, ConsoleTypes, Stored, SavedWasStored, Parts, FieldsPart, ChipsPart
<1>6. CASE BackToFile
  <2>1. PICK s \in Screens : Moves(s) /\ s = [screen EXCEPT !.preview = NoRun]
    BY <1>1, <1>6, FirstTypes DEF BackToFile, Screens
  <2>2. QED
    BY <1>1, <2>1, MoveSafe DEF Screens
<1>7. ASSUME NEW d \in Details, TypeDetails(d) PROVE ConsoleSafe'
  <2>1. PICK s \in Screens : Moves(s) /\ s = [screen EXCEPT !.draft.details = d]
    BY <1>1, <1>7 DEF TypeDetails, Screens, Drafts
  <2>2. QED
    BY <1>1, <2>1, MoveSafe DEF Screens
<1>8. ASSUME NEW f \in Features, Chip(f) PROVE ConsoleSafe'
  <2>1. PICK c \in SUBSET Features : Moves([screen EXCEPT !.draft.features = c])
    <3>1. screen.draft.features \in SUBSET Features
      BY <1>1 DEF Screens, Drafts
    <3>2. (screen.draft.features \ {f}) \in SUBSET Features /\ (screen.draft.features \cup {f}) \in SUBSET Features
      BY <3>1
    <3>3. QED
      BY <1>8, <3>2 DEF Chip
  <2>2. PICK s \in Screens : Moves(s) /\ s = [screen EXCEPT !.draft.features = c]
    BY <1>1, <2>1 DEF Screens, Drafts
  <2>3. QED
    BY <1>1, <2>2, MoveSafe DEF Screens
<1>9. ASSUME NEW f \in Files, ChooseFile(f) PROVE ConsoleSafe'
  <2>1. PICK s \in Screens : Moves(s) /\ s = [screen EXCEPT !.file = f]
    BY <1>1, <1>9 DEF ChooseFile, Screens
  <2>2. QED
    BY <1>1, <2>1, MoveSafe DEF Screens
<1>10. QED
  BY <1>2, <1>3, <1>5, <1>6, <1>7, <1>8, <1>9

\* A request goes out, and it is none that follows another.  The history begins anew with it if
\* nothing it tells of is awaited.
LEMMA AskSafe ==
    ASSUME ConsoleSafe, NEW r \in Calls, NEW s \in Screens, Ask(r, s), UNCHANGED back,
           s.awaits = screen.awaits, r.op # "put",
           \/ UNCHANGED kept /\ s.saved = screen.saved
           \/ kept' = Parts(room) /\ s.saved = Unsaved /\ ~Awaits({"patch", "put"})
    PROVE  ConsoleSafe'
<1>1. /\ screen' = [s EXCEPT !.awaits = @ \cup {r}] /\ line' = line \cup {r} /\ clicks' = clicks + 1
      /\ UNCHANGED <<room, query, back>>
  BY DEF Ask
<1>2. screen' \in Screens /\ screen'.awaits = screen.awaits \cup {r} /\ screen'.saved = s.saved
  BY <1>1 DEF Screens
<1>3. ConsoleTypes'
  BY <1>1, <1>2 DEF ConsoleSafe, ConsoleTypes
<1>4. CASE UNCHANGED kept /\ s.saved = screen.saved
  BY <1>1, <1>2, <1>3, <1>4 DEF ConsoleSafe, Stored, SavedWasStored, Parts, FieldsPart, ChipsPart
<1>5. CASE kept' = Parts(room) /\ s.saved = Unsaved /\ ~Awaits({"patch", "put"})
  <2>1. \A y \in screen.awaits : y.op \notin {"patch", "put"}
    BY <1>5 DEF Awaits
  <2>2. \A x \in back : x.req \in screen.awaits /\ x.req.op \notin {"patch", "put"}
    BY <2>1 DEF ConsoleSafe, Stored
  <2>3. Stored' /\ SavedWasStored'
    BY <1>1, <1>2, <1>5, <2>1, <2>2 DEF Stored, SavedWasStored, Parts
  <2>4. QED
    BY <1>3, <2>3 DEF ConsoleSafe
<1>6. QED
  BY <1>4, <1>5

LEMMA PressSafe ==
    ASSUME ConsoleSafe, PressSave \/ PressRun \/ PressDeactivate
    PROVE  ConsoleSafe'
<1>1. screen \in Screens /\ clicks + 1 \in Int
  BY DEF ConsoleSafe, ConsoleTypes
<1>2. CASE PressSave
  <2>1. PICK r : r = Call("patch", [draft |-> screen.draft, base |-> query.features])
    OBVIOUS
  <2>2. screen.draft \in Drafts /\ query.features \in SUBSET Features
    BY <1>1 DEF Screens, Drafts, ConsoleSafe, ConsoleTypes
  <2>3. r.op = "patch" /\ r \in [n : Int, op : {"patch", "put"}, body : RoomBody]
    BY <1>1, <2>1, <2>2 DEF Call, RoomBody
  <2>4. PICK s \in Screens : s = [screen EXCEPT !.saved = Unsaved]
    BY <1>1, FirstTypes DEF Screens
  <2>5. s.awaits = screen.awaits /\ s.saved = Unsaved
    BY <1>1, <2>4 DEF Screens
  <2>6. Ask(r, s) /\ UNCHANGED back /\ kept' = Parts(room) /\ ~Awaits({"patch", "put"})
    BY <1>2, <2>1, <2>4 DEF PressSave
  <2>7. QED
    BY <2>3, <2>5, <2>6, AskSafe DEF Calls
<1>3. CASE PressRun
  <2>1. PICK r : r = Call("import", [file |-> screen.file, dry |-> screen.preview = NoRun])
    OBVIOUS
  <2>2. r.op = "import" /\ r \in [n : Int, op : {"import"}, body : RunBody]
    BY <1>1, <2>1 DEF Call, RunBody, Screens
  <2>3. Ask(r, screen) /\ UNCHANGED <<kept, back>>
    BY <1>3, <2>1 DEF PressRun
  <2>4. QED
    BY <1>1, <2>2, <2>3, AskSafe DEF Calls
<1>4. CASE PressDeactivate
  <2>1. PICK r : r = Call("deactivate", [reason |-> ""])
    OBVIOUS
  <2>2. r.op = "deactivate" /\ r \in [n : Int, op : {"deactivate"}, body : [reason : {""}]]
    BY <1>1, <2>1 DEF Call
  <2>3. Ask(r, screen) /\ UNCHANGED <<kept, back>>
    BY <1>4, <2>1 DEF PressDeactivate
  <2>4. QED
    BY <1>1, <2>2, <2>3, AskSafe DEF Calls
<1>5. QED
  BY <1>2, <1>3, <1>4

\* The server answers: what it stored, the room has held from now on.
LEMMA AnswerSafe ==
    ASSUME ConsoleSafe, NEW r \in line, NEW code \in {"ok", "refused"}, Answer(r, code),
           room' \in Drafts, kept \subseteq kept', Parts(room)' \subseteq kept',
           code = "ok" /\ r.op = "patch" => FieldsPart(r.body.draft) \in kept',
           code = "ok" /\ r.op = "put" => ChipsPart(r.body.draft) \in kept'
    PROVE  ConsoleSafe'
<1>1. r \in Calls /\ UNCHANGED <<query, screen, clicks>> /\ line' = line \ {r}
  BY DEF Answer, ConsoleSafe, ConsoleTypes
<1>2. PICK y \in [req : Calls, code : {"ok", "refused"}] : y.req = r /\ y.code = code /\ y = [req |-> r, code |-> code]
  BY <1>1
<1>3. back' = IF r \in screen.awaits THEN back \cup {y} ELSE back
  BY <1>2 DEF Answer
<1>4. ConsoleTypes'
  BY <1>1, <1>3 DEF ConsoleSafe, ConsoleTypes
<1>5. ASSUME r \in screen.awaits, code = "ok"
      PROVE  /\ r.op \in {"patch", "put"} => FieldsPart(r.body.draft) \in kept'
             /\ r.op = "put" => ChipsPart(r.body.draft) \in kept'
  BY <1>5 DEF ConsoleSafe, Stored
<1>6. ASSUME NEW x \in back', x.code = "ok"
      PROVE  /\ x.req.op \in {"patch", "put"} => FieldsPart(x.req.body.draft) \in kept'
             /\ x.req.op = "put" => ChipsPart(x.req.body.draft) \in kept'
  <2>1. CASE x \in back
    BY <1>6, <2>1 DEF ConsoleSafe, Stored
  <2>2. CASE x \notin back
    <3>1. x = y /\ r \in screen.awaits
      BY <1>3, <2>2
    <3>2. QED
      BY <1>2, <1>5, <1>6, <3>1
  <2>3. QED
    BY <2>1, <2>2
<1>7. Stored'
  <2>1. \A x \in back' : x.req \in screen.awaits
    BY <1>2, <1>3 DEF ConsoleSafe, Stored
  <2>2. QED
    BY <1>1, <1>6, <2>1 DEF ConsoleSafe, Stored
<1>8. SavedWasStored'
  BY <1>1 DEF ConsoleSafe, SavedWasStored, Parts, FieldsPart, ChipsPart
<1>9. QED
  BY <1>4, <1>7, <1>8 DEF ConsoleSafe

LEMMA ServeSafe ==
    ASSUME ConsoleSafe, NEW r \in line, Serves(r)
    PROVE  ConsoleSafe'
<1>1. r \in Calls /\ room \in Drafts /\ Parts(room) \subseteq kept
  BY DEF ConsoleSafe, ConsoleTypes, Stored
<1>2. r.op \in {"patch", "put"} => r.body \in RoomBody /\ r.body.draft \in Drafts
  BY <1>1 DEF Calls, RoomBody
<1>3. CASE StorePatch(r)
  <2>1. PICK new : new = [r.body.draft EXCEPT !.features = room.features]
    OBVIOUS
  <2>2. r.op = "patch" /\ Answer(r, "ok") /\ room' = new /\ kept' = kept \cup Parts(new)
    BY <1>3, <2>1 DEF StorePatch, Stores
  <2>3. new \in Drafts /\ FieldsPart(new) = FieldsPart(r.body.draft)
    BY <1>1, <1>2, <2>1, <2>2 DEF Drafts, FieldsPart
  <2>4. FieldsPart(r.body.draft) \in kept' /\ Parts(room)' \subseteq kept'
    BY <2>2, <2>3, PartsOf DEF Parts
  <2>5. QED
    BY <1>1, <2>2, <2>3, <2>4, AnswerSafe
<1>4. CASE StoreFeatures(r)
  <2>1. PICK new : new = [room EXCEPT !.features = r.body.draft.features]
    OBVIOUS
  <2>2. r.op = "put" /\ Answer(r, "ok") /\ room' = new /\ kept' = kept \cup Parts(new)
    BY <1>4, <2>1 DEF StoreFeatures, Stores
  <2>3. new \in Drafts /\ ChipsPart(new) = ChipsPart(r.body.draft)
    BY <1>1, <1>2, <2>1, <2>2 DEF Drafts, ChipsPart
  <2>4. ChipsPart(r.body.draft) \in kept' /\ Parts(room)' \subseteq kept'
    BY <2>2, <2>3, PartsOf DEF Parts
  <2>5. QED
    BY <1>1, <2>2, <2>3, <2>4, AnswerSafe
<1>5. CASE RunImport(r) \/ RunDeactivate(r)
  <2>1. r.op \in {"import", "deactivate"} /\ Answer(r, "ok") /\ UNCHANGED <<room, kept>>
    BY <1>1, <1>5 DEF RunImport, RunDeactivate
  <2>2. QED
    BY <1>1, <2>1, AnswerSafe DEF Parts
<1>6. CASE Refuse(r)
  <2>1. Answer(r, "refused") /\ UNCHANGED <<room, kept>>
    BY <1>6 DEF Refuse
  <2>2. QED
    BY <1>1, <2>1, AnswerSafe DEF Parts
<1>7. QED
  BY <1>3, <1>4, <1>5, <1>6 DEF Serves

\* An answer is heard.
LEMMA HearSafe ==
    ASSUME ConsoleSafe, NEW x \in back, Hears(x)
    PROVE  ConsoleSafe'
<1>1. /\ screen \in Screens /\ x \in [req : Calls, code : {"ok", "refused"}] /\ x.req \in Calls
      /\ line \subseteq Calls /\ back \subseteq [req : Calls, code : {"ok", "refused"}]
  BY DEF ConsoleSafe, ConsoleTypes
<1>2. PICK rest : rest = screen.awaits \ {x.req} /\ rest \in SUBSET Calls
  <2>1. screen.awaits \in SUBSET Calls
    BY <1>1 DEF Screens
  <2>2. screen.awaits \ {x.req} \in SUBSET Calls
    BY <2>1
  <2>3. QED
    BY <2>2
<1>3. PICK heard \in Screens : heard = Told(x)
  BY <1>1, <1>2 DEF Told, Screens
<1>4. heard.awaits = rest /\ heard.saved = screen.saved
  BY <1>1, <1>2, <1>3 DEF Told, Screens
<1>5. ASSUME NEW s \in Screens, Heed(x, s), UNCHANGED kept, s.awaits = rest,
             s.saved # Unsaved => Done(s.saved)
      PROVE  ConsoleSafe'
  <2>1. screen' = s /\ back' = {y \in back : y.req # x.req} /\ UNCHANGED <<room, query, line, clicks, kept>>
    BY <1>5 DEF Heed, Shows
  <2>2. ConsoleTypes'
    BY <1>1, <2>1 DEF ConsoleSafe, ConsoleTypes
  <2>3. Stored' /\ SavedWasStored'
    BY <1>2, <1>5, <2>1 DEF ConsoleSafe, Stored, SavedWasStored, Done, Parts, FieldsPart, ChipsPart
  <2>4. QED
    BY <2>2, <2>3 DEF ConsoleSafe
<1>6. heard.saved # Unsaved => Done(heard.saved)
  BY <1>4 DEF ConsoleSafe, SavedWasStored, Done
<1>7. CASE RefusalShown(x)
  BY <1>3, <1>4, <1>5, <1>6, <1>7 DEF RefusalShown
<1>8. CASE DeactivateAnswered(x)
  BY <1>8, OpenMenuSafe DEF DeactivateAnswered
<1>9. CASE ImportAnswered(x)
  <2>1. x.req.op = "import" /\ x.req.body \in RunBody
    BY <1>1, <1>9 DEF ImportAnswered, Calls
  <2>2. PICK s \in Screens : /\ Heed(x, s) /\ UNCHANGED kept
                             /\ s \in {[heard EXCEPT !.preview = x.req.body], [heard EXCEPT !.result = x.req.body]}
    BY <1>3, <1>9, <2>1 DEF ImportAnswered, Screens
  <2>3. s.awaits = rest /\ s.saved = screen.saved
    BY <1>4, <2>2 DEF Screens
  <2>4. QED
    BY <1>4, <1>5, <1>6, <2>2, <2>3
<1>10. CASE FeaturesStored(x)
  <2>1. x.req.op = "put" /\ x.code = "ok" /\ x.req.body \in RoomBody
    BY <1>1, <1>10 DEF FeaturesStored, Calls
  <2>2. Done(x.req.body)
    BY <2>1 DEF ConsoleSafe, Stored, Done
  <2>3. PICK s \in Screens : Heed(x, s) /\ UNCHANGED kept /\ s = [heard EXCEPT !.saved = x.req.body]
    BY <1>3, <1>10, <2>1 DEF FeaturesStored, Screens
  <2>4. s.awaits = rest /\ s.saved = x.req.body
    BY <1>4, <2>3 DEF Screens
  <2>5. QED
    BY <1>5, <2>2, <2>3, <2>4
<1>11. CASE PatchStored(x)
  <2>1. /\ x.req.op = "patch" /\ x.code = "ok" /\ x.req.body \in RoomBody /\ x.req.n \in Int
    BY <1>1, <1>11 DEF PatchStored, Calls
  <2>2. PICK put : put = [x.req EXCEPT !.n = -x.req.n, !.op = "put"]
    OBVIOUS
  <2>3. put \in Calls /\ put.op = "put" /\ put.body = x.req.body
    <3>1. x.req \in [n : Int, op : {"patch", "put"}, body : RoomBody]
      BY <1>1, <2>1 DEF Calls
    <3>2. -x.req.n \in Int
      BY <2>1
    <3>3. put \in [n : Int, op : {"patch", "put"}, body : RoomBody] /\ put.op = "put" /\ put.body = x.req.body
      BY <2>2, <3>1, <3>2
    <3>4. QED
      BY <2>1, <3>3 DEF Calls
  <2>4. PICK more : more = IF FeaturesChanged(x.req.body) THEN {put} ELSE {}
    OBVIOUS
  <2>5. PICK saved \in RoomBody : saved = IF SavedByPatch(x) THEN x.req.body ELSE heard.saved
    BY <2>1, <1>3 DEF Screens
  <2>6. /\ screen' = [heard EXCEPT !.saved = saved, !.awaits = rest \cup more]
        /\ line' = line \cup more /\ back' = {y \in back : y.req # x.req}
        /\ UNCHANGED <<room, query, clicks, kept>>
    <3>1. screen' = [heard EXCEPT !.saved = IF SavedByPatch(x) THEN x.req.body ELSE @, !.awaits = @ \cup more]
      BY <1>3, <1>11, <2>2, <2>4 DEF PatchStored
    <3>2. QED
      BY <1>4, <1>11, <2>2, <2>4, <2>5, <3>1 DEF PatchStored
  <2>7. screen' \in Screens /\ screen'.saved = saved /\ screen'.awaits = rest \cup more
    BY <1>2, <1>4, <2>3, <2>4, <2>6 DEF Screens
  <2>8. FieldsPart(x.req.body.draft) \in kept
    BY <2>1 DEF ConsoleSafe, Stored
  <2>9. saved # Unsaved => Done(saved)
    BY <1>4, <1>6, <2>5, <2>8 DEF SavedByPatch, FeaturesChanged, Done
  <2>10. ConsoleTypes'
    BY <1>1, <2>3, <2>4, <2>6, <2>7 DEF ConsoleSafe, ConsoleTypes
  <2>11. ASSUME NEW r \in rest \cup more
         PROVE  r.op = "put" => FieldsPart(r.body.draft) \in kept
    <3>1. CASE r \in rest
      BY <1>2, <3>1 DEF ConsoleSafe, Stored
    <3>2. CASE r \in more
      BY <2>3, <2>4, <2>8, <3>2
    <3>3. QED
      BY <3>1, <3>2
  <2>12. Stored'
    BY <1>2, <2>6, <2>7, <2>11 DEF ConsoleSafe, Stored, Parts, FieldsPart, ChipsPart
  <2>13. SavedWasStored'
    BY <2>6, <2>7, <2>9 DEF SavedWasStored, Done, FieldsPart, ChipsPart
  <2>14. QED
    BY <2>10, <2>12, <2>13 DEF ConsoleSafe
<1>12. QED
  BY <1>7, <1>8, <1>9, <1>10, <1>11 DEF Hears

\* A request or its answer is lost, or somebody else writes the room.
LEMMA ElsewhereSafe ==
    ASSUME ConsoleSafe,
           \/ \E r \in screen.awaits : Snap(r)
           \/ \E d \in Details : AnotherEdits(d)
           \/ \E f \in Features : AnotherChip(f)
    PROVE  ConsoleSafe'
<1>1. screen \in Screens /\ room \in Drafts
  BY DEF ConsoleSafe, ConsoleTypes
<1>2. ASSUME NEW r \in screen.awaits, Snap(r) PROVE ConsoleSafe'
  <2>1. /\ screen' = [screen EXCEPT !.awaits = @ \ {r}] /\ back' = {x \in back : x.req # r}
        /\ UNCHANGED <<room, query, line, clicks, kept>>
    BY <1>2 DEF Snap, Shows
  <2>2. /\ screen' \in Screens /\ screen'.awaits = screen.awaits \ {r}
        /\ screen'.saved = screen.saved
    BY <1>1, <2>1 DEF Screens
  <2>3. ConsoleTypes'
    BY <2>1, <2>2 DEF ConsoleSafe, ConsoleTypes
  <2>4. Stored' /\ SavedWasStored'
    BY <2>1, <2>2 DEF ConsoleSafe, Stored, SavedWasStored, Parts, FieldsPart, ChipsPart
  <2>5. QED
    BY <2>3, <2>4 DEF ConsoleSafe
<1>3. ASSUME NEW new \in Drafts, ByOthers, Stores(new) PROVE ConsoleSafe'
  <2>1. room' = new /\ kept' = kept \cup Parts(new) /\ UNCHANGED <<query, line, back, screen, clicks>>
    BY <1>3 DEF ByOthers, Stores
  <2>2. ConsoleTypes'
    BY <2>1 DEF ConsoleSafe, ConsoleTypes
  <2>3. Stored' /\ SavedWasStored'
    BY <2>1 DEF ConsoleSafe, Stored, SavedWasStored, Parts, FieldsPart, ChipsPart
  <2>4. QED
    BY <2>2, <2>3 DEF ConsoleSafe
<1>4. ASSUME NEW d \in Details, AnotherEdits(d) PROVE ConsoleSafe'
  <2>1. PICK new \in Drafts : new = [room EXCEPT !.details = d]
    BY <1>1 DEF Drafts
  <2>2. QED
    BY <1>3, <1>4, <2>1 DEF AnotherEdits
<1>5. ASSUME NEW f \in Features, AnotherChip(f) PROVE ConsoleSafe'
  <2>1. PICK new \in Drafts : new = [room EXCEPT !.features = {f}]
    BY <1>1 DEF Drafts
  <2>2. QED
    BY <1>3, <1>5, <2>1 DEF AnotherChip
<1>6. QED
  BY <1>2, <1>4, <1>5

LEMMA ConsoleNextSafe == ConsoleSafe /\ [ConsoleNext]_consoleVars => ConsoleSafe'
<1> SUFFICES ASSUME ConsoleSafe, [ConsoleNext]_consoleVars PROVE ConsoleSafe'
  OBVIOUS
<1>1. CASE UNCHANGED consoleVars
  BY <1>1 DEF consoleVars, ConsoleSafe, ConsoleTypes, Stored, SavedWasStored, Parts, FieldsPart, ChipsPart
<1>2. CASE ConsoleNext
  BY <1>2, OpenSafe, ScreenMoves, PressSafe, ServeSafe, HearSafe, ElsewhereSafe DEF ConsoleNext
<1>3. QED
  BY <1>1, <1>2

LEMMA ConsoleInvariant == ConsoleSpec => []ConsoleSafe
BY ConsoleInitSafe, ConsoleNextSafe, PTL DEF ConsoleSpec

----------------------------------------------------------------------------
(* Accounts *)

RowTexts == [Fields -> Texts]
Roles == {"EMPLOYEE", "ADMIN"}
Row == [there : BOOLEAN, text : RowTexts, role : Roles, status : {"INVITED", "ACTIVE", "DISABLED"},
        password : BOOLEAN, signedIn : BOOLEAN, owns : BOOLEAN]
Keys == Fields \cup {"role"}
SheetState == [for : {"none", "new", "account"}, text : RowTexts, role : Roles, typed : SUBSET Keys,
               reread : BOOLEAN, waits : SUBSET Nat]
DialogState == [op : {"none", "reactivate", "deactivate", "delete"}, seen : Row, waits : SUBSET Nat]
Bodies == [text : RowTexts, names : SUBSET Fields, role : SUBSET Roles]
Requests == [n : Nat, op : {"create", "patch", "invite", "reset", "reactivate", "deactivate", "delete"},
             body : Bodies, seen : Row, typed : SUBSET Keys, reread : BOOLEAN]
Answers == [req : Requests, code : {"ok", "refused"}]
AccountTypes ==
    /\ subject \in {"self", "other"} /\ colleagues \in {0, 1} /\ facets \in Int
    /\ account \in Row /\ listed \in Row /\ detail \in Row
    /\ sheet \in SheetState /\ dialog \in DialogState
    /\ asked \subseteq Requests /\ told \subseteq Answers
    /\ presses \in Nat /\ acts \in Nat

\* One's own account stays and stays an administrator's, wherever it is read.
Own ==
    Self =>
        /\ account.there /\ account.role = "ADMIN"
        /\ detail.there => detail.role = "ADMIN"
        /\ Mounted => sheet.role = "ADMIN"
\* A form over an account that was not read again differs from it where it was touched.
Touched ==
    Mounted =>
        /\ detail.there
        /\ ~sheet.reread =>
             /\ \A f \in Fields : sheet.text[f] # detail.text[f] => f \in sheet.typed
             /\ sheet.role # detail.role => "role" \in sheet.typed
\* What is known of the account a confirmation was opened on.
Fits(op, seen) ==
    /\ op # "create" => seen.there
    /\ op = "create" => seen = Absent
    /\ op = "reactivate" => seen.status = "DISABLED"
    /\ op = "deactivate" => ~Self
    /\ op = "delete" => ~Self /\ ~seen.signedIn /\ ~seen.owns
    /\ op = "invite" => seen.status = "INVITED"
    /\ op = "reset" => seen.status # "DISABLED"
Confirms == dialog = NoDialog \/ (dialog.op # "none" /\ Fits(dialog.op, dialog.seen))
\* A request fits the account it was made over, and a change names what was touched.
Fair(r) ==
    /\ Fits(r.op, r.seen)
    /\ r.op = "patch" =>
         /\ r.body.role # {} => ~Self
         /\ ~r.reread => r.body.names \subseteq r.typed /\ (r.body.role # {} => "role" \in r.typed)
AccountsSafe == AccountTypes /\ Own /\ Touched /\ Confirms /\ \A r \in asked : Fair(r)

LEMMA FirstRows ==
    /\ Absent \in Row /\ NoSheet \in SheetState /\ NoDialog \in DialogState
    /\ Nothing \in Bodies /\ \A text \in RowTexts : Invited(text) \in Row
    /\ NoSheet.for = "none" /\ NoDialog.op = "none" /\ ~Absent.there
<1>1. [f \in Fields |-> FirstText] \in RowTexts
  BY AccountsAssumption DEF RowTexts
<1>2. Absent \in Row /\ ~Absent.there
  BY <1>1 DEF Absent, Row, Roles
<1>3. Absent.text \in RowTexts
  BY <1>2 DEF Row
<1>4. NoSheet \in SheetState /\ NoSheet.for = "none"
  BY <1>3 DEF NoSheet, SheetState, Roles
<1>5. NoDialog \in DialogState /\ NoDialog.op = "none"
  BY <1>2 DEF NoDialog, DialogState
<1>6. Nothing \in Bodies
  BY <1>3 DEF Nothing, Bodies
<1>7. \A text \in RowTexts : Invited(text) \in Row
  BY <1>2 DEF Invited, Row
<1>8. QED
  BY <1>2, <1>4, <1>5, <1>6, <1>7

LEMMA AccountsInitSafe == AccountsInit => AccountsSafe
<1> SUFFICES ASSUME AccountsInit PROVE AccountsSafe
  OBVIOUS
<1>1. PICK plain \in Row : plain = Invited(Absent.text)
  BY FirstRows DEF Row
<1>2. Mine \in Row /\ Mine.there /\ Mine.role = "ADMIN" /\ [Mine EXCEPT !.signedIn = FALSE] \in Row
  <2>1. plain.there
    BY FirstRows, <1>1 DEF Invited, Row
  <2>2. Mine = [plain EXCEPT !.role = "ADMIN", !.status = "ACTIVE", !.password = TRUE, !.signedIn = TRUE]
    BY <1>1 DEF Mine
  <2>3. QED
    BY <2>1, <2>2 DEF Row, Roles
<1>3. account \in Row /\ (Self => account.there /\ account.role = "ADMIN")
  BY <1>1, <1>2, FirstRows DEF AccountsInit
<1>4. ActiveAdmins \in Int
  BY DEF ActiveAdmins, AccountsInit
<1>5. AccountTypes
  BY <1>3, <1>4, FirstRows DEF AccountsInit, AccountTypes
<1>6. ~Mounted /\ ~detail.there /\ dialog = NoDialog /\ asked = {}
  BY FirstRows DEF AccountsInit, Mounted
<1>7. QED
  BY <1>3, <1>5, <1>6 DEF AccountsSafe, Own, Touched, Confirms

\* A step that leaves the wire and the dialog alone.
LEMMA DrawerSafe ==
    ASSUME AccountsSafe, sheet' \in SheetState, detail' \in Row, listed' \in Row, facets' \in Int,
           UNCHANGED <<World, dialog>>, Own', Touched'
    PROVE  AccountsSafe'
<1>1. AccountTypes'
  BY DEF AccountsSafe, AccountTypes, World
<1>2. Confirms' /\ (\A r \in asked : Fair(r))'
  BY DEF AccountsSafe, Confirms, Fair, Fits, World, Self
<1>3. QED
  BY <1>1, <1>2 DEF AccountsSafe

LEMMA AdminsCounted == ASSUME AccountTypes PROVE ActiveAdmins \in Int /\ (~Self => ~LastOne)
BY DEF AccountTypes, ActiveAdmins, LastOne

LEMMA ReadsSafe == ASSUME AccountsSafe, ReadList \/ ReadFacets \/ ReadDetail PROVE AccountsSafe'
<1>1. AccountTypes /\ Own /\ Touched
  BY DEF AccountsSafe
<1>2. CASE ReadList
  <2>1. Own' /\ Touched'
    BY <1>1, <1>2 DEF ReadList, World, Own, Touched, Mounted, Self
  <2>2. QED
    BY <1>1, <1>2, <2>1, DrawerSafe DEF ReadList, AccountTypes
<1>3. CASE ReadFacets
  <2>1. Own' /\ Touched'
    BY <1>1, <1>3 DEF ReadFacets, World, Own, Touched, Mounted, Self
  <2>2. QED
    BY <1>1, <1>3, <2>1, DrawerSafe, AdminsCounted DEF ReadFacets, AccountTypes
<1>4. CASE ReadDetail
  <2>1. sheet' \in SheetState /\ sheet'.reread /\ sheet'.for = sheet.for /\ sheet'.role = sheet.role
    BY <1>1, <1>4 DEF ReadDetail, AccountTypes, SheetState
  <2>2. Own' /\ Touched'
    BY <1>1, <1>4, <2>1 DEF ReadDetail, World, Own, Touched, Mounted, Self
  <2>3. QED
    BY <1>1, <1>4, <2>1, <2>2, DrawerSafe DEF ReadDetail, AccountTypes
<1>5. QED
  BY <1>2, <1>3, <1>4

\* The drawer closes, or opens on nothing.
LEMMA ShutSafe ==
    ASSUME AccountsSafe, sheet' \in {NoSheet, [NoSheet EXCEPT !.for = "new"]},
           UNCHANGED <<World, listed, facets, detail, dialog>>
    PROVE  AccountsSafe'
<1>1. AccountTypes /\ Own /\ Touched
  BY DEF AccountsSafe
<1>2. sheet' \in SheetState /\ ~Mounted'
  BY FirstRows DEF SheetState, Mounted
<1>3. Own' /\ Touched'
  BY <1>1, <1>2 DEF World, Own, Touched, Self
<1>4. QED
  BY <1>1, <1>2, <1>3, DrawerSafe DEF AccountTypes

LEMMA OpenSheetSafe == ASSUME AccountsSafe, OpenSheet PROVE AccountsSafe'
<1>1. AccountTypes /\ Own /\ Touched
  BY DEF AccountsSafe
<1>2. PICK r \in Row : r = IF detail.there THEN detail ELSE account
  BY <1>1 DEF AccountTypes
<1>3. /\ r.there /\ (Self => r.role = "ADMIN")
      /\ detail' = r /\ sheet' = [NoSheet EXCEPT !.for = "account", !.text = r.text, !.role = r.role]
      /\ UNCHANGED <<World, listed, facets, dialog>>
  BY <1>1, <1>2 DEF OpenSheet, Own
<1>4. /\ sheet' \in SheetState
      /\ sheet'.text = r.text /\ sheet'.role = r.role
  <2>1. r.text \in RowTexts /\ r.role \in Roles
    BY DEF Row
  <2>2. QED
    BY <1>3, <2>1, FirstRows DEF SheetState
<1>5. Own' /\ Touched'
  BY <1>1, <1>3, <1>4 DEF World, Own, Touched, Mounted, Self
<1>6. QED
  BY <1>1, <1>3, <1>4, <1>5, DrawerSafe DEF AccountTypes

LEMMA TypeFieldSafe == ASSUME AccountsSafe, NEW f \in Fields, NEW v \in Texts, TypeField(f, v) PROVE AccountsSafe'
<1>1. AccountTypes /\ Own /\ Touched /\ sheet \in SheetState
  BY DEF AccountsSafe, AccountTypes
<1>2. /\ sheet' = [sheet EXCEPT !.text[f] = v, !.typed = @ \cup {f}]
      /\ UNCHANGED <<World, listed, facets, detail, dialog>>
  BY DEF TypeField, Draws
<1>3. PICK text \in RowTexts : text = [sheet.text EXCEPT ![f] = v]
  BY <1>1 DEF SheetState, RowTexts
<1>4. PICK typed \in SUBSET Keys : typed = sheet.typed \cup {f}
  <2>1. sheet.typed \in SUBSET Keys
    BY <1>1 DEF SheetState
  <2>2. QED
    BY <2>1 DEF Keys
<1>5. /\ sheet' = [sheet EXCEPT !.text = text, !.typed = typed]
      /\ sheet' \in SheetState /\ sheet'.text = text /\ sheet'.typed = typed
      /\ sheet'.for = sheet.for /\ sheet'.role = sheet.role /\ sheet'.reread = sheet.reread
  <2>1. sheet' = [sheet EXCEPT !.text = text, !.typed = typed]
    BY <1>1, <1>2, <1>3, <1>4 DEF SheetState
  <2>2. QED
    BY <1>1, <2>1 DEF SheetState
<1>6. \A g \in Fields : g # f => text[g] = sheet.text[g]
  BY <1>1, <1>3 DEF SheetState, RowTexts
<1>7. Own'
  BY <1>1, <1>2, <1>5 DEF World, Own, Mounted, Self
<1>8. Touched'
  BY <1>1, <1>2, <1>4, <1>5, <1>6 DEF World, Touched, Mounted
<1>9. QED
  BY <1>1, <1>2, <1>5, <1>7, <1>8, DrawerSafe DEF AccountTypes

LEMMA PickRoleSafe == ASSUME AccountsSafe, NEW role \in Roles, PickRole(role) PROVE AccountsSafe'
<1>1. AccountTypes /\ Own /\ Touched /\ sheet \in SheetState
  BY DEF AccountsSafe, AccountTypes
<1>2. /\ sheet' = [sheet EXCEPT !.role = role, !.typed = @ \cup {"role"}]
      /\ UNCHANGED <<World, listed, facets, detail, dialog>> /\ ~Self
  BY DEF PickRole, Draws, userGuards
<1>3. PICK typed \in SUBSET Keys : typed = sheet.typed \cup {"role"}
  <2>1. sheet.typed \in SUBSET Keys
    BY <1>1 DEF SheetState
  <2>2. QED
    BY <2>1 DEF Keys
<1>4. /\ sheet' \in SheetState /\ sheet'.text = sheet.text /\ sheet'.typed = typed
      /\ sheet'.for = sheet.for /\ sheet'.reread = sheet.reread
  BY <1>1, <1>2, <1>3 DEF SheetState
<1>5. Own'
  BY <1>2 DEF World, Own, Self
<1>6. Touched'
  BY <1>1, <1>2, <1>3, <1>4 DEF World, Touched, Mounted
<1>7. QED
  BY <1>1, <1>2, <1>4, <1>5, <1>6, DrawerSafe DEF AccountTypes

----------------------------------------------------------------------------
(* What is asked *)

\* A new request keeps what is known of the drawer and of the dialog.
LEMMA SendsSafe ==
    ASSUME AccountsSafe, NEW op \in {"create", "patch", "invite", "reset", "reactivate", "deactivate", "delete"},
           NEW body \in Bodies, NEW seen \in Row, Sends(op, body, seen), Fits(op, seen),
           op = "patch" =>
             /\ body.role # {} => ~Self
             /\ ~sheet.reread => body.names \subseteq sheet.typed /\ (body.role # {} => "role" \in sheet.typed),
           op = "deactivate" => dialog.op = "deactivate"
    PROVE  AccountsSafe'
<1>1. AccountTypes /\ Own /\ Touched /\ Confirms /\ sheet \in SheetState /\ dialog \in DialogState
  BY DEF AccountsSafe, AccountTypes
<1>2. presses' \in Nat
  BY <1>1 DEF Sends, AccountTypes
<1>3. PICK r : r = [n |-> presses', op |-> op, body |-> body, seen |-> seen,
                    typed |-> sheet.typed, reread |-> sheet.reread]
  OBVIOUS
<1>4. r \in Requests
  <2>1. sheet.typed \in SUBSET Keys /\ sheet.reread \in BOOLEAN
    BY <1>1 DEF AccountTypes, SheetState
  <2>2. QED
    BY <1>2, <1>3, <2>1 DEF Requests
<1>5. asked' = asked \cup {r}
  BY <1>3 DEF Sends
<1>6. /\ sheet' \in SheetState /\ sheet'.for = sheet.for /\ sheet'.role = sheet.role /\ sheet'.text = sheet.text
      /\ sheet'.typed = sheet.typed /\ sheet'.reread = sheet.reread
  <2>1. PICK waits \in SUBSET Nat : waits = sheet.waits \cup {presses'}
    <3>1. sheet.waits \in SUBSET Nat
      BY <1>1 DEF SheetState
    <3>2. QED
      BY <1>2, <3>1
  <2>2. sheet' = [sheet EXCEPT !.waits = waits] \/ sheet' = sheet
    BY <2>1 DEF Sends
  <2>3. QED
    BY <1>1, <2>2 DEF SheetState
<1>7. dialog' \in DialogState /\ dialog'.op = dialog.op /\ dialog'.seen = dialog.seen /\ (op # "deactivate" => dialog' = dialog)
  <2>1. PICK waits \in SUBSET Nat : waits = dialog.waits \cup {presses'}
    <3>1. dialog.waits \in SUBSET Nat
      BY <1>1 DEF DialogState
    <3>2. QED
      BY <1>2, <3>1
  <2>2. dialog' = IF op = "deactivate" THEN [dialog EXCEPT !.waits = waits] ELSE dialog
    BY <2>1 DEF Sends
  <2>3. QED
    BY <1>1, <2>2 DEF DialogState
<1>8. UNCHANGED <<subject, account, colleagues, told, acts, listed, facets, detail>>
  BY DEF Sends
<1>9. AccountTypes'
  BY <1>1, <1>2, <1>4, <1>5, <1>6, <1>7, <1>8 DEF AccountTypes
<1>10. Own' /\ Touched'
  BY <1>1, <1>6, <1>8 DEF Own, Touched, Mounted, Self
<1>11. Confirms'
  BY <1>1, <1>7, <1>8, FirstRows DEF Confirms, Fits, Self
<1>12. Fair(r)'
  <2>1. /\ r.op = op /\ r.seen = seen /\ r.body = body /\ r.typed = sheet.typed /\ r.reread = sheet.reread
    BY <1>3
  <2>2. QED
    BY <1>8, <2>1 DEF Fair, Fits, Self
<1>13. \A x \in asked : Fair(x)'
  BY <1>8 DEF AccountsSafe, Fair, Fits, Self
<1>14. QED
  BY <1>5, <1>9, <1>10, <1>11, <1>12, <1>13 DEF AccountsSafe

LEMMA PressesSafe == ASSUME AccountsSafe, PressCreate \/ PressUpdate \/ PressLink \/ Confirm PROVE AccountsSafe'
<1>1. /\ AccountTypes /\ Own /\ Touched /\ Confirms /\ sheet \in SheetState /\ dialog \in DialogState
      /\ detail \in Row /\ listed \in Row
  BY DEF AccountsSafe, AccountTypes
<1>2. CASE PressCreate
  <2>1. [Nothing EXCEPT !.text = sheet.text] \in Bodies
    BY <1>1, FirstRows DEF SheetState, Bodies
  <2>2. Fits("create", Absent)
    BY DEF Fits
  <2>3. QED
    BY <1>2, <2>1, <2>2, FirstRows, SendsSafe DEF PressCreate
<1>3. CASE PressUpdate
  <2>1. CASE Body.names = {} /\ Body.role = {}
    BY <1>3, <2>1, ShutSafe DEF PressUpdate, Draws
  <2>2. CASE ~(Body.names = {} /\ Body.role = {})
    <3>1. Mounted /\ Sends("patch", Body, detail)
      BY <1>3, <2>2 DEF PressUpdate
    <3>2. PICK names \in SUBSET Fields : names = {f \in Fields : sheet.text[f] # detail.text[f]}
      OBVIOUS
    <3>3. PICK role \in SUBSET Roles : role = IF sheet.role = detail.role THEN {} ELSE {sheet.role}
      <4>1. sheet.role \in Roles
        BY <1>1 DEF SheetState
      <4>2. QED
        BY <4>1
    <3>4. PICK body : body = Body
      OBVIOUS
    <3>5. body = [text |-> sheet.text, names |-> names, role |-> role]
      BY <3>2, <3>3, <3>4 DEF Body
    <3>6. body \in Bodies /\ body.names = names /\ body.role = role
      BY <1>1, <3>5 DEF Bodies, SheetState
    <3>7. Fits("patch", detail)
      BY <1>1, <3>1 DEF Fits, Touched
    <3>8. /\ body.role # {} => ~Self
          /\ ~sheet.reread => body.names \subseteq sheet.typed /\ (body.role # {} => "role" \in sheet.typed)
      BY <1>1, <3>1, <3>2, <3>3, <3>6 DEF Own, Touched
    <3>9. QED
      BY <1>1, <3>1, <3>4, <3>6, <3>7, <3>8, SendsSafe
  <2>3. QED
    BY <2>1, <2>2
<1>4. CASE PressLink
  <2>1. PICK r \in OnScreen : \/ ~Mounted /\ r.status = "INVITED" /\ Sends("invite", Nothing, r)
                              \/ Mounted /\ r.status # "DISABLED" /\ Sends("reset", Nothing, r)
    BY <1>4 DEF PressLink
  <2>2. r \in Row /\ r.there
    BY <1>1 DEF OnScreen, Touched
  <2>3. CASE ~Mounted /\ r.status = "INVITED" /\ Sends("invite", Nothing, r)
    <3>1. Fits("invite", r)
      BY <2>2, <2>3 DEF Fits
    <3>2. QED
      BY <2>2, <2>3, <3>1, FirstRows, SendsSafe
  <2>4. CASE Mounted /\ r.status # "DISABLED" /\ Sends("reset", Nothing, r)
    <3>1. Fits("reset", r)
      BY <2>2, <2>4 DEF Fits
    <3>2. QED
      BY <2>2, <2>4, <3>1, FirstRows, SendsSafe
  <2>5. QED
    BY <2>1, <2>3, <2>4
<1>5. CASE Confirm
  <2>1. PICK op \in {"reactivate", "deactivate", "delete"} : op = dialog.op
    BY <1>1, <1>5 DEF Confirm, Confirms, DialogState
  <2>2. PICK seen \in Row : seen = dialog.seen
    BY <1>1 DEF DialogState
  <2>3. Sends(op, Nothing, seen) /\ Fits(op, seen)
    BY <1>1, <1>5, <2>1, <2>2 DEF Confirm, Confirms
  <2>4. QED
    BY <2>1, <2>2, <2>3, FirstRows, SendsSafe
<1>6. QED
  BY <1>2, <1>3, <1>4, <1>5

LEMMA DialogSafe == ASSUME AccountsSafe, OpenDialog \/ CloseDialog PROVE AccountsSafe'
<1>1. AccountTypes /\ Own /\ Touched /\ detail \in Row /\ listed \in Row
  BY DEF AccountsSafe, AccountTypes
<1>2. ASSUME dialog' \in DialogState, Confirms', UNCHANGED <<World, listed, facets, detail, sheet>>
      PROVE  AccountsSafe'
  <2>1. AccountTypes' /\ Own' /\ Touched'
    BY <1>1, <1>2 DEF World, AccountTypes, Own, Touched, Mounted, Self
  <2>2. (\A r \in asked : Fair(r))'
    BY <1>2 DEF AccountsSafe, World, Fair, Fits, Self
  <2>3. QED
    BY <1>2, <2>1, <2>2 DEF AccountsSafe
<1>3. CASE CloseDialog
  BY <1>2, <1>3, FirstRows DEF CloseDialog, Confirms
<1>4. CASE OpenDialog
  <2>1. PICK r \in OnScreen, op \in {"reactivate", "deactivate", "delete"} :
             /\ OpensDialog(op, r)
             /\ op = "reactivate" => r.status = "DISABLED"
             /\ op = "deactivate" => userGuards(r) = {}
             /\ op = "delete" => canHardDelete(r)
    BY <1>4 DEF OpenDialog
  <2>2. r \in Row /\ r.there
    BY <1>1 DEF OnScreen, Touched
  <2>3. Fits(op, r)
    BY <2>1, <2>2 DEF Fits, userGuards, canHardDelete
  <2>4. dialog' \in DialogState /\ dialog'.op = op /\ dialog'.seen = r
    BY <2>1, <2>2, FirstRows DEF OpensDialog, DialogState
  <2>5. Confirms'
    BY <2>1, <2>3, <2>4 DEF Confirms, Fits, OpensDialog, World, Self
  <2>6. QED
    BY <1>2, <2>1, <2>4, <2>5 DEF OpensDialog
<1>5. QED
  BY <1>3, <1>4

----------------------------------------------------------------------------
(* What is done *)

\* The row after a request that was served, whatever the request says of the role.
LEMMA WrittenRow ==
    ASSUME AccountsSafe, NEW r \in asked, ~Refusals(r)
    PROVE  Written(r) \in Row /\ (Self => Written(r).there /\ Written(r).role = "ADMIN")
<1>1. /\ r \in Requests /\ r.body \in Bodies /\ account \in Row /\ Own /\ Fair(r)
      /\ r.body.text \in RowTexts /\ r.body.names \in SUBSET Fields /\ r.body.role \in SUBSET Roles
  BY DEF AccountsSafe, AccountTypes, Requests, Bodies
<1>2. CASE r.op = "create"
  BY <1>1, <1>2, FirstRows DEF Written, Refusals, Own
<1>3. CASE r.op = "patch"
  <2>1. PICK text \in RowTexts : text = [f \in Fields |-> IF f \in r.body.names THEN r.body.text[f] ELSE account.text[f]]
    BY <1>1 DEF Row, RowTexts
  <2>2. PICK role \in Roles : role = IF r.body.role = {} THEN account.role ELSE CHOOSE x \in r.body.role : TRUE
    <3>1. CASE r.body.role = {}
      BY <1>1, <3>1 DEF Row
    <3>2. CASE r.body.role # {}
      <4>1. PICK x : x \in r.body.role
        BY <3>2
      <4>2. (CHOOSE y \in r.body.role : TRUE) \in r.body.role
        BY <4>1
      <4>3. QED
        BY <1>1, <3>2, <4>2
    <3>3. QED
      BY <3>1, <3>2
  <2>3. Written(r) = [account EXCEPT !.text = text, !.role = role]
    BY <1>1, <1>3, <2>1, <2>2 DEF Written, Row
  <2>4. Self => r.body.role = {}
    BY <1>1, <1>3 DEF Fair
  <2>5. QED
    BY <1>1, <2>2, <2>3, <2>4 DEF Row, Own
<1>4. CASE r.op = "deactivate"
  BY <1>1, <1>4 DEF Written, Row, Own
<1>5. CASE r.op = "reactivate"
  BY <1>1, <1>5 DEF Written, Restored, Row, Own
<1>6. CASE r.op = "delete"
  BY <1>1, <1>6, FirstRows DEF Written, Fair, Fits
<1>7. CASE r.op \in {"invite", "reset"}
  BY <1>1, <1>7 DEF Written, Own
<1>8. QED
  BY <1>1, <1>2, <1>3, <1>4, <1>5, <1>6, <1>7 DEF Requests

\* Nothing on screen moves when the server, an owner or another administrator acts.
LEMMA AwaySafe ==
    ASSUME AccountsSafe, account' \in Row, Self => account'.there /\ account'.role = "ADMIN",
           colleagues' \in {0, 1}, acts' \in Nat,
           asked' \subseteq asked, told' \subseteq Answers,
           UNCHANGED <<subject, listed, facets, detail, sheet, dialog, presses>>
    PROVE  AccountsSafe'
<1>1. AccountTypes'
  BY DEF AccountsSafe, AccountTypes
<1>2. Own' /\ Touched' /\ Confirms' /\ (\A r \in asked : Fair(r))'
  BY DEF AccountsSafe, Own, Touched, Confirms, Fair, Fits, Mounted, Self
<1>3. QED
  BY <1>1, <1>2 DEF AccountsSafe

LEMMA ServesSafe == ASSUME AccountsSafe, NEW r \in asked, Serve(r) PROVE AccountsSafe'
<1>1. /\ r \in Requests /\ told \subseteq Answers /\ account \in Row /\ colleagues \in {0, 1} /\ acts \in Nat
      /\ (Self => account.there /\ account.role = "ADMIN")
  BY DEF AccountsSafe, AccountTypes, Own
<1>2. account' \in Row /\ (Self => account'.there /\ account'.role = "ADMIN")
  BY <1>1, WrittenRow DEF Serve
<1>3. told' \subseteq Answers
  BY <1>1 DEF Serve, Answers
<1>4. QED
  BY <1>1, <1>2, <1>3, AwaySafe DEF Serve

LEMMA HeardSafe == ASSUME AccountsSafe, NEW x \in told, Hear(x) PROVE AccountsSafe'
<1>1. AccountTypes /\ Own /\ Touched /\ Confirms
  BY DEF AccountsSafe
<1>2. sheet' \in {sheet, NoSheet} /\ dialog' \in {dialog, NoDialog}
  BY DEF Hear, Finishes
<1>3. UNCHANGED <<subject, account, colleagues, listed, facets, detail, asked, presses, acts>> /\ told' \subseteq told
  BY DEF Hear
<1>4. AccountTypes'
  BY <1>1, <1>2, <1>3, FirstRows DEF AccountTypes
<1>5. Own' /\ Touched'
  BY <1>1, <1>2, <1>3, FirstRows DEF Own, Touched, Mounted, Self
<1>6. Confirms' /\ (\A r \in asked : Fair(r))'
  BY <1>1, <1>2, <1>3, FirstRows DEF AccountsSafe, Confirms, Fair, Fits, Self
<1>7. QED
  BY <1>4, <1>5, <1>6 DEF AccountsSafe

LEMMA BreaksSafe == ASSUME AccountsSafe, Broken PROVE AccountsSafe'
<1>1. asked' \subseteq asked /\ told' \subseteq told
  BY DEF Broken
<1>2. account \in Row /\ told \subseteq Answers /\ colleagues \in {0, 1} /\ acts \in Nat
      /\ (Self => account.there /\ account.role = "ADMIN")
  BY DEF AccountsSafe, AccountTypes, Own
<1>3. QED
  BY <1>1, <1>2, AwaySafe DEF Broken

LEMMA BecomesSafe ==
    ASSUME AccountsSafe, NEW r \in Row, Becomes(r), Self => r.there /\ r.role = "ADMIN"
    PROVE  AccountsSafe'
<1>1. told \subseteq Answers /\ colleagues \in {0, 1} /\ acts \in Nat
  BY DEF AccountsSafe, AccountTypes
<1>2. QED
  BY <1>1, AwaySafe DEF Becomes

LEMMA OthersSafe ==
    ASSUME AccountsSafe,
           \/ \E f \in Fields, v \in Texts : Rewritten(f, v)
           \/ Promoted \/ Disabled \/ Enabled \/ Accepted \/ Entered \/ Booked \/ Hired
    PROVE  AccountsSafe'
<1>1. account \in Row /\ (Self => account.there /\ account.role = "ADMIN") /\ account.text \in RowTexts
  BY DEF AccountsSafe, AccountTypes, Own, Row
<1>2. CASE \E f \in Fields, v \in Texts : Rewritten(f, v)
  <2>1. PICK f \in Fields, v \in Texts : Rewritten(f, v)
    BY <1>2
  <2>2. PICK text \in RowTexts : text = [account.text EXCEPT ![f] = v]
    BY <1>1 DEF RowTexts
  <2>3. PICK r : r = [account EXCEPT !.text[f] = v]
    OBVIOUS
  <2>4. r = [account EXCEPT !.text = text]
    BY <1>1, <2>2, <2>3 DEF Row
  <2>5. r \in Row /\ (Self => r.there /\ r.role = "ADMIN")
    BY <1>1, <2>4 DEF Row
  <2>6. QED
    BY <2>1, <2>3, <2>5, BecomesSafe DEF Rewritten
<1>3. CASE Promoted
  <2>1. PICK role \in Roles : ~Self /\ Becomes([account EXCEPT !.role = role])
    BY <1>3 DEF Promoted, Roles
  <2>2. [account EXCEPT !.role = role] \in Row
    BY <1>1 DEF Row
  <2>3. QED
    BY <2>1, <2>2, BecomesSafe
<1>4. CASE Disabled
  <2>1. [account EXCEPT !.status = "DISABLED"] \in Row
    BY <1>1 DEF Row
  <2>2. QED
    BY <1>4, <2>1, BecomesSafe DEF Disabled
<1>5. CASE Enabled
  <2>1. PICK r \in Row : r = [account EXCEPT !.status = Restored]
    BY <1>1 DEF Row, Restored
  <2>2. r.there = account.there /\ r.role = account.role
    BY <1>1, <2>1 DEF Row
  <2>3. QED
    BY <1>1, <1>5, <2>1, <2>2, BecomesSafe DEF Enabled
<1>6. CASE Accepted
  <2>1. PICK r \in Row : r = [account EXCEPT !.status = "ACTIVE", !.password = TRUE]
    BY <1>1 DEF Row
  <2>2. r.there = account.there /\ r.role = account.role
    BY <1>1, <2>1 DEF Row
  <2>3. QED
    BY <1>1, <1>6, <2>1, <2>2, BecomesSafe DEF Accepted
<1>7. CASE Entered
  <2>1. PICK r \in Row : r = [account EXCEPT !.signedIn = TRUE]
    BY <1>1 DEF Row
  <2>2. r.there = account.there /\ r.role = account.role
    BY <1>1, <2>1 DEF Row
  <2>3. QED
    BY <1>1, <1>7, <2>1, <2>2, BecomesSafe DEF Entered
<1>8. CASE Booked
  <2>1. PICK r \in Row : r = [account EXCEPT !.owns = TRUE]
    BY <1>1 DEF Row
  <2>2. r.there = account.there /\ r.role = account.role
    BY <1>1, <2>1 DEF Row
  <2>3. QED
    BY <1>1, <1>8, <2>1, <2>2, BecomesSafe DEF Booked
<1>9. CASE Hired
  <2>1. told \subseteq Answers /\ colleagues' \in {0, 1} /\ acts' \in Nat
    BY <1>9 DEF AccountsSafe, AccountTypes, Hired
  <2>2. QED
    BY <1>1, <1>9, <2>1, AwaySafe DEF Hired
<1>10. QED
  BY <1>2, <1>3, <1>4, <1>5, <1>6, <1>7, <1>8, <1>9

LEMMA AccountsNextSafe == AccountsSafe /\ [AccountsNext]_accountVars => AccountsSafe'
<1> SUFFICES ASSUME AccountsSafe, [AccountsNext]_accountVars PROVE AccountsSafe'
  OBVIOUS
<1>1. CASE UNCHANGED accountVars
  BY <1>1 DEF accountVars, AccountsSafe, AccountTypes, Own, Touched, Confirms, Fair, Fits, Mounted, Self
<1>2. CASE OpenNew \/ CloseSheet
  BY <1>2, ShutSafe DEF OpenNew, CloseSheet, Draws
<1>3. CASE \E f \in Fields, v \in Texts : TypeField(f, v)
  BY <1>3, TypeFieldSafe
<1>4. CASE \E role \in {"EMPLOYEE", "ADMIN"} : PickRole(role)
  BY <1>4, PickRoleSafe DEF Roles
<1>5. CASE \E r \in asked : Serve(r)
  BY <1>5, ServesSafe
<1>6. CASE \E x \in told : Hear(x)
  BY <1>6, HeardSafe
<1>7. QED
  BY <1>1, <1>2, <1>3, <1>4, <1>5, <1>6, ReadsSafe, OpenSheetSafe, PressesSafe, DialogSafe, BreaksSafe, OthersSafe
     DEF AccountsNext

----------------------------------------------------------------------------
(* What a served request does *)

\* A change that was not formed over a moved account writes what was touched.
LEMMA WritesTouched ==
    ASSUME AccountsSafe, NEW r \in asked, Serve(r), r.op = "patch", account' # account, ~r.reread
    PROVE  /\ \A f \in Fields : account'.text[f] # account.text[f] => f \in r.typed
           /\ account'.role # account.role => "role" \in r.typed
<1>1. /\ r \in Requests /\ r.body \in Bodies /\ account \in Row /\ Fair(r)
      /\ r.body.text \in RowTexts /\ r.body.names \in SUBSET Fields /\ r.body.role \in SUBSET Roles
  BY DEF AccountsSafe, AccountTypes, Requests, Bodies
<1>2. account' = Written(r)
  BY DEF Serve
<1>3. PICK text : text = [f \in Fields |-> IF f \in r.body.names THEN r.body.text[f] ELSE account.text[f]]
  OBVIOUS
<1>4. PICK role : role = IF r.body.role = {} THEN account.role ELSE CHOOSE x \in r.body.role : TRUE
  OBVIOUS
<1>5. account' = [account EXCEPT !.text = text, !.role = role]
  BY <1>1, <1>2, <1>3, <1>4 DEF Written, Row
<1>6. account'.text = text /\ account'.role = role
  BY <1>1, <1>5 DEF Row
<1>7. QED
  BY <1>1, <1>3, <1>4, <1>6 DEF Fair

\* A request over an account that did not change is not refused.
LEMMA FairIsServed ==
    ASSUME AccountsSafe, NEW r \in asked, r.seen = account
    PROVE  ~Refusals(r)
<1>1. r \in Requests /\ Fits(r.op, account) /\ (r.op = "patch" => (r.body.role # {} => ~Self))
  BY DEF AccountsSafe, AccountTypes, Fair
<1>2. ~Self => ~LastOne
  BY AdminsCounted DEF AccountsSafe
<1>3. r.op = "create" => ~account.there
  BY <1>1, FirstRows DEF Fits
<1>4. r.op \in {"create", "patch", "invite", "reset", "reactivate", "deactivate", "delete"}
  BY <1>1 DEF Requests
<1>5. CASE r.op = "create"
  BY <1>3, <1>5 DEF Refusals
<1>6. CASE r.op = "patch"
  BY <1>1, <1>2, <1>3, <1>6 DEF Refusals, Fits
<1>7. CASE r.op = "invite"
  BY <1>1, <1>2, <1>3, <1>7 DEF Refusals, Fits
<1>8. CASE r.op = "reset"
  BY <1>1, <1>2, <1>3, <1>8 DEF Refusals, Fits
<1>9. CASE r.op = "reactivate"
  BY <1>1, <1>2, <1>3, <1>9 DEF Refusals, Fits
<1>10. CASE r.op = "deactivate"
  BY <1>1, <1>2, <1>3, <1>10 DEF Refusals, Fits
<1>11. CASE r.op = "delete"
  BY <1>1, <1>2, <1>3, <1>11 DEF Refusals, Fits
<1>12. QED
  BY <1>4, <1>5, <1>6, <1>7, <1>8, <1>9, <1>10, <1>11

LEMMA AccountsActs ==
    /\ AccountsSafe /\ [AccountsNext]_accountVars =>
         [\A r \in asked \ asked' :
            r.op = "patch" /\ account' # account /\ ~r.reread =>
                /\ \A f \in Fields : account'.text[f] # account.text[f] => f \in r.typed
                /\ account'.role # account.role => "role" \in r.typed]_accountVars
    /\ AccountsSafe /\ [AccountsNext]_accountVars =>
         [\A x \in told' \ told : x.code = "refused" => x.req.seen # account]_accountVars
<1> SUFFICES ASSUME AccountsSafe, [AccountsNext]_accountVars
             PROVE  /\ \A r \in asked \ asked' :
                         r.op = "patch" /\ account' # account /\ ~r.reread =>
                             /\ \A f \in Fields : account'.text[f] # account.text[f] => f \in r.typed
                             /\ account'.role # account.role => "role" \in r.typed
                    /\ \A x \in told' \ told : x.code = "refused" => x.req.seen # account
  OBVIOUS
<1>1. CASE \E r \in asked : Serve(r)
  <2>1. PICK r \in asked : Serve(r)
    BY <1>1
  <2>2. asked' = asked \ {r} /\ told' = told \cup {[req |-> r, code |-> IF Refusals(r) THEN "refused" ELSE "ok"]}
    BY <2>1 DEF Serve
  <2>3. \A x \in told' \ told : x.code = "refused" => x.req.seen # account
    BY <2>2, FairIsServed
  <2>4. QED
    BY <2>1, <2>2, <2>3, WritesTouched
<1>2. CASE Broken
  BY <1>2 DEF Broken
<1>3. ASSUME NEW op, NEW b, NEW seen, Sends(op, b, seen)
      PROVE  asked \subseteq asked' /\ told' = told
  BY <1>3 DEF Sends
<1>4. CASE PressCreate \/ PressUpdate \/ PressLink \/ Confirm
  BY <1>3, <1>4 DEF PressCreate, PressUpdate, PressLink, Confirm, Draws, World
<1>5. CASE \E x \in told : Hear(x)
  BY <1>5 DEF Hear
<1>6. CASE \/ ReadList \/ ReadFacets \/ ReadDetail \/ OpenNew \/ OpenSheet \/ CloseSheet \/ OpenDialog \/ CloseDialog
           \/ \E f \in Fields, v \in Texts : TypeField(f, v)
           \/ \E role \in {"EMPLOYEE", "ADMIN"} : PickRole(role)
  BY <1>6 DEF ReadList, ReadFacets, ReadDetail, OpenNew, OpenSheet, CloseSheet, OpenDialog, CloseDialog, OpensDialog,
              TypeField, PickRole, Draws, World
<1>7. CASE \/ \E f \in Fields, v \in Texts : Rewritten(f, v)
           \/ Promoted \/ Disabled \/ Enabled \/ Accepted \/ Entered \/ Booked \/ Hired
  BY <1>7 DEF Rewritten, Promoted, Disabled, Enabled, Accepted, Entered, Booked, Hired, Becomes
<1>8. CASE UNCHANGED accountVars
  BY <1>8 DEF accountVars
<1>9. QED
  BY <1>1, <1>2, <1>4, <1>5, <1>6, <1>7, <1>8 DEF AccountsNext

----------------------------------------------------------------------------
(* The application *)

\* One part moves at a time, and a step of the application is one of that part.
LEMMA OnePart ==
    /\ AdminInit => ConsoleInit /\ Init /\ AccountsInit
    /\ [AdminNext]_<<consoleVars, vars, accountVars, route>> =>
         [ConsoleNext]_consoleVars /\ [Next]_vars /\ [AccountsNext]_accountVars
BY DEF AdminInit, AdminNext

\* A behaviour of the application is one of the settings and one of the console.
LEMMA PartsOfAdmin == AdminSpec => Spec /\ ConsoleSpec
BY OnePart, PTL DEF AdminSpec, Spec, ConsoleSpec

LEMMA AccountsInvariant == AdminSpec => []AccountsSafe
BY OnePart, AccountsInitSafe, AccountsNextSafe, PTL DEF AdminSpec

\* The variables of all three parts keep their types, for any number of pages, years, loads, files,
\* features, fields and requests.
THEOREM AdminTypes == AdminSpec => [](TypeOK /\ ConsoleTypes /\ AccountTypes)
<1>1. (Inv => TypeOK) /\ (ConsoleSafe => ConsoleTypes) /\ (AccountsSafe => AccountTypes)
  BY DEF Inv, ConsoleSafe, AccountsSafe
<1>2. QED
  BY <1>1, PartsOfAdmin, SettingsInvariant, ConsoleInvariant, AccountsInvariant, PTL

\* A room form says "saved" of what the server stored, its PATCH and the PUT behind it both, unless
\* the features were those the tab had read last and no PUT was due: for any files, features and
\* number of requests, and however old the row is that the form was mounted on (room-form.tsx).
THEOREM SavedIsStored == AdminSpec => []SavedWasStored
<1>1. ConsoleSafe => SavedWasStored
  BY DEF ConsoleSafe
<1>2. QED
  BY <1>1, PartsOfAdmin, ConsoleInvariant, PTL

\* No save of a policy comes between another's comparison of the ETag and its commit.
THEOREM SavesOverMatched == AdminSpec => OverTheMatchedDocument
BY PartsOfAdmin, PolicySaves, PTL

\* What the cache serves was in force within CACHE_MS and the time of one read (loadSettings).
THEOREM CacheHeals == AdminSpec => []StaleNoLongerThan
BY PartsOfAdmin, CacheBounded, PTL

\* A saved form leaves what the administrator did not touch as others left it, unless it saw the
\* account change under it (user-sheet.tsx, "only what actually moved").
THEOREM UntouchedSurvive == AdminSpec => OthersFieldsSurvive
BY OnePart, AccountsInvariant, AccountsActs, PTL DEF AdminSpec, OthersFieldsSurvive

\* The server refuses nothing the page offers on an account that did not change since it was read
\* (lib/users.ts and the checks of modules/users/service.ts agree).
THEOREM OffersAreServed == AdminSpec => OfferedIsServed
BY OnePart, AccountsInvariant, AccountsActs, PTL DEF AdminSpec, OfferedIsServed
=============================================================================
