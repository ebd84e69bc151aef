------------------------------ MODULE Settings ------------------------------
(***************************************************************************)
(* The settings document (settings, business_hours, holidays): the three   *)
(* PUTs of modules/settings/admin.ts, the reads behind GET /settings, the  *)
(* process's 60 s cache of lib/settings.ts, and the settings page of the   *)
(* admin application, which sends up to four PUTs for one press of Save.   *)
(* A section is one value: what a section says matters only to tell edits  *)
(* apart, and Invalid values are the ones the request schemas refuse.      *)
(***************************************************************************)
EXTENDS Integers, FiniteSets

CONSTANTS
    Pages,      \* settings pages, open in the browsers of administrators
    Loads,      \* requests and sweep rounds that call loadSettings
    Years,      \* this year and the next, each a section of its own
    Values, Invalid, First,   \* what a section may say, what no PUT accepts, the seed
    CacheFor,   \* CACHE_MS, in ticks
    ReadFor,    \* longest time from the SELECT of loadSettings to its cache.set, in ticks
    MaxSaves, MaxEdits, MaxFetches   \* bounds: presses of Save, changes of a field, refetches on focus

None == "none"

ASSUME SettingsAssumption ==
    /\ None \notin Pages /\ First \in Values /\ Invalid \subseteq Values /\ First \notin Invalid
    /\ CacheFor \in Nat \ {0} /\ ReadFor \in Nat /\ MaxSaves \in Nat /\ MaxEdits \in Nat /\ MaxFetches \in Nat

Policy == "settings"
Hours == "business_hours"
Sections == {Policy, Hours} \cup Years
Document == [Sections -> Values]

VARIABLES
    doc,      \* the committed rows of the three tables
    lock,     \* holder of pg_advisory_xact_lock('settings')
    form,     \* SettingsForm of each page: the fetched document, the draft, the banner
    fetch,    \* GET /settings under way for a page: the sections read so far
    save,     \* useSaveSettings of each page
    saves,    \* presses of Save so far
    edits, fetches,   \* changes of a field and refetches on focus so far
    cache,    \* lib/settings.ts cache
    loads     \* loadSettings calls under way; stale is a history: ticks since the value last was committed

vars == <<doc, lock, form, fetch, save, saves, edits, fetches, cache, loads>>

Blank == [s \in Sections |-> First]
NoFetch == [on |-> FALSE, left |-> {}, got |-> Blank, remount |-> FALSE]
NewFetch(remount) == [on |-> TRUE, left |-> Sections, got |-> Blank, remount |-> remount]
NoSave == [pc |-> "idle", section |-> Policy, left |-> {}, etag |-> Blank, body |-> Blank]
Entry == [on : BOOLEAN, value : Values, age : Nat, stale : Nat]
NoLoad == [on |-> FALSE, value |-> First, age |-> 0, stale |-> 0]

Init ==
    /\ doc = Blank /\ lock = None
    /\ form = [p \in Pages |-> [doc |-> Blank, draft |-> Blank, outcome |-> None]]
    /\ fetch = [p \in Pages |-> NoFetch] /\ save = [p \in Pages |-> NoSave] /\ saves = 0 /\ edits = 0 /\ fetches = 0
    /\ cache = NoLoad /\ loads = [l \in Loads |-> NoLoad]

(***************************************************************************)
(* GET /settings: readSettingsDocument outside a transaction, one SELECT   *)
(* for the policy, one for the hours, one for the holidays of both years.  *)
(***************************************************************************)
OnServer == <<doc, lock>>
InProcess == <<cache, loads>>

\* react-query refetches a stale document when the window regains focus.
Refetch(p) ==
    /\ ~fetch[p].on /\ fetches < MaxFetches /\ fetches' = fetches + 1
    /\ fetch' = [fetch EXCEPT ![p] = NewFetch(FALSE)]
    /\ UNCHANGED <<OnServer, form, save, saves, edits, InProcess>>

\* The button of the conflict alert: refetch anew, then remount the form.
Reload(p) ==
    /\ form[p].outcome = "conflict"
    /\ form' = [form EXCEPT ![p].outcome = None]
    /\ fetch' = [fetch EXCEPT ![p] = NewFetch(TRUE)]
    /\ UNCHANGED <<OnServer, save, saves, edits, fetches, InProcess>>

\* The tables in the order of the SELECTs.
Selects(left) ==
    IF Policy \in left THEN {Policy} ELSE IF Hours \in left THEN {Hours} ELSE left
Select(p) ==
    /\ fetch[p].on /\ fetch[p].left # {}
    /\ LET now == Selects(fetch[p].left) IN
         fetch' = [fetch EXCEPT ![p].left = fetch[p].left \ now,
                                ![p].got = [s \in Sections |-> IF s \in now THEN doc[s] ELSE fetch[p].got[s]]]
    /\ UNCHANGED <<OnServer, form, save, saves, edits, fetches, InProcess>>

\* The document reaches the page.  The fields were initialised when the form was mounted and
\* keep what they show, unless the page asked for a remount.
Deliver(p) ==
    /\ fetch[p].on /\ fetch[p].left = {}
    /\ form' = [form EXCEPT ![p].doc = fetch[p].got,
                            ![p].draft = IF fetch[p].remount THEN fetch[p].got ELSE form[p].draft]
    /\ fetch' = [fetch EXCEPT ![p] = NoFetch]
    /\ UNCHANGED <<OnServer, save, saves, edits, fetches, InProcess>>

(***************************************************************************)
(* The form and useSaveSettings.                                           *)
(***************************************************************************)
Differs(p) == {s \in Sections : form[p].draft[s] # form[p].doc[s]}

\* Any change of a field clears the banner of the last save.
Edit(p, s, v) ==
    /\ v # form[p].draft[s] /\ edits < MaxEdits
    /\ edits' = edits + 1
    /\ form' = [form EXCEPT ![p].draft[s] = v, ![p].outcome = None]
    /\ UNCHANGED <<OnServer, fetch, save, saves, fetches, InProcess>>

\* The sections the press of Save will send after the policy, over all years.
Changed(p) == Differs(p) \ {Policy}

\* onSave: the etag is the one of the document on the page now; the policy always goes first.
\* (Nobody presses Save on a form that is about to be remounted.)
Press(p) ==
    /\ Differs(p) # {} /\ save[p].pc = "idle" /\ ~fetch[p].remount /\ saves < MaxSaves
    /\ save' = [save EXCEPT ![p] = [NoSave EXCEPT !.pc = "sent", !.left = Changed(p),
                                                  !.etag = form[p].doc, !.body = form[p].draft]]
    /\ saves' = saves + 1
    /\ UNCHANGED <<OnServer, form, fetch, edits, fetches, InProcess>>

\* The mutation resolves: the page shows the outcome and fetches the document anew, whatever
\* the outcome; a fetch under way is superseded.
Settle(p, outcome) ==
    /\ save' = [save EXCEPT ![p] = NoSave]
    /\ form' = [form EXCEPT ![p].outcome = outcome]
    /\ fetch' = [fetch EXCEPT ![p] = NewFetch(fetch[p].remount)]

NextSection(left) == IF Hours \in left THEN Hours ELSE CHOOSE s \in left : TRUE

\* A PUT was answered 200: the next one, or the end.
Answered(p) ==
    /\ save[p].pc = "done"
    /\ IF save[p].left = {}
       THEN Settle(p, "saved")
       ELSE LET s == NextSection(save[p].left) IN
            /\ save' = [save EXCEPT ![p].pc = "sent", ![p].section = s, ![p].left = save[p].left \ {s}]
            /\ UNCHANGED <<form, fetch>>
    /\ UNCHANGED <<OnServer, saves, edits, fetches, InProcess>>

\* A PUT failed on the way: before the server saw it, or its answer was lost.
Lost(p) ==
    /\ save[p].pc \in {"sent", "done"}
    /\ Settle(p, "partial")
    /\ UNCHANGED <<OnServer, saves, edits, fetches, InProcess>>

(***************************************************************************)
(* The three PUTs.                                                         *)
(***************************************************************************)
\* parseBody fails: 400 before any transaction.
Reject(p) ==
    /\ save[p].pc = "sent" /\ save[p].body[save[p].section] \in Invalid
    /\ Settle(p, "partial")
    /\ UNCHANGED <<OnServer, saves, edits, fetches, InProcess>>

\* BEGIN; SETTINGS_LOCK.
TakeLock(p) ==
    /\ save[p].pc = "sent" /\ save[p].body[save[p].section] \notin Invalid /\ lock = None
    /\ save' = [save EXCEPT ![p].pc = "locked"] /\ lock' = p
    /\ UNCHANGED <<doc, form, fetch, saves, edits, fetches, InProcess>>

\* Deviation: the ETag covers the policy keys only.
MatchesPolicy(p) == doc[Policy] = save[p].etag[Policy]
\* settingsEtag(before) = If-Match: a hash of all three tables.
Matches(p) == doc = save[p].etag

\* The transaction reads the document; a policy PUT compares the ETag.
Before(p) ==
    /\ save[p].pc = "locked"
    /\ \/ /\ save[p].section = Policy => Matches(p)
          /\ save' = [save EXCEPT ![p].pc = "read"]
          /\ UNCHANGED <<lock, form, fetch>>
       \/ /\ save[p].section = Policy /\ ~Matches(p)
          /\ Settle(p, "conflict") /\ lock' = IF lock = p THEN None ELSE lock
    /\ UNCHANGED <<doc, saves, edits, fetches, InProcess>>

\* The upserts, COMMIT.
Commit(p) ==
    /\ save[p].pc = "read"
    /\ LET s == save[p].section IN
         /\ doc' = [doc EXCEPT ![s] = save[p].body[s]]
         /\ save' = [save EXCEPT ![p].pc = IF s = Policy THEN "committed" ELSE "done"]
    /\ lock' = IF lock = p THEN None ELSE lock
    /\ UNCHANGED <<form, fetch, saves, edits, fetches, cache, loads>>

\* invalidateSettings, after the commit of a policy PUT.
Invalidate(p) ==
    /\ save[p].pc = "committed"
    /\ cache' = NoLoad
    /\ save' = [save EXCEPT ![p].pc = "done"]
    /\ UNCHANGED <<OnServer, form, fetch, saves, edits, fetches, loads>>

(***************************************************************************)
(* loadSettings.                                                           *)
(***************************************************************************)
\* Deviation: an entry never expires.
FreshForever == cache.on
\* A call within the minute is served from the cache, and changes nothing.
Fresh == cache.on /\ cache.age < CacheFor

\* A miss: the SELECT of the settings table.
Miss(l) ==
    /\ ~loads[l].on /\ ~Fresh
    /\ loads' = [loads EXCEPT ![l] = [on |-> TRUE, value |-> doc[Policy], age |-> 0, stale |-> 0]]
    /\ UNCHANGED <<OnServer, form, fetch, save, saves, edits, fetches, cache>>

\* The rows arrive: cache.set, whether or not the entry was invalidated meanwhile.
Fill(l) ==
    /\ loads[l].on
    /\ cache' = [loads[l] EXCEPT !.age = 0]
    /\ loads' = [loads EXCEPT ![l] = NoLoad]
    /\ UNCHANGED <<OnServer, form, fetch, save, saves, edits, fetches>>

\* A minute passes for an entry of the cache or a read under way.
Older(e) ==
    IF ~e.on THEN e ELSE [e EXCEPT !.age = @ + 1, !.stale = IF e.value = doc[Policy] THEN 0 ELSE @ + 1]
Tick ==
    /\ \A l \in Loads : loads[l].on => loads[l].age < ReadFor
    /\ cache' = IF Fresh THEN Older(cache) ELSE NoLoad
    /\ loads' = [l \in Loads |-> Older(loads[l])]
    /\ UNCHANGED <<OnServer, form, fetch, save, saves, edits, fetches>>

OfPage(p) ==
    \/ Refetch(p) \/ Reload(p) \/ Select(p) \/ Deliver(p)
    \/ \E s \in Sections, v \in Values : Edit(p, s, v)
    \/ Press(p) \/ Answered(p) \/ Lost(p)
    \/ Reject(p) \/ TakeLock(p) \/ Before(p) \/ Commit(p) \/ Invalidate(p)
OfLoad(l) == Miss(l) \/ Fill(l)

Next == (\E p \in Pages : OfPage(p)) \/ (\E l \in Loads : OfLoad(l)) \/ Tick
Spec == Init /\ [][Next]_vars

----------------------------------------------------------------------------
(* Properties *)

FormState  == [doc : Document, draft : Document, outcome : {None, "saved", "partial", "conflict"}]
FetchState == [on : BOOLEAN, left : SUBSET Sections, got : Document, remount : BOOLEAN]
SaveState  == [pc : {"idle", "sent", "locked", "read", "committed", "done"},
               section : Sections, left : SUBSET Sections, etag : Document, body : Document]
\* Every variable keeps its shape.
TypeOK ==
    /\ doc \in Document /\ lock \in Pages \cup {None}
    /\ form \in [Pages -> FormState] /\ fetch \in [Pages -> FetchState] /\ save \in [Pages -> SaveState]
    /\ saves \in Nat /\ edits \in Nat /\ fetches \in Nat
    /\ cache \in Entry /\ loads \in [Loads -> Entry]

\* A policy PUT commits over the very document whose ETag it presented: nobody wrote any of
\* the three tables between the comparison and the commit (admin.ts: SETTINGS_LOCK, If-Match).
OverTheMatchedDocument ==
    [][\A p \in Pages : save[p].pc = "read" /\ save[p].section = Policy /\ save'[p].pc = "committed"
          => doc = save[p].etag]_vars

\* What a request takes from the cache was the committed policy within the last CACHE_MS plus
\* the time one read takes, invalidations that cross a read included (loadSettings).
StaleNoLongerThan == Fresh => cache.stale < CacheFor + ReadFor

=============================================================================
