------------------------------ MODULE Console ------------------------------
(***************************************************************************)
(* One tab of the administrators' application (apps/admin) and what its    *)
(* requests do, over a network that may delay or drop a request or its     *)
(* answer: the room form, whose one press of Save is a PATCH and a PUT;    *)
(* the import dialog, whose first press checks a file and whose second     *)
(* commits it; and the deactivation dialog with its list of bookings.      *)
(* The transactions behind the requests are Identity's and Settings's      *)
(* business; here each is one step of the server.  The advisory reads of   *)
(* future bookings decide what a dialog shows and whether the room form    *)
(* asks; what they say is left open, also from one press to the next.      *)
(***************************************************************************)
EXTENDS Integers, FiniteSets

CONSTANTS
    Files,         \* CSV files the administrator may choose
    Details,       \* what name, capacity, floor, location and description may say
    FirstDetails,
    Features,      \* the feature catalogue
    MaxClicks, MaxElsewhere   \* bounds: requests of the tab, acts of other people

ASSUME ConsoleAssumption ==
    FirstDetails \in Details /\ MaxClicks \in Nat /\ MaxElsewhere \in Nat

NoFile == "no file"
NoRun == [file |-> NoFile, dry |-> TRUE]

VARIABLES
    room,       \* the rooms row and its features: [details, active, features]
    query,      \* the row the tab's room query has cached
    disabled,   \* whether the user to be deactivated is
    line,       \* requests the server has not seen
    back,       \* answers on their way to requests the screen still waits for
    screen,     \* what the tab shows
    clicks, elsewhere,    \* counters of the bounds
    kept,       \* history: what either half of the room has held since the screen opened or Save was pressed
    ran         \* history: files imported for real, and files whose dry run was shown
consoleVars == <<room, query, disabled, line, back, screen, clicks, elsewhere, kept, ran>>

----------------------------------------------------------------------------
(* Screens *)

\* The two halves a room is written in.
FieldsPart(r) == <<"fields", r.details, r.active>>
ChipsPart(r) == <<"features", r.features>>
Parts(r) == {FieldsPart(r), ChipsPart(r)}

NoRow == [details |-> "unsaved", active |-> FALSE, features |-> {}]
FirstRoom == [details |-> FirstDetails, active |-> TRUE, features |-> {}]
\* What a press of Save asks for: the form's draft, and the features the query had cached then.
Unsaved == [draft |-> NoRow, base |-> {}]
\* awaits are the requests the screen waits for; confirm the question a dialog asks, which the
\* advisory read of bookings makes "ready"; draft the form's fields, saved the press of Save the
\* form says it carried out.
Screen(at, r) ==
    [at |-> at, awaits |-> {}, confirm |-> IF at = "deactivate" THEN "reading" ELSE "none",
     draft |-> r, saved |-> Unsaved,
     file |-> NoFile, preview |-> NoRun, result |-> NoRun]
Menu == Screen("menu", FirstRoom)

ConsoleInit ==
    /\ room = FirstRoom /\ query = room
    /\ disabled = FALSE /\ line = {} /\ back = {} /\ screen = Menu
    /\ clicks = 0 /\ elsewhere = 0
    /\ kept = Parts(room) /\ ran = [really |-> {}, shown |-> {}]

Shows(s) == screen' = s /\ UNCHANGED <<room, query, disabled, line, clicks, elsewhere>>
Moves(s) == Shows(s) /\ UNCHANGED <<back, kept, ran>>
Opens(s) == Shows(s) /\ back' = {} /\ kept' = Parts(room) /\ UNCHANGED ran

Awaits(ops) == \E r \in screen.awaits : r.op \in ops
Ask(r, s) ==
    /\ clicks < MaxClicks /\ clicks' = clicks + 1
    /\ line' = line \cup {r}
    /\ screen' = [s EXCEPT !.awaits = @ \cup {r}]
    /\ UNCHANGED <<room, query, disabled, elsewhere, ran>>
Call(op, body) == [n |-> clicks + 1, op |-> op, body |-> body]

\* The loader asks for the room only if the query has none cached (ensureQueryData), so the form
\* mounts its fields on a row that may be minutes old.
OpenRoom == screen.at = "menu" /\ Opens(Screen("room", query))
OpenImport == screen.at = "menu" /\ Opens(Screen("import", FirstRoom))
OpenDeactivate == screen.at = "menu" /\ ~disabled /\ Opens(Screen("deactivate", FirstRoom))
\* Closing resets the dialog and its mutations: their answers are not heard any more.
Close == screen.at # "menu" /\ Opens(Menu)

\* The read of future bookings has come, or has failed: either way the question may be answered.
Impact == screen.confirm = "reading" /\ Moves([screen EXCEPT !.confirm = "ready"])

----------------------------------------------------------------------------
(* The room form *)

\* The question is modal.
Editing == screen.at = "room" /\ screen.confirm = "none"
TypeDetails(d) == Editing /\ d # screen.draft.details /\ Moves([screen EXCEPT !.draft.details = d])
Chip(f) ==
    /\ Editing
    /\ Moves([screen EXCEPT !.draft.features = IF f \in @ THEN @ \ {f} ELSE @ \cup {f}])

\* A room is closed at once if the read said that nothing is booked, and after a question otherwise.
Toggle ==
    /\ Editing
    /\ \/ Moves([screen EXCEPT !.draft.active = ~@])
       \/ screen.draft.active /\ Moves([screen EXCEPT !.confirm = "reading"])
ConfirmClosing ==
    /\ screen.at = "room" /\ screen.confirm = "ready"
    /\ Moves([screen EXCEPT !.confirm = "none", !.draft.active = FALSE])
KeepOpen == screen.at = "room" /\ screen.confirm # "none" /\ Moves([screen EXCEPT !.confirm = "none"])

FeaturesChanged(body) == body.draft.features # body.base
\* One press of Save: the PATCH carries every field, the features go with it in the form's
\* closure and follow in a PUT of their own if they differ from the cached row's.
PressSave ==
    /\ Editing /\ ~Awaits({"patch", "put"})
    /\ Ask(Call("patch", [draft |-> screen.draft, base |-> query.features]),
           [screen EXCEPT !.saved = Unsaved])
    /\ kept' = Parts(room) /\ UNCHANGED back

----------------------------------------------------------------------------
(* The import and deactivation dialogs *)

\* The file input is there as long as neither a preview nor a result is.
ChooseFile(f) ==
    /\ screen.at = "import" /\ screen.preview = NoRun /\ screen.result = NoRun
    /\ Moves([screen EXCEPT !.file = f])
PressRun ==
    /\ screen.at = "import" /\ screen.file # NoFile /\ screen.result = NoRun /\ ~Awaits({"import"})
    /\ Ask(Call("import", [file |-> screen.file, dry |-> screen.preview = NoRun]), screen)
    /\ UNCHANGED <<kept, back>>
BackToFile ==
    /\ screen.at = "import" /\ screen.preview # NoRun /\ screen.result = NoRun
    /\ Moves([screen EXCEPT !.preview = NoRun])

PressDeactivate ==
    /\ screen.at = "deactivate" /\ screen.confirm = "ready" /\ ~Awaits({"deactivate"})
    /\ Ask(Call("deactivate", [reason |-> ""]), screen)
    /\ UNCHANGED <<kept, back>>

----------------------------------------------------------------------------
(* The server *)

Answer(r, code) ==
    /\ line' = line \ {r}
    /\ back' = IF r \in screen.awaits THEN back \cup {[req |-> r, code |-> code]} ELSE back
    /\ UNCHANGED <<query, screen, clicks, elsewhere>>

Stores(r) == room' = r /\ kept' = kept \cup Parts(r)
\* Each PUT and PATCH overwrites what it names; neither carries a version.
StorePatch(r) ==
    /\ r.op = "patch" /\ Answer(r, "ok")
    /\ Stores([r.body.draft EXCEPT !.features = room.features])
    /\ UNCHANGED <<disabled, ran>>
StoreFeatures(r) ==
    /\ r.op = "put" /\ Answer(r, "ok")
    /\ Stores([room EXCEPT !.features = r.body.draft.features])
    /\ UNCHANGED <<disabled, ran>>
\* A dry run writes nothing.
RunImport(r) ==
    /\ r.op = "import" /\ Answer(r, "ok")
    /\ ran' = IF r.body.dry THEN ran ELSE [ran EXCEPT !.really = @ \cup {r.body.file}]
    /\ UNCHANGED <<room, disabled, kept>>
\* The cascade over the user's bookings is BookingTx's.
RunDeactivate(r) ==
    /\ r.op = "deactivate" /\ ~disabled /\ Answer(r, "ok")
    /\ disabled' = TRUE
    /\ UNCHANGED <<room, kept, ran>>
\* Refused, or broken down whole.
Refuse(r) == Answer(r, "refused") /\ UNCHANGED <<room, disabled, kept, ran>>

Serves(r) == StorePatch(r) \/ StoreFeatures(r) \/ RunImport(r) \/ RunDeactivate(r) \/ Refuse(r)

----------------------------------------------------------------------------
(* Answers *)

Told(x) == [screen EXCEPT !.awaits = @ \ {x.req}]
Heed(x, s) == Shows(s) /\ back' = {y \in back : y.req # x.req}

\* Deviation: the form calls itself saved while the features are on their way.
SavedAtOnce(x) == TRUE
\* The PATCH is stored: the form is saved if nothing else is to go, and the PUT goes otherwise.
SavedByPatch(x) == ~FeaturesChanged(x.req.body)
PatchStored(x) ==
    LET put == [x.req EXCEPT !.n = -x.req.n, !.op = "put"]
        features == IF FeaturesChanged(x.req.body) THEN {put} ELSE {}
        heard == Told(x)
    IN  /\ x.req.op = "patch" /\ x.code = "ok"
        /\ screen' = [heard EXCEPT !.saved = IF SavedByPatch(x) THEN x.req.body ELSE @,
                                  !.awaits = @ \cup features]
        /\ line' = line \cup features /\ back' = {y \in back : y.req # x.req}
        /\ UNCHANGED <<room, query, disabled, clicks, elsewhere, kept, ran>>
FeaturesStored(x) ==
    /\ x.req.op = "put" /\ x.code = "ok"
    /\ Heed(x, [Told(x) EXCEPT !.saved = x.req.body]) /\ UNCHANGED <<kept, ran>>
\* Whether an answer is a preview was settled when the request was made.
Dry(x) == x.req.body.dry
ImportAnswered(x) ==
    /\ x.req.op = "import" /\ x.code = "ok"
    /\ IF Dry(x)
       THEN /\ Heed(x, [Told(x) EXCEPT !.preview = x.req.body])
            /\ ran' = [ran EXCEPT !.shown = @ \cup {x.req.body.file}]
       ELSE Heed(x, [Told(x) EXCEPT !.result = x.req.body]) /\ UNCHANGED ran
    /\ UNCHANGED kept
DeactivateAnswered(x) ==
    x.req.op = "deactivate" /\ x.code = "ok" /\ Opens(Menu)
RefusalShown(x) == x.code = "refused" /\ Heed(x, Told(x)) /\ UNCHANGED <<kept, ran>>
\* The connection breaks before or after the server has seen the request.
Snap(r) ==
    /\ back' = {x \in back : x.req # r}
    /\ Shows([screen EXCEPT !.awaits = @ \ {r}]) /\ UNCHANGED <<kept, ran>>

Hears(x) ==
    \/ PatchStored(x) \/ FeaturesStored(x) \/ ImportAnswered(x) \/ DeactivateAnswered(x)
    \/ RefusalShown(x)

\* The room is read: for the loader, or because the form is open on an invalidated or stale row.
\* The draft is useState's and stays.  An answer overtaken on its way is one of an earlier read.
ReadRoom ==
    /\ screen.at \in {"menu", "room"} /\ query # room /\ query' = room
    /\ UNCHANGED <<room, disabled, line, back, screen, clicks, elsewhere, kept, ran>>

----------------------------------------------------------------------------
(* Everybody else *)

ByOthers ==
    /\ elsewhere < MaxElsewhere /\ elsewhere' = elsewhere + 1
    /\ UNCHANGED <<query, disabled, line, back, screen, clicks, ran>>
AnotherEdits(d) == ByOthers /\ d # room.details /\ Stores([room EXCEPT !.details = d])
AnotherChip(f) == ByOthers /\ room.features # {f} /\ Stores([room EXCEPT !.features = {f}])

----------------------------------------------------------------------------
ConsoleNext ==
    \/ OpenRoom \/ OpenImport \/ OpenDeactivate \/ Close
    \/ Impact \/ Toggle \/ ConfirmClosing \/ KeepOpen \/ PressSave \/ ReadRoom
    \/ PressRun \/ BackToFile \/ PressDeactivate
    \/ \E d \in Details : TypeDetails(d) \/ AnotherEdits(d)
    \/ \E f \in Features : Chip(f) \/ AnotherChip(f)
    \/ \E f \in Files : ChooseFile(f)
    \/ \E r \in line : Serves(r)
    \/ \E x \in back : Hears(x)
    \/ \E r \in screen.awaits : Snap(r)

ConsoleSpec == ConsoleInit /\ [][ConsoleNext]_consoleVars

----------------------------------------------------------------------------
(* Properties *)

\* When the form says it saved, the room has held, since Save was pressed, the fields it was
\* asked to hold, and its features as well unless they were those the tab had read last: the two
\* requests are not atomic and either may fail, and what the tab has read may be long overtaken.
SavedWasStored ==
    LET press == screen.saved
    IN  press # Unsaved =>
            /\ FieldsPart(press.draft) \in kept
            /\ press.draft.features = press.base \/ ChipsPart(press.draft) \in kept

----------------------------------------------------------------------------
(* What comments and documents say and the code does otherwise *)

\* csv-import-dialog.tsx: "the dry run is mandatory: there is no path from the file picker
\* straight to a commit".  The picker stays enabled while a dry run is on its way.
RealRunWasPreviewed == ran.really \subseteq ran.shown

=============================================================================
