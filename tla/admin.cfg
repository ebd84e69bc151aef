\* Two settings pages and one loader of settings; the room form, the import dialog and the
\* deactivation dialog with two requests, two values of a field, one feature, one file and one act
\* of somebody else; no holiday lists; one request of the users page and one act of somebody else
\* on the account.  A tick is half of the cache's minute.  Users may stop.
SPECIFICATION AdminSpec
CONSTANTS
    p1 = p1  p2 = p2  l1 = l1  f1 = f1  d1 = d1  d2 = d2  x1 = x1
    Pages = {p1, p2}  Loads = {l1}  Years = {}
    Values = {0, 1, 2}  Invalid = {2}  First = 0
    CacheFor = 2  ReadFor = 1  MaxSaves = 2  MaxEdits = 2  MaxFetches = 1
    Files = {f1}  Details = {d1, d2}  FirstDetails = d1  Features = {x1}
    MaxClicks = 2  MaxElsewhere = 1
    Fields = {"name"}  Texts = {0, 1}  FirstText = 0  MaxPresses = 1  MaxActs = 1
SYMMETRY PageSymmetry
VIEW OpenPart
CHECK_DEADLOCK FALSE
INVARIANTS SavedWasStored StaleNoLongerThan
PROPERTIES OverTheMatchedDocument OthersFieldsSurvive OfferedIsServed
