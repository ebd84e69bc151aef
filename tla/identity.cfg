\* Two administrators, an invited account and a code not yet in use; two requests of any kind,
\* then one afterthought.  The menu is finite, so requests run out.
SPECIFICATION Spec
CONSTANTS
    a1 = a1  a2 = a2  e1 = e1  x = x  q3 = q3
    Users = {a1, a2, e1, x}
    Emails = {"a1", "a2", "e1", "e2", "x"}
    Tokens = {1, 2, 3, 4, 5, 6, 7}
    Requests = {q1, q2, q3}
    Nobody = nobody
    Menu <- EveryMenu
    Seed <- SeedTwo
    Links <- LinksOne
    Limit = 2
SYMMETRY RequestSymmetry
CHECK_DEADLOCK FALSE
INVARIANTS OneAdminStays LinkWorksOnce ImportNeverCollides
PROPERTIES ImportSettles
