\* A second file chosen while the first is being checked.
SPECIFICATION ConsoleSpec
CONSTANTS
    f1 = f1  f2 = f2  d1 = d1  d2 = d2  x1 = x1
    Files = {f1, f2}  Details = {d1, d2}  FirstDetails = d1  Features = {x1}
    MaxClicks = 2  MaxElsewhere = 1
CHECK_DEADLOCK FALSE
INVARIANTS RealRunWasPreviewed
