SPECIFICATION Spec
CONSTANTS
    Updaters = {u1, u2}
    CheckOnly = {}
    MaxRelease = 5
    Reports <- MCReports
    Fits <- MCFits
    None = None
    u1 = u1
    u2 = u2
    u3 = u3
INVARIANTS NeverOlder
CHECK_DEADLOCK FALSE
