SPECIFICATION Spec
CONSTANTS
    Updaters = {u1, u2, u3}
    CheckOnly = {u3}
    MaxRelease = 5
    Reports <- MCReports
    Fits <- MCFits
    None = None
    u1 = u1
    u2 = u2
    u3 = u3
INVARIANTS Authentic ToldTruly StagedOnlyByInstall OlderOnlyWhenOvertaken
PROPERTIES ReplacedAtomically
CHECK_DEADLOCK FALSE
