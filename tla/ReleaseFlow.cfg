\* Two tags released side by side, by runs that fail and are run again.
SPECIFICATION ReleaseSpec
CONSTANTS
    None = None
    v1 = v1
    v2 = v2
    Tags <- MCTags
    Kinds = {"archive", "manifest"}
    MaxRuns = 5
SYMMETRY TagsAlike
CHECK_DEADLOCK FALSE
INVARIANTS TapServes PublishedWhole
