SPECIFICATION Spec
CONSTANTS
    Savers = {p1, p2, p3}
    Loaders = {r1}
    Forced = {p1, p3}
    Pids = {i1, i2}
    Pid <- MCPid
    None = None
    p1 = p1
    p2 = p2
    p3 = p3
    i1 = i1
    i2 = i2
INVARIANTS FoundMeansReadable TokenLeftOnlyByFailure OwnFileRenamed
PROPERTIES ReplacedAtomically
CHECK_DEADLOCK FALSE
