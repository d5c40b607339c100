SPECIFICATION Spec
CONSTANTS
    Savers = {p1, p2}
    Loaders = {r1}
    Forced = {}
    Pids = {i1, i2}
    Pid <- MCPid
    None = None
    p1 = p1
    p2 = p2
    p3 = p3
    i1 = i1
    i2 = i2
INVARIANTS ReplacedOnlyByForce
CHECK_DEADLOCK FALSE
