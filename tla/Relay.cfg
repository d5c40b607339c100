SPECIFICATION Spec
CONSTANTS
    Conns = {c1}
    Cap = 1
    MaxUp = 2
    MaxDown = 2
    RelayCert = cert
    site = site
    literal = literal
    colon = colon
    boxed = boxed
    pub1 = pub1
    pub2 = pub2
    priv = priv
    token = token
    other = other
    None = None
    RelayToken = token
    Bearers = {token, other, None}
    AllowedPorts = {443}
    AllowPrivate = FALSE
    Hosts <- MCHosts
    Form <- MCForm
    Inner <- MCInner
    Ports <- MCPorts
    Addrs <- MCAddrs
    Public <- MCPublic
    Answers <- MCAnswers
    ClientHeads <- MCClientHeads
INVARIANTS TypeOK DownGrammar UpIntegrity CleanEnd Egress StatusTruth PayloadOnly
PROPERTIES Settles Forwards TruncationEnds
CHECK_DEADLOCK FALSE
