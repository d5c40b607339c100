SPECIFICATION Spec
CONSTANTS
    Conns = {c1, c2}
    Cap = 1
    MaxUp = 0
    MaxDown = 0
    RelayCert = cert
    site = site
    literal = literal
    colon = colon
    boxed = boxed
    pub1 = pub1
    pub2 = pub2
    priv = priv
    token = token
    other = other
    None = None
    RelayToken = token
    Bearers = {token, other, None}
    AllowedPorts = {443}
    AllowPrivate = TRUE
    Hosts <- MCHosts
    Form <- MCForm
    Inner <- MCInner
    Ports <- MCPorts
    Addrs <- MCAddrs
    Public <- MCPublic
    Answers <- MCPrivateAnswer
    ClientHeads <- MCGoodHead
INVARIANTS NoLeak
SYMMETRY Pair
CHECK_DEADLOCK FALSE
