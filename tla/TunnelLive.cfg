SPECIFICATION OneWaySpec
CONSTANTS
    Conns = {c1}
    Cap = 1
    MaxUp = 1
    MaxDown = 1
    site = site
    literal = literal
    boxed = boxed
    pub1 = pub1
    pub2 = pub2
    priv = priv
    token = token
    other = other
    cert = cert
    fake = fake
    None = None
    ClientToken = token
    RelayToken = token
    Bearers <- MCBearers
    Certs = {cert, fake}
    Trusted = {cert}
    Insecure = FALSE
    RelayCert = cert
    AllowedPorts = {443}
    AllowPrivate = FALSE
    Ports = {25, 443}
    Hosts <- MCHosts
    Form <- MCForm
    Inner <- MCInner
    Addrs = {pub1, pub2, priv}
    Public = {pub1, pub2}
    Answers <- MCOneAddress
    Asks <- MCGood
PROPERTIES Arrives FinishedEnds EndTogether
CHECK_DEADLOCK FALSE
