SPECIFICATION Spec
CONSTANTS
    Conns = {c1}
    Cap = 1
    MaxUp = 2
    MaxDown = 2
    site = site
    v6 = v6
    bad = bad
    strange = strange
    token = token
    goodCert = goodCert
    badCert = badCert
    None = None
    ClientToken = token
    Certs = {goodCert, badCert}
    Trusted = {goodCert}
    Insecure = FALSE
    Hosts <- MCHosts
    Form <- MCForm
    Inner <- MCInner
    Ports = {0, 443}
    Asks <- MCAsks
INVARIANTS TypeOK ReplyGrammar UpIntegrity NoLeak TokenGuarded AskedForIt ReplyTruth
PROPERTIES Settles
CHECK_DEADLOCK FALSE
