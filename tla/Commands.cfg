\* The client's and the relay's commands.
SPECIFICATION Spec
CONSTANTS
    None = None
    wa = wa
    wb = wb
    short = short
    etc = etc
    home = home
    cafile = cafile
    Words <- MCWords
    Good <- MCGood
    Dirs <- MCDirs
    ConfigDir = etc
    Names <- MCNames
    Relay <- MCRelay
    Listening = {"loopback", "elsewhere"}
    DefaultListen = "loopback"
    CommandLines <- MCCommandLines
    Environments <- MCEnvironments
    Entered <- MCEntered
    Edited <- MCEdited
    StartLines <- MCStartLines
    StartTokens <- MCStartTokens
    Asked <- MCAsked
INVARIANTS InitMeansRuns TokensMeet DialsAsStarted
