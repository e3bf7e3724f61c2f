\* One application thread; Serial on its own is small enough for TLC.
CONSTANTS
    App = {"o"}
    Rx = {"r"}
    NoThread = "none"
    Configs <- Config
SPECIFICATION FairSpec
PROPERTIES OpenReturns
CHECK_DEADLOCK FALSE
