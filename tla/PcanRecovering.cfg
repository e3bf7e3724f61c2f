\* One owner, and the receive thread and its callback use the channel.
CONSTANTS
    App = {o}
    Rx = {r}
    Owners = {o}
    Users = {r}
    NoThread = NoThread
    Handles = {usb1, usb2}
    Configs <- OneChannel
    MaxAttempts = 3
    Asserts = TRUE
    o = o
    r = r
    usb1 = usb1
    usb2 = usb2
SPECIFICATION FairSpec
INVARIANTS ShutIsQuiet InitializedIsTrue OpenMeansReading
PROPERTIES StopEnds HealthRecovers
