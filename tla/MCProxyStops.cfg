CONSTANTS
    StopHandlers = {s1, s2}
    MessageHandlers = {h1}
    Externals = {e1, e2}
    Messages = {}
    Pieces = 2
    MaxStarts = 1
    Restart = FALSE
    StopDuringStart = FALSE
    Versions <- MCVersions
    ProtocolMaximum <- MCProtocolMaximum
    MaxPayload <- MCMaxPayload
    ProtocolMagic = magic
    OtherMagic = other

SPECIFICATION FairSpec
INVARIANT StopNotifiesEverySubscriber
SYMMETRY MCSymmetry
