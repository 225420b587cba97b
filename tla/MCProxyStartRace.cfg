CONSTANTS
    StopHandlers = {s1}
    MessageHandlers = {h1}
    Externals = {e1}
    Messages = {m1}
    Pieces = 2
    MaxStarts = 2
    Restart = FALSE
    StopDuringStart = TRUE
    Versions <- MCVersions
    ProtocolMaximum <- MCProtocolMaximum
    MaxPayload <- MCMaxPayload
    ProtocolMagic = magic
    OtherMagic = other

SPECIFICATION Spec
INVARIANT StopNotifiesEverySubscriber
