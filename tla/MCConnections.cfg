CONSTANTS
    Channels = {"c1", "c2", "c3"}
    Authority <- MCAuthority
    Nonce <- MCNonce
    RegStoppers = {t1, t2}

SPECIFICATION Spec
INVARIANT Unique
INVARIANT StopsEachChannelOnce
PROPERTY RefinesAbstract
