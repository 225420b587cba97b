CONSTANTS
    Channels = {"c1", "c2", "c3"}
    Authority <- MCAuthority
    Nonce <- MCNonce
    RegStoppers = {t1, t2}

SPECIFICATION FairSpec
INVARIANT NoStaleMember
PROPERTY RegistryDrains
