SPECIFICATION FairSpec
CONSTANTS
    MaxResponses = 4
    MaxChunks = 3
INVARIANT PeerSeesPrefix
PROPERTY Drained
