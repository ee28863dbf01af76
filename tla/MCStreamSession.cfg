CONSTANTS
    long = long
    short = short
    loyal = loyal
    fickle = fickle
    Streams = {long, short}
    Loyal = {loyal}
    Fickle = {fickle}
    Registered <- FickleFirst
    Surfacing = {short}
    MaxNotices <- TwoNotices
    MaxChunks <- OneChunk
    MaxHooks = 2
    Sentinel = Sentinel
SPECIFICATION FairSpec
INVARIANTS
    NoOrphanTask
    LoyalHooksHearAll
PROPERTIES
    StreamsAreChannels
    EveryStreamEnds
