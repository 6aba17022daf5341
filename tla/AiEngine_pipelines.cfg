SPECIFICATION FairSpec
CONSTANTS
    Cameras = {c1, c2}
    Starts = {s1, s2}
    MaxFrames = 1
    MaxTracks = 2
    Speeds <- Both
    NoPipeline = NoPipeline
    NoCamera = NoCamera
INVARIANTS TypeOK OnePipeline EndedIsReleased
PROPERTIES ImplementsFeed StopsGoThrough
