SPECIFICATION FairSpec
CONSTANTS
    Cameras = {c1}
    Starts = {s1, s2}
    MaxFiles = 3
    Overlaps <- Both
    NoRecorder = NoRecorder
    NoCamera = NoCamera
INVARIANTS TypeOK StoppedIsDead NoLeak NothingSurvivesShutdown
PROPERTIES OldFilesAreReported ImplementsLog
