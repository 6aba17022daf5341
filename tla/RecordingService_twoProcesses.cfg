SPECIFICATION Spec
CONSTANTS
    Cameras = {c1}
    Starts = {s1, s2}
    MaxFiles = 2
    Overlaps <- Any
    NoRecorder = NoRecorder
    NoCamera = NoCamera
INVARIANT OneProcess
