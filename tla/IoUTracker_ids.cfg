SPECIFICATION Spec
CONSTANTS
    Detections <- Scene
    max_age = 1
    MaxDetections = 2
    MaxFrames = 4
INVARIANTS TypeOK OneObjectEach NoEnvy
PROPERTY SameObject
