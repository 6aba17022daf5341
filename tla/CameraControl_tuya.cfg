SPECIFICATION FairSpec
CONSTANTS
    Cameras <- TwoTuya
    Tuya <- TwoTuya
    Settings <- SomeSettings
    Requests = {q1, q2}
    MaxFaults = 1
    NoOne = NoOne
    NoCamera = NoCamera
    Beat = Beat
    tuya1 = tuya1
    tuya2 = tuya2
INVARIANTS TypeOK InSync
PROPERTY TuyaComesBack
