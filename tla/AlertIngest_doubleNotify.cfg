SPECIFICATION Spec
CONSTANTS
    Ingests = {i1, i2}
    Rules = {r1, r2}
    RuleConfigs <- OneConfig
    Detections <- OneDetection
    MaxTime = 1
    Faults = FALSE
    NoOne = NoOne
    NoRule = NoRule
    NoTime = NoTime
    NoConfig = NoConfig
    NoCamera = NoCamera
    NoDetection = NoDetection
    cam1 = cam1
INVARIANT NotificationSpacing
