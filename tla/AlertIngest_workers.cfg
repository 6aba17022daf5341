SPECIFICATION FairSpec
CONSTANTS
    Ingests = {i1, i2}
    Rules = {r1, r2}
    RuleConfigs <- SomeConfigs
    Detections <- OneDetection
    MaxTime = 2
    Faults = TRUE
    NoOne = NoOne
    NoRule = NoRule
    NoTime = NoTime
    NoConfig = NoConfig
    NoCamera = NoCamera
    NoDetection = NoDetection
    cam1 = cam1
INVARIANTS TypeOK CooldownSpacing NoOrphanEvents NotifiedIsRecorded
PROPERTIES ImplementsGate IngestFinishes
