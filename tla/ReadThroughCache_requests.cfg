SPECIFICATION FairSpec
CONSTANTS
    Cameras = {c1}
    Requests = {p1, p2}
    MaxWrites = 3
    Troubles <- Anything
    Config = Config
    List = List
    TuyaTask = TuyaTask
    NoOne = NoOne
    NoRow = NoRow
    NoKey = NoKey
    Absent = Absent
    Nothing = Nothing
INVARIANTS TypeOK OnlyCommitted
PROPERTIES EventuallyFresh ImplementsCopy
