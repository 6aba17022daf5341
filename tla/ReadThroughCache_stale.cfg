SPECIFICATION Spec
CONSTANTS
    Cameras = {c1}
    Requests = {p1, p2}
    MaxWrites = 3
    Troubles <- OnlyOverlap
    Config = Config
    List = List
    TuyaTask = TuyaTask
    NoOne = NoOne
    NoRow = NoRow
    NoKey = NoKey
    Absent = Absent
    Nothing = Nothing
INVARIANT ReadsAreFresh
