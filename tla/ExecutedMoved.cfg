SPECIFICATION MCSpec
CONSTANTS
    Ops = {o1}
    Events = {m1}
    wide = wide
    narrow = narrow
    Policies = {wide, narrow}
    Freeze <- MCFreeze
    Firm <- MCFirm
    Interval <- MCInterval
    Requests = {q1, q2}
    Runs = {s1, s2, s3}
    MaxTime = 1
    MaxSignals = 2
    MaxRevisions = 2
    None = None
    Orders = {1}
    Keys = {1, 2}
    Types = {"LATE_PURCHASE_ORDER", "MATERIAL_SHORTAGE"}
    Refreshes = {"r1"}
    Planners = {"p1", "p2"}
    Values <- MCRange
    HoursPerTick = 30
    LastTime = 3
    Stocked = {"a"}
    PolicyVersions = {1, 2}
    PolicyRuns = {"r1", "r2"}
    SafetyStock = 1
    MinHistory = 5
    OrderCycle = 2
    Histories <- MCHistories
    LastDate = 1
SYMMETRY Symmetry
CHECK_DEADLOCK FALSE
PROPERTIES
    ExecutedNeverMoved
