SPECIFICATION Spec
CONSTANTS
    r1 = r1  r2 = r2  r3 = r3  c1 = c1  c2 = c2
    b1 = b1  u1 = u1
    NoKey = NoKey
    Request = {r1, r2, r3}
    KeyOf <- Keys
    Canceller = {c1}
    TargetOf <- OneCancelEach
    CancelFrom = {"CONFIRMED"}
    Boot = {}
    Update = {}
    Capacity = 2
    NewCapacity = {}
    LargestCapacity = 2
    MaxAttempts = 3
    MaxStalls = 1
    Concurrency = 2
    Fault = {}
    MaxFaults = 0
INVARIANT StockIsFreeSeatsAtRest
CHECK_DEADLOCK FALSE
