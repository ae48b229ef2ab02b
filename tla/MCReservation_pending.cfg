SPECIFICATION Spec
CONSTANTS
    r1 = r1  r2 = r2  r3 = r3  c1 = c1  c2 = c2
    b1 = b1  u1 = u1
    NoKey = NoKey
    Request = {r1, r3}
    KeyOf <- Keys
    Canceller = {c1}
    TargetOf <- OneCancelEach
    CancelFrom = {"PENDING"}
    Boot = {}
    Update = {}
    Capacity = 1
    NewCapacity = {}
    LargestCapacity = 1
    MaxAttempts = 3
    MaxStalls = 1
    Concurrency = 2
    Fault = {}
    MaxFaults = 0
INVARIANT NoOverbooking
CHECK_DEADLOCK FALSE
