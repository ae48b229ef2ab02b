SPECIFICATION Spec
CONSTANTS
    r1 = r1  r2 = r2  r3 = r3  c1 = c1  c2 = c2
    b1 = b1  u1 = u1
    NoKey = NoKey
    Request = {r1, r2}
    KeyOf <- Keys
    Canceller = {c1, c2}
    TargetOf <- TwiceTheSame
    CancelFrom = {"PENDING", "CONFIRMED"}
    Boot = {}
    Update = {u1}
    Capacity = 2
    NewCapacity = {1}
    LargestCapacity = 2
    MaxAttempts = 2
    MaxStalls = 1
    Concurrency = 2
    Fault = {"cache"}
    MaxFaults = 1
INVARIANTS TypeOK NoDoubleBooking UndercountBounded CancellationStands
CHECK_DEADLOCK FALSE
