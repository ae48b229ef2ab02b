\* No failure, no restart, no change of capacity; only confirmed reservations
\* are cancelled, each at most once.
SPECIFICATION FairSpec
CONSTANTS
    r1 = r1  r2 = r2  r3 = r3  c1 = c1  c2 = c2
    NoKey = NoKey
    Request = {r1, r2, r3}
    KeyOf <- Keys
    Canceller = {c1, c2}
    TargetOf <- OneCancelEach
    CancelFrom = {"CONFIRMED"}
    Boot = {}
    Update = {}
    b1 = b1  u1 = u1
    Capacity = 2
    NewCapacity = {}
    LargestCapacity = 2
    MaxAttempts = 3
    MaxStalls = 1
    Concurrency = 2
    Fault = {}
    MaxFaults = 0
INVARIANTS CountMatchesBooked NoSeatLost
PROPERTIES HeldIsSettled ImplementsLedger
CHECK_DEADLOCK FALSE
