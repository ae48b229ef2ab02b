SPECIFICATION Spec
CONSTANTS
    ann = ann  bob = bob  eve = eve
    User = {ann, bob}
    Tab = {ann, bob}
    UserOf <- OwnTab
    Attentive = {ann}
    Returning = {bob}
    BatchSize = 1
    MaxEnters = 2
    MaxCrashes = 0
INVARIANT TokensWithinBatch
CHECK_DEADLOCK FALSE
