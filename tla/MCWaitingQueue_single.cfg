SPECIFICATION FairSpec
CONSTANTS
    ann = ann  bob = bob  eve = eve
    User = {ann, bob}
    Tab = {ann, bob}
    UserOf <- OwnTab
    Attentive = {ann}
    Returning = {bob}
    BatchSize = 1
    MaxEnters = 3
    MaxCrashes = 1
INVARIANTS TypeOK UncountedAreCrashed
PROPERTIES KnownKeepsPlace AttentiveServed
CHECK_DEADLOCK FALSE
