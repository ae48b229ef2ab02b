SPECIFICATION FairSpec
CONSTANTS
    ann = ann  bob = bob  eve = eve
    User = {ann, bob}
    Tab = {ann, bob}
    UserOf <- OwnTab
    Attentive = {ann}
    Returning = {ann}
    BatchSize = 1
    MaxEnters = 3
    MaxCrashes = 0
PROPERTY PlaceKept
CHECK_DEADLOCK FALSE
