\* Three record segments and one crash.
SPECIFICATION Spec
CONSTANTS
    N = 4
    Capacity = 10
    MaxObj = 6
    MaxCrashes = 1
INVARIANT
    LiveDataIntact
