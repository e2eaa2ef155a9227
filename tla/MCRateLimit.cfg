\* Four keys, room for two, windows of three ticks.
SPECIFICATION Spec
CONSTANTS
    u1 = u1
    u2 = u2
    Scopes <- MCScopes
    Users <- MCUsers
    Limit <- MCLimit
    Window = 3
    Capacity = 2
    MaxTime = 7
    MaxCount = 3
SYMMETRY Symmetry
INVARIANTS TypeOK CapacityBound SlidingBound BlockedJustified UntrackedJustified
PROPERTIES ActiveNeverEvicted ImplementsWindows
