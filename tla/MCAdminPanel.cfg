\* Two updates at a time, two contents, one message, failures and restarts.
SPECIFICATION Spec
CONSTANTS
    p1 = p1
    p2 = p2
    c1 = c1
    c2 = c2
    s1 = s1
    m1 = m1
    k1 = k1
    k2 = k2
    k3 = k3
    Updates <- MCUpdates
    Codes <- MCCodes
    Sources <- MCSources
    Messages <- MCMessages
    Keys <- MCKeys
    Offered <- MCOffered
    NoCode = none
    PageSize = 1
    RowidReuse = FALSE
    Faults = TRUE
    MaxTime = 0
    MaxDate = 1
INVARIANTS TypeOK
PROPERTIES DaysReachAsked DeletionsConfirmed AnsweredOnce
CHECK_DEADLOCK FALSE
SYMMETRY Symmetry
