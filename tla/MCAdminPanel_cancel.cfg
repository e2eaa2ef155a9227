\* One update at a time, nothing fails.
SPECIFICATION Spec
CONSTANTS
    p1 = p1
    p2 = p2
    c1 = c1
    c2 = c2
    s1 = s1
    m1 = m1
    k1 = k1
    k2 = k2
    k3 = k3
    Updates <- MCOneUpdate
    Codes <- MCCodes
    Sources <- MCSources
    Messages <- MCMessages
    Keys <- MCKeys
    Offered <- MCOneOffered
    NoCode = none
    PageSize = 1
    RowidReuse = FALSE
    Faults = FALSE
    MaxTime = 0
    MaxDate = 1
PROPERTIES CancelLeaves
CHECK_DEADLOCK FALSE
SYMMETRY Symmetry
