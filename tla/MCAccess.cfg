\* Two requests of one user, one content, days that pass, failures; fairness.
SPECIFICATION FairSpec
CONSTANTS
    r1 = r1
    r2 = r2
    u1 = u1
    c1 = c1
    s1 = s1
    Requests <- MCRequests
    Users <- MCUsers
    Codes <- MCCodes
    Malformed = bad
    Sources <- MCSources
    Statuses <- MCStatuses
    RequiredChannel = TRUE
    Faults = TRUE
    MaxTime = 2
    MaxDate = 1
INVARIANTS TypeOK DeliveryPermitted RefusalsJustified PromptKept
PROPERTIES RequestsEnd EligibleServed
CHECK_DEADLOCK FALSE
