\* Two tasks, two codes, ids never given twice, failing statements.
SPECIFICATION Spec
CONSTANTS
    t1 = t1
    t2 = t2
    c1 = c1
    c2 = c2
    s1 = s1
    s2 = s2
    bad = bad
    Tasks <- MCTasks
    Codes <- MCCodes
    Malformed = bad
    Sources <- MCOneSource
    DayInputs <- MCOneDay
    MaxAttempts = 1
    RowidReuse = FALSE
    DbFaults = TRUE
    MaxId = 3
    MaxTime = 0
    MaxDate = 1
SYMMETRY Symmetry
INVARIANTS RepliesWitnessed
PROPERTIES WritesAreNamed
CHECK_DEADLOCK FALSE
