\* Two tasks, one code, SQLite rowids, days that pass, nothing fails: fairness.
SPECIFICATION FairSpec
CONSTANTS
    t1 = t1
    t2 = t2
    c1 = c1
    c2 = c2
    s1 = s1
    s2 = s2
    bad = bad
    Tasks <- MCTasks
    Codes <- MCOneCode
    Malformed = bad
    Sources <- MCOneSource
    DayInputs <- MCDays
    MaxAttempts = 2
    RowidReuse = TRUE
    DbFaults = FALSE
    MaxId = 3
    MaxTime = 1
    MaxDate = 2
INVARIANTS TypeOK
PROPERTIES ImplementsCatalog ErrorsExplained OperationsEnd
CHECK_DEADLOCK FALSE
