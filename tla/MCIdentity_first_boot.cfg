\* One death is enough when it falls inside the first migration.
SPECIFICATION FairSpec
CONSTANTS
    id1 = id1
    id2 = id2
    t1 = t1
    t2 = t2
    Ids <- MCIds
    Tasks <- MCTasks
    MaxDisturbances = 1
PROPERTIES AlwaysServes
