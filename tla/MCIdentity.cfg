\* Two Telegram ids, two handler tasks, three disturbances.
SPECIFICATION FairSpec
CONSTANTS
    id1 = id1
    id2 = id2
    t1 = t1
    t2 = t2
    Ids <- MCIds
    Tasks <- MCTasks
    MaxDisturbances = 3
INVARIANTS TypeOK ServesConfigured AdminsAreUsers RegistrationsFound
PROPERTIES ConfiguredKept NeverRepaired EndsUpServing RegistrationsEnd
