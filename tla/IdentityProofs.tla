--------------------------- MODULE IdentityProofs ---------------------------
(***************************************************************************)
(* Theorems about Identity, for any set of Telegram ids, any number of     *)
(* handler tasks, and any number of deaths and changes of ADMIN_IDS.       *)
(***************************************************************************)
EXTENDS Identity, TLAPS

\* Seeding in progress: what is left to add and to remove is exactly the
\* difference between the table and ADMIN_IDS, at every step between.
Seeding ==
    /\ phase = "seed" =>
          /\ missing = adminIds \ admins
          /\ surplus = admins \ adminIds
          /\ current \subseteq missing
    /\ phase # "seed" => current = {}

\* The strengthening of ServesConfigured and AdminsAreUsers: readiness comes
\* only after seeding, and the user of the administrator being added is there.
Seeded ==
    /\ Seeding
    /\ phase \in {"identify", "polling"} => admins = adminIds
    /\ status = "ready" => phase \in {"identify", "polling"}
    /\ admins \cup current \subseteq users

LEMMA SeededInit == Init => Seeded
BY DEF Init, Seeded, Seeding

\* The steps of seed_administrators.
LEMMA SeedSteps ==
    ASSUME Seeded, ListAdmins \/ SeedUser \/ SeedAdmin \/ Unseed \/ BecomeReady
    PROVE  Seeded'
<1>1. CASE ListAdmins
  BY <1>1, SMT DEF ListAdmins, Seeded, Seeding, database
<1>2. CASE SeedUser
  BY <1>2, SMT DEF SeedUser, Seeded, Seeding
<1>3. CASE SeedAdmin
  BY <1>3, SMT DEF SeedAdmin, Seeded, Seeding
<1>4. CASE Unseed
  BY <1>4, SMT DEF Unseed, Seeded, Seeding
<1>5. CASE BecomeReady
  BY <1>5, SMT DEF BecomeReady, Seeded, Seeding, database
<1> QED
  BY <1>1, <1>2, <1>3, <1>4, <1>5

\* The steps before and after it, and the end of the process.
LEMMA BootSteps ==
    ASSUME Seeded, \/ Boot \/ CreateTable \/ FinishMigration \/ StartPolling \/ Die
                   \/ FailHealthCheck \/ \E ids \in SUBSET Ids : Configure(ids)
    PROVE  Seeded'
<1>1. CASE Boot
  BY <1>1, SMT DEF Boot, Seeded, Seeding, database
<1>2. CASE CreateTable
  BY <1>2, SMT DEF CreateTable, Exit, Seeded, Seeding
<1>3. CASE FinishMigration
  BY <1>3, SMT DEF FinishMigration, Seeded, Seeding
<1>4. CASE StartPolling
  BY <1>4, SMT DEF StartPolling, Seeded, Seeding, database
<1>5. CASE Die
  BY <1>5, SMT DEF Die, Exit, Seeded, Seeding, database
<1>6. CASE FailHealthCheck
  BY <1>6, SMT DEF FailHealthCheck, Seeded, Seeding, database
<1>7. ASSUME NEW ids \in SUBSET Ids, Configure(ids) PROVE Seeded'
  BY <1>7, SMT DEF Configure, Seeded, Seeding, database, process
<1> QED
  BY <1>1, <1>2, <1>3, <1>4, <1>5, <1>6, <1>7

\* Handlers only add users.
LEMMA HandleSteps ==
    ASSUME Seeded, NEW t \in Tasks, Handle(t) \/ \E id \in Ids : EnsureUser(t, id)
    PROVE  Seeded'
BY SMT DEF Handle, EnsureUser, Lookup, Insert, Reselect, Seeded, Seeding, database, process

LEMMA SeededStep == Seeded /\ [Next]_vars => Seeded'
<1> SUFFICES ASSUME Seeded, [Next]_vars PROVE Seeded'
  OBVIOUS
<1>1. CASE UNCHANGED vars
  BY <1>1 DEF vars, database, process, Seeded, Seeding
<1> QED
  BY <1>1, SeedSteps, BootSteps, HandleSteps DEF Next, Startup

\* The process is ready, and serves updates, only with exactly the configured
\* administrators, whatever half-done seeding earlier processes left behind.
THEOREM AdministratorsConfigured == Spec => []ServesConfigured
<1>1. Seeded => ServesConfigured
  BY DEF Seeded, ServesConfigured
<1> QED
  BY <1>1, SeededInit, SeededStep, PTL DEF Spec

\* No administrator without a user, at any step of any boot.
THEOREM AdministratorsAreUsers == Spec => []AdminsAreUsers
<1>1. Seeded => AdminsAreUsers
  BY DEF Seeded, AdminsAreUsers
<1> QED
  BY <1>1, SeededInit, SeededStep, PTL DEF Spec

\* A configured administrator in the table is never removed.
THEOREM ConfiguredNeverRemoved == Spec => ConfiguredKept
<1>1. ASSUME Seeded, [Next]_vars PROVE [admins \cap adminIds \subseteq admins']_vars
  <2>1. CASE UNCHANGED admins
    BY <2>1
  <2>2. CASE SeedAdmin
    BY <2>2 DEF SeedAdmin
  <2>3. CASE Unseed
    BY <1>1, <2>3 DEF Unseed, Seeded, Seeding
  <2>4. CASE Boot \/ CreateTable \/ FinishMigration \/ ListAdmins \/ SeedUser
             \/ BecomeReady \/ StartPolling
    BY <2>4 DEF Boot, CreateTable, FinishMigration, ListAdmins, SeedUser, BecomeReady,
                StartPolling, database
  <2>5. ASSUME NEW t \in Tasks, Handle(t) \/ \E id \in Ids : EnsureUser(t, id)
        PROVE  UNCHANGED admins
    BY <2>5 DEF Handle, EnsureUser, Lookup, Insert, Reselect, database
  <2>6. CASE Die \/ FailHealthCheck \/ \E ids \in SUBSET Ids : Configure(ids)
    BY <2>6 DEF Die, FailHealthCheck, Configure, database
  <2>7. CASE UNCHANGED vars
    BY <2>7 DEF vars, database
  <2> QED
    BY <1>1, <2>1, <2>2, <2>3, <2>4, <2>5, <2>6, <2>7 DEF Next, Startup
<1> QED
  BY <1>1, SeededInit, SeededStep, PTL DEF Spec, ConfiguredKept

-----------------------------------------------------------------------------

Asking == [pc : {"idle", "lookup", "insert", "reselect"},
           id : SUBSET Ids, result : {"none", "row", "lost"}]

\* A task that was told its insert collided finds the row: the winner had
\* committed it, and no step removes a user.
Registered ==
    /\ task \in [Tasks -> Asking]
    /\ \A t \in Tasks :
        /\ task[t].result # "lost"
        /\ task[t].result = "row" \/ task[t].pc = "reselect" => task[t].id \subseteq users

LEMMA ReturnRegistered ==
    ASSUME Registered, NEW t \in Tasks, NEW result \in {"none", "row"}, Return(t, result),
           users \subseteq users', result = "row" => task[t].id \subseteq users'
    PROVE  Registered'
<1>1. task' = [task EXCEPT ![t] = [task[t] EXCEPT !.pc = "idle", !.result = result]]
  BY DEF Return
<1>2. \A k \in Asking :
         LET next == [k EXCEPT !.pc = "idle", !.result = result]
         IN  next \in Asking /\ next.pc = "idle" /\ next.id = k.id /\ next.result = result
  BY DEF Asking
<1> QED
  BY <1>1, <1>2 DEF Registered

LEMMA PcRegistered ==
    ASSUME Registered, UNCHANGED users, NEW t \in Tasks, NEW pc \in {"insert", "reselect"},
           task' = [task EXCEPT ![t].pc = pc],
           pc = "reselect" => task[t].id \subseteq users
    PROVE  Registered'
<1>1. task' = [task EXCEPT ![t] = [task[t] EXCEPT !.pc = pc]]
  OBVIOUS
<1>2. \A k \in Asking :
         LET next == [k EXCEPT !.pc = pc]
         IN  next \in Asking /\ next.pc = pc /\ next.id = k.id /\ next.result = k.result
  BY DEF Asking
<1> QED
  BY <1>1, <1>2 DEF Registered

LEMMA RegisteredStep == Registered /\ [Next]_vars => Registered'
<1> SUFFICES ASSUME Registered, [Next]_vars PROVE Registered'
  OBVIOUS
<1>1. ASSUME UNCHANGED task, users \subseteq users' PROVE Registered'
  BY <1>1 DEF Registered
<1>2. ASSUME Exit PROVE Registered'
  <2>1. task' = [t \in Tasks |-> Idle]
    BY <1>2 DEF Exit
  <2> QED
    BY <2>1 DEF Registered, Asking, Idle
<1>3. ASSUME NEW t \in Tasks, NEW id \in Ids, EnsureUser(t, id) PROVE Registered'
  BY <1>3 DEF EnsureUser, Registered, Asking, database
<1>4. ASSUME NEW t \in Tasks, Lookup(t) PROVE Registered'
  BY <1>4, ReturnRegistered, PcRegistered DEF Lookup, database
<1>5. ASSUME NEW t \in Tasks, Insert(t) PROVE Registered'
  BY <1>5, ReturnRegistered, PcRegistered DEF Insert
<1>6. ASSUME NEW t \in Tasks, Reselect(t) PROVE Registered'
  <2>1. task[t].id \subseteq users
    BY <1>6 DEF Reselect, Registered
  <2> QED
    BY <1>6, <2>1, ReturnRegistered DEF Reselect, database
<1>7. CASE Startup
  BY <1>1, <1>2, <1>7 DEF Startup, Boot, CreateTable, FinishMigration, ListAdmins,
     SeedUser, SeedAdmin, Unseed, BecomeReady, StartPolling, database
<1>8. CASE Die \/ FailHealthCheck \/ \E ids \in SUBSET Ids : Configure(ids)
  BY <1>1, <1>2, <1>8 DEF Die, FailHealthCheck, Configure, database
<1>9. CASE UNCHANGED vars
  BY <1>1, <1>9 DEF vars, database
<1> QED
  BY <1>3, <1>4, <1>5, <1>6, <1>7, <1>8, <1>9 DEF Next, Handle

\* Whichever task wins the race for an insert, every ensure_user that returns
\* returns a stored row, and none raises for a row that is not there.
THEOREM RegistrationsReturnRows == Spec => []RegistrationsFound
<1>1. Init => Registered
  BY DEF Init, Registered, Asking, Idle
<1>2. Registered => RegistrationsFound
  BY DEF Registered, RegistrationsFound
<1> QED
  BY <1>1, <1>2, RegisteredStep, PTL DEF Spec

-----------------------------------------------------------------------------

\* The tables are created in their order, content first: what a boot finds
\* half made has that one in its way.
ContentFirst ==
    /\ tables # {} \/ ddl # 0 => "content" \in tables
    /\ phase = "down" => ddl = 0

\* Between a failed boot and the next: the revision is not recorded, and the
\* first statement will fail.
Stuck ==
    /\ ~stamped /\ "content" \in tables
    /\ phase \in {"down", "migrate"} /\ ddl = 0

LEMMA ContentFirstStep == TypeOK /\ ContentFirst /\ [Next]_vars => ContentFirst'
<1> SUFFICES ASSUME TypeOK, ContentFirst, [Next]_vars PROVE ContentFirst'
  OBVIOUS
<1>1. CASE UNCHANGED vars
  BY <1>1 DEF vars, database, process, ContentFirst
<1>2. CASE CreateTable
  <2>1. CASE ddl = 0
    <3>1. Created[ddl + 1] = "content"
      BY <2>1, SMT DEF Created
    <3> QED
      BY <1>2, <3>1 DEF CreateTable, Exit, ContentFirst
  <2>2. CASE ddl # 0
    BY <1>2, <2>2 DEF CreateTable, Exit, ContentFirst
  <2> QED
    BY <2>1, <2>2
<1>3. CASE Boot \/ FinishMigration \/ ListAdmins \/ SeedUser \/ SeedAdmin \/ Unseed
           \/ BecomeReady \/ StartPolling
  BY <1>3 DEF Boot, FinishMigration, ListAdmins, SeedUser, SeedAdmin, Unseed,
              BecomeReady, StartPolling, ContentFirst, database
<1>4. ASSUME NEW t \in Tasks, Handle(t) \/ \E id \in Ids : EnsureUser(t, id)
      PROVE  ContentFirst'
  BY <1>4 DEF Handle, EnsureUser, Lookup, Insert, Reselect, ContentFirst, database, process
<1>5. CASE Die \/ FailHealthCheck \/ \E ids \in SUBSET Ids : Configure(ids)
  BY <1>5 DEF Die, FailHealthCheck, Configure, Exit, ContentFirst, database, process
<1> QED
  BY <1>1, <1>2, <1>3, <1>4, <1>5 DEF Next, Startup

LEMMA StuckStep == Stuck /\ [Next]_vars => Stuck'
<1> SUFFICES ASSUME Stuck, [Next]_vars PROVE Stuck'
  OBVIOUS
<1>1. CASE UNCHANGED vars
  BY <1>1 DEF vars, database, process, Stuck
<1>2. CASE CreateTable
  <2>1. Created[ddl + 1] \in tables
    BY SMT DEF Created, Stuck
  <2> QED
    BY <1>2, <2>1 DEF CreateTable, Exit, Stuck
<1>3. CASE Boot \/ FinishMigration \/ ListAdmins \/ SeedUser \/ SeedAdmin \/ Unseed
           \/ BecomeReady \/ StartPolling
  <2>1. /\ ddl # 3
        /\ phase # "list" /\ phase # "seed" /\ phase # "identify" /\ phase # "polling"
    BY SMT DEF Stuck
  <2> QED
    BY <1>3, <2>1 DEF Boot, FinishMigration, ListAdmins, SeedUser, SeedAdmin, Unseed,
                      BecomeReady, StartPolling, Stuck, database
<1>4. ASSUME NEW t \in Tasks, Handle(t) \/ \E id \in Ids : EnsureUser(t, id)
      PROVE  Stuck'
  BY <1>4 DEF Handle, EnsureUser, Lookup, Insert, Reselect, Stuck, database, process
<1>5. CASE Die \/ FailHealthCheck \/ \E ids \in SUBSET Ids : Configure(ids)
  BY <1>5 DEF Die, FailHealthCheck, Configure, Exit, Stuck, database, process
<1> QED
  BY <1>1, <1>2, <1>3, <1>4, <1>5 DEF Next, Startup

\* Type correctness: the migration never runs a fourth statement, and no
\* handler is alive unless the process is polling.
THEOREM TypeCorrect == Spec => []TypeOK
<1>1. ASSUME Init PROVE TypeOK
  <2>1. task \in [Tasks -> Asking] /\ task = [t \in Tasks |-> Idle]
    BY <1>1 DEF Init, Asking, Idle
  <2>2. adminIds \subseteq Ids /\ phase = "down" /\ disturbed \in 0..MaxDisturbances
    BY <1>1, IdentityAssumption, SMT DEF Init
  <2>3. /\ tables = {} /\ stamped = FALSE /\ users = {} /\ admins = {} /\ ddl = 0
        /\ status = "starting" /\ missing = {} /\ surplus = {} /\ current = {}
    BY <1>1 DEF Init
  <2>4. ddl \in 0..3 /\ phase \in Phases
    BY <2>2, <2>3, SMT DEF Phases
  <2> QED
    BY <2>1, <2>2, <2>3, <2>4 DEF TypeOK, Asking
<1>2. ASSUME TypeOK, [Next]_vars PROVE TypeOK'
  <2>1. CASE UNCHANGED vars
    BY <1>2, <2>1 DEF vars, database, process, TypeOK
  <2>2. Idle \in Asking
    BY DEF Idle, Asking
  <2>3. CASE Boot \/ FinishMigration \/ ListAdmins \/ SeedUser \/ SeedAdmin
             \/ Unseed \/ BecomeReady \/ StartPolling
    <3>1. CASE Boot
      BY <1>2, <3>1, SMT DEF Boot, TypeOK, Phases, database
    <3>2. CASE FinishMigration
      BY <1>2, <3>2, SMT DEF FinishMigration, TypeOK, Phases, database
    <3>3. CASE ListAdmins
      BY <1>2, <3>3, SMT DEF ListAdmins, TypeOK, Phases, database
    <3>4. CASE SeedUser
      BY <1>2, <3>4, SMT DEF SeedUser, TypeOK, Phases, database
    <3>5. CASE SeedAdmin
      BY <1>2, <3>5, SMT DEF SeedAdmin, TypeOK, Phases, database
    <3>6. CASE Unseed
      BY <1>2, <3>6, SMT DEF Unseed, TypeOK, Phases, database
    <3>7. CASE BecomeReady
      BY <1>2, <3>7, SMT DEF BecomeReady, TypeOK, Phases, database
    <3>8. CASE StartPolling
      BY <1>2, <3>8, SMT DEF StartPolling, TypeOK, Phases, database
    <3> QED
      BY <2>3, <3>1, <3>2, <3>3, <3>4, <3>5, <3>6, <3>7, <3>8
  <2>4. ASSUME Exit, tables' \subseteq {"content", "user", "admin"},
               UNCHANGED <<stamped, users, admins, adminIds>>,
               disturbed' \in 0..MaxDisturbances
        PROVE  TypeOK'
    BY <1>2, <2>2, <2>4, SMT DEF Exit, TypeOK, Phases, Asking
  <2>5. CASE CreateTable
    <3>1. CASE Created[ddl + 1] \in tables
      BY <1>2, <2>4, <2>5, <3>1 DEF CreateTable, TypeOK
    <3>2. CASE Created[ddl + 1] \notin tables
      <4>1. ddl \in {0, 1, 2}
        BY <1>2, <2>5, SMT DEF CreateTable, TypeOK
      <4>2. Created[ddl + 1] \in {"content", "user", "admin"}
        BY <4>1, SMT DEF Created
      <4>3. ddl' \in 0..3
        BY <2>5, <3>2, <4>1, SMT DEF CreateTable
      <4>4. tables' \subseteq {"content", "user", "admin"}
        BY <1>2, <2>5, <3>2, <4>2 DEF CreateTable, TypeOK
      <4> QED
        BY <1>2, <2>5, <3>2, <4>3, <4>4 DEF CreateTable, TypeOK
    <3> QED
      BY <3>1, <3>2
  <2>6. ASSUME NEW t \in Tasks, Handle(t) \/ \E id \in Ids : EnsureUser(t, id)
        PROVE  TypeOK'
    <3>1. /\ phase = "polling" /\ UNCHANGED <<tables, stamped, admins, adminIds, process, disturbed>>
          /\ users' \subseteq Ids
      BY <1>2, <2>6 DEF Handle, EnsureUser, Lookup, Insert, Reselect, TypeOK, database, Idle,
         Asking
    <3>2. task' \in [Tasks -> Asking]
      <4>1. \A k \in Asking :
               /\ \A result \in {"row", "lost"} :
                     [k EXCEPT !.pc = "idle", !.result = result] \in Asking
               /\ \A pc \in {"insert", "reselect"} : [k EXCEPT !.pc = pc] \in Asking
        BY DEF Asking
      <4>2. task \in [Tasks -> Asking]
        BY <1>2 DEF TypeOK, Asking
      <4>3. ASSUME NEW k \in Asking, task' = [task EXCEPT ![t] = k]
            PROVE  task' \in [Tasks -> Asking]
        BY <4>2, <4>3
      <4>4. ASSUME NEW id \in Ids, EnsureUser(t, id) PROVE task' \in [Tasks -> Asking]
        BY <4>2, <4>4 DEF EnsureUser, Asking
      <4>5. ASSUME NEW result \in {"row", "lost"}, Return(t, result)
            PROVE  task' \in [Tasks -> Asking]
        BY <4>1, <4>2, <4>3, <4>5 DEF Return
      <4>6. ASSUME NEW pc \in {"insert", "reselect"}, task' = [task EXCEPT ![t].pc = pc]
            PROVE  task' \in [Tasks -> Asking]
        BY <4>1, <4>2, <4>3, <4>6
      <4> QED
        BY <2>6, <4>4, <4>5, <4>6 DEF Handle, Lookup, Insert, Reselect
    <3> QED
      BY <1>2, <3>1, <3>2 DEF TypeOK, Asking, process
  <2>7. CASE Die
    BY <1>2, <2>4, <2>7, IdentityAssumption, SMT DEF Die, Disturb, TypeOK, database
  <2>8. CASE FailHealthCheck
    BY <1>2, <2>8, IdentityAssumption, SMT DEF FailHealthCheck, Disturb, TypeOK, database
  <2>9. ASSUME NEW ids \in SUBSET Ids, Configure(ids) PROVE TypeOK'
    BY <1>2, <2>9, IdentityAssumption, SMT DEF Configure, Disturb, TypeOK, database, process
  <2> QED
    BY <1>2, <2>1, <2>3, <2>5, <2>6, <2>7, <2>8, <2>9 DEF Next, Startup
<1> QED
  BY <1>1, <1>2, PTL DEF Spec

-----------------------------------------------------------------------------

\* A process that dies inside the first migration leaves a database that no
\* later boot gets past, whatever the configuration and however often it is
\* restarted.
THEOREM HalfMigratedForGood == Spec => NeverRepaired
<1>1. Init => ContentFirst
  BY DEF Init, ContentFirst
<1>2. ContentFirst /\ phase = "down" /\ HalfMigrated => Stuck
  BY DEF ContentFirst, HalfMigrated, Stuck
<1>3. Stuck => HalfMigrated
  BY DEF Stuck, HalfMigrated
<1>4. Spec => []ContentFirst
  BY <1>1, ContentFirstStep, TypeCorrect, PTL DEF Spec
<1>5. Stuck /\ [][Next]_vars => []Stuck
  BY StuckStep, PTL
<1> QED
  BY <1>2, <1>3, <1>4, <1>5, PTL DEF Spec, NeverRepaired

=============================================================================
