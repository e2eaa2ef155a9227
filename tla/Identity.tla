------------------------------ MODULE Identity ------------------------------
(***************************************************************************)
(* Startup and identities: main.startup with the Alembic migration of      *)
(* init_db and seed_administrators (app/main.py, app/database/database.py, *)
(* app/services/identity_service.py), the process status of                *)
(* health_service, and get_or_create_user as handler tasks race on it      *)
(* (app/database/repositories.py).                                         *)
(*                                                                         *)
(* The process may die at every step; the container's restart policy boots *)
(* it again, possibly with other ADMIN_IDS.  The database is SQLite: each  *)
(* statement of the migration takes effect by itself, and what a dead      *)
(* process had committed stays.                                            *)
(***************************************************************************)
EXTENDS Integers, Sequences

CONSTANTS
    Ids,                \* Telegram ids
    Tasks,              \* handler tasks that call ensure_user
    MaxDisturbances     \* bound: deaths, failed health checks, new ADMIN_IDS

ASSUME IdentityAssumption == MaxDisturbances \in Nat

VARIABLES
    tables,     \* the tables that exist
    stamped,    \* whether alembic_version holds the head revision
    users,      \* telegram_id of the rows of user
    admins,     \* telegram_id of the rows of admin
    adminIds,   \* ADMIN_IDS; the process reads it when it boots
    phase,      \* where main is
    ddl,        \* statements of the migration that this process ran
    missing,    \* seed_administrators: desired - current, still to create
    surplus,    \* seed_administrators: current - desired, still to delete
    current,    \* the administrator get_or_create_admin is at
    status,     \* application_status
    task,       \* the handler tasks
    disturbed

database == <<tables, stamped, users, admins>>
process == <<phase, ddl, missing, surplus, current, status>>
vars == <<database, adminIds, process, task, disturbed>>

\* upgrade(): the tables in the order they are created.
Created == <<"content", "user", "admin">>

Phases == {"down", "migrate", "list", "seed", "identify", "polling"}
Idle == [pc |-> "idle", id |-> {}, result |-> "none"]

TypeOK ==
    /\ tables \subseteq {"content", "user", "admin"}
    /\ stamped \in BOOLEAN
    /\ users \subseteq Ids /\ admins \subseteq Ids /\ adminIds \subseteq Ids
    /\ phase \in Phases
    /\ ddl \in 0..3
    /\ missing \subseteq Ids /\ surplus \subseteq Ids /\ current \subseteq Ids
    /\ status \in {"starting", "ready", "failed"}
    /\ task \in [Tasks -> [pc : {"idle", "lookup", "insert", "reselect"},
                           id : SUBSET Ids, result : {"none", "row", "lost"}]]
    /\ disturbed \in 0..MaxDisturbances
    /\ phase # "polling" => task = [t \in Tasks |-> Idle]

-----------------------------------------------------------------------------
(* startup.                                                                *)

Boot ==
    /\ phase = "down"
    /\ phase' = "migrate" /\ ddl' = 0 /\ status' = "starting"
    /\ UNCHANGED <<database, adminIds, missing, surplus, current, task, disturbed>>

\* The end of the process: tasks and counters are gone.
Exit ==
    /\ phase' = "down" /\ status' = "failed" /\ ddl' = 0
    /\ missing' = {} /\ surplus' = {} /\ current' = {}
    /\ task' = [t \in Tasks |-> Idle]

\* Mutant of CreateTable: the recorded revision is not consulted.
CreateAtEveryBoot ==
    /\ phase = "migrate" /\ ddl < 3
    /\ IF Created[ddl + 1] \in tables
       THEN Exit /\ UNCHANGED tables
       ELSE /\ tables' = tables \cup {Created[ddl + 1]}
            /\ ddl' = ddl + 1
            /\ UNCHANGED <<phase, missing, surplus, current, status, task>>
    /\ UNCHANGED <<stamped, users, admins, adminIds, disturbed>>

\* Mutant of CreateTable: CREATE TABLE IF NOT EXISTS.
CreateIfMissing ==
    /\ phase = "migrate" /\ ~stamped /\ ddl < 3
    /\ tables' = tables \cup {Created[ddl + 1]}
    /\ ddl' = ddl + 1
    /\ UNCHANGED <<stamped, users, admins, adminIds, phase, missing, surplus, current,
                   status, task, disturbed>>

\* CREATE TABLE fails when the table is there.
CreateTable ==
    /\ phase = "migrate" /\ ~stamped /\ ddl < 3
    /\ IF Created[ddl + 1] \in tables
       THEN Exit /\ UNCHANGED tables
       ELSE /\ tables' = tables \cup {Created[ddl + 1]}
            /\ ddl' = ddl + 1
            /\ UNCHANGED <<phase, missing, surplus, current, status, task>>
    /\ UNCHANGED <<stamped, users, admins, adminIds, disturbed>>

\* The revision is recorded after the last statement, or was found recorded.
FinishMigration ==
    /\ phase = "migrate" /\ (stamped \/ ddl = 3)
    /\ stamped' = TRUE /\ phase' = "list"
    /\ UNCHANGED <<tables, users, admins, adminIds, ddl, missing, surplus, current,
                   status, task, disturbed>>

\* Mutant of ListAdmins: every administrator is deleted and created again.
ListAll ==
    /\ phase = "list"
    /\ missing' = adminIds
    /\ surplus' = admins
    /\ phase' = "seed"
    /\ UNCHANGED <<database, adminIds, ddl, current, status, task, disturbed>>

ListAdmins ==
    /\ phase = "list"
    /\ missing' = adminIds \ admins
    /\ surplus' = admins \ adminIds
    /\ phase' = "seed"
    /\ UNCHANGED <<database, adminIds, ddl, current, status, task, disturbed>>

\* Mutant of SeedUser: the administrator's row without the user's.
SeedNoUser ==
    /\ phase = "seed" /\ current = {}
    /\ \E id \in missing : current' = {id}
    /\ UNCHANGED <<tables, stamped, users, admins, adminIds, phase, ddl, missing, surplus,
                   status, task, disturbed>>

\* get_or_create_admin: first the user's row, then the administrator's.
SeedUser ==
    /\ phase = "seed" /\ current = {}
    /\ \E id \in missing : current' = {id} /\ users' = users \cup {id}
    /\ UNCHANGED <<tables, stamped, admins, adminIds, phase, ddl, missing, surplus,
                   status, task, disturbed>>

SeedAdmin ==
    /\ phase = "seed" /\ current # {}
    /\ admins' = admins \cup current
    /\ missing' = missing \ current
    /\ current' = {}
    /\ UNCHANGED <<tables, stamped, users, adminIds, phase, ddl, surplus, status,
                   task, disturbed>>

Unseed ==
    /\ phase = "seed" /\ missing = {} /\ current = {}
    /\ \E id \in surplus : surplus' = surplus \ {id} /\ admins' = admins \ {id}
    /\ UNCHANGED <<tables, stamped, users, adminIds, phase, ddl, missing, current,
                   status, task, disturbed>>

\* Mutant of BecomeReady: ready before the removed administrators are out.
ReadyOnceAdded ==
    /\ phase = "seed" /\ missing = {} /\ current = {}
    /\ phase' = "identify" /\ status' = "ready"
    /\ UNCHANGED <<database, adminIds, ddl, missing, surplus, current, task, disturbed>>

\* check_database answers and mark_ready follows without an await.
BecomeReady ==
    /\ phase = "seed" /\ missing = {} /\ current = {} /\ surplus = {}
    /\ phase' = "identify" /\ status' = "ready"
    /\ UNCHANGED <<database, adminIds, ddl, missing, surplus, current, task, disturbed>>

\* bot.get_me, then polling.
StartPolling ==
    /\ phase = "identify" /\ phase' = "polling"
    /\ UNCHANGED <<database, adminIds, ddl, missing, surplus, current, status, task,
                   disturbed>>

-----------------------------------------------------------------------------
(* get_or_create_user, called by a handler task.                           *)

Return(t, result) == task' = [task EXCEPT ![t].pc = "idle", ![t].result = result]

\* Mutant of EnsureUser: updates are handled before startup is over.
EnsureEarly(t, id) ==
    /\ phase \in {"identify", "polling"} /\ task[t].pc = "idle"
    /\ task' = [task EXCEPT ![t] = [pc |-> "lookup", id |-> {id}, result |-> "none"]]
    /\ UNCHANGED <<database, adminIds, process, disturbed>>

EnsureUser(t, id) ==
    /\ phase = "polling" /\ task[t].pc = "idle"
    /\ task' = [task EXCEPT ![t] = [pc |-> "lookup", id |-> {id}, result |-> "none"]]
    /\ UNCHANGED <<database, adminIds, process, disturbed>>

Lookup(t) ==
    /\ task[t].pc = "lookup"
    /\ \/ task[t].id \subseteq users /\ Return(t, "row")
       \/ ~(task[t].id \subseteq users) /\ task' = [task EXCEPT ![t].pc = "insert"]
    /\ UNCHANGED <<database, adminIds, process, disturbed>>

\* Mutant of Insert: the transaction is never committed.
InsertUncommitted(t) ==
    /\ task[t].pc = "insert"
    /\ \/ ~(task[t].id \subseteq users) /\ Return(t, "row")
       \/ task[t].id \subseteq users /\ task' = [task EXCEPT ![t].pc = "reselect"]
    /\ UNCHANGED <<database, adminIds, process, disturbed>>

\* The unique index decides: one commits, the other gets an IntegrityError.
Insert(t) ==
    /\ task[t].pc = "insert"
    /\ \/ /\ ~(task[t].id \subseteq users)
          /\ users' = users \cup task[t].id /\ Return(t, "row")
       \/ /\ task[t].id \subseteq users
          /\ task' = [task EXCEPT ![t].pc = "reselect"] /\ UNCHANGED users
    /\ UNCHANGED <<tables, stamped, admins, adminIds, process, disturbed>>

\* Mutant of Reselect: the insert is tried again instead.
InsertAgain(t) ==
    /\ task[t].pc = "reselect"
    /\ task' = [task EXCEPT ![t].pc = "insert"]
    /\ UNCHANGED <<database, adminIds, process, disturbed>>

\* result.one() raises when there is no row.
Reselect(t) ==
    /\ task[t].pc = "reselect"
    /\ Return(t, IF task[t].id \subseteq users THEN "row" ELSE "lost")
    /\ UNCHANGED <<database, adminIds, process, disturbed>>

-----------------------------------------------------------------------------
(* What goes wrong.                                                        *)

Disturb == disturbed < MaxDisturbances /\ disturbed' = disturbed + 1

\* The process is killed, or an exception leaves startup or main.
Die == phase # "down" /\ Disturb /\ Exit /\ UNCHANGED <<database, adminIds>>

\* check_health finds the database unreachable.
FailHealthCheck ==
    /\ phase # "down" /\ Disturb /\ status' = "failed"
    /\ UNCHANGED <<database, adminIds, phase, ddl, missing, surplus, current, task>>

Configure(ids) ==
    /\ phase = "down" /\ Disturb /\ adminIds' = ids
    /\ UNCHANGED <<database, process, task>>

-----------------------------------------------------------------------------

Init ==
    /\ tables = {} /\ stamped = FALSE
    /\ users = {} /\ admins = {}
    /\ adminIds \in SUBSET Ids
    /\ phase = "down" /\ ddl = 0 /\ status = "starting"
    /\ missing = {} /\ surplus = {} /\ current = {}
    /\ task = [t \in Tasks |-> Idle]
    /\ disturbed = 0

Startup ==
    \/ Boot \/ CreateTable \/ FinishMigration \/ ListAdmins
    \/ SeedUser \/ SeedAdmin \/ Unseed \/ BecomeReady \/ StartPolling

Handle(t) == Lookup(t) \/ Insert(t) \/ Reselect(t)

Next ==
    \/ Startup
    \/ \E t \in Tasks : Handle(t) \/ (\E id \in Ids : EnsureUser(t, id))
    \/ Die \/ FailHealthCheck
    \/ \E ids \in SUBSET Ids : Configure(ids)

Spec == Init /\ [][Next]_vars

\* compose.yaml restarts the container unless it was stopped, main runs on,
\* and so does every handler.
FairSpec == Spec /\ WF_vars(Startup) /\ \A t \in Tasks : WF_vars(Handle(t))

-----------------------------------------------------------------------------
(* Properties                                                              *)

\* Whenever the process says it is ready, and whenever it serves updates, the
\* administrators in the table are exactly ADMIN_IDS: whatever earlier
\* processes left half seeded has been completed, and whoever was taken off
\* the list is out.
ServesConfigured ==
    phase \in {"identify", "polling"} \/ status = "ready" => admins = adminIds

\* Every administrator has a user: SQLite does not enforce the foreign key,
\* so this rests on the order of the two inserts.
AdminsAreUsers == admins \subseteq users

\* ensure_user returns a stored row, also to the task that lost the race for
\* the insert.
RegistrationsFound ==
    \A t \in Tasks :
        /\ task[t].result # "lost"
        /\ task[t].result = "row" => task[t].id \subseteq users

\* A configured administrator who is in the table stays there through every
\* restart.
ConfiguredKept == [][admins \cap adminIds \subseteq admins']_vars

\* Only finitely often disturbed, the bot ends up polling for good, unless
\* the process died inside its first migration.
HalfMigrated == tables # {} /\ ~stamped
EndsUpServing == <>[](phase = "polling") \/ <>[]HalfMigrated

\* A database whose first migration was cut short is never repaired: every
\* later boot starts over at the first table and dies of it.
NeverRepaired == [](phase = "down" /\ HalfMigrated => []HalfMigrated)

\* Every ensure_user returns, or dies with its process.
RegistrationsEnd == \A t \in Tasks : task[t].pc # "idle" ~> task[t].pc = "idle"

\* Only finitely often disturbed, the bot ends up polling for good.
AlwaysServes == <>[](phase = "polling")

=============================================================================
