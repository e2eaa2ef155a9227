------------------------- MODULE ContentManagement -------------------------
(***************************************************************************)
(* The operations administrators run on contents, as concurrent handler    *)
(* tasks over database sessions: app/services/content_management_service   *)
(* and content_service on top of app/database/repositories.                *)
(*                                                                         *)
(* aiogram runs one asyncio task per update, so between any two awaits of  *)
(* one operation any other operation may run.  An action here is what      *)
(* happens between two awaits that touch the database: one SELECT, or one  *)
(* flush and commit.  A session keeps the row it SELECTed and addresses    *)
(* its UPDATE or DELETE by the row's primary key, never by the code.       *)
(***************************************************************************)
EXTENDS Integers, FiniteSets

CONSTANTS
    Tasks,          \* handler tasks alive at once
    Codes,          \* codes generate_content_code can return
    Malformed,      \* a code is_deep_link_safe_code rejects
    Sources,        \* messages that can be uploaded
    DayInputs,      \* day counts an administrator can ask for
    MaxAttempts,    \* MAX_CODE_ALLOCATION_ATTEMPTS
    RowidReuse,     \* TRUE: SQLite rowids; FALSE: a PostgreSQL sequence
    DbFaults,       \* whether statements may fail (locked, connection lost)
    MaxId,          \* bound: ids handed out
    MaxTime,        \* bound: days that pass
    MaxDate         \* the last date a datetime can hold

ASSUME MalformedAssumption == Malformed \notin Codes
ASSUME TimeAssumption == MaxTime \in Nat /\ MaxDate \in Nat
ASSUME InputAssumption ==
    /\ DayInputs \subseteq Int
    /\ MaxAttempts \in Nat \ {0}
    /\ MaxId \in Nat
    /\ RowidReuse \in BOOLEAN
    /\ DbFaults \in BOOLEAN

VARIABLES
    content,    \* the table: a row for each primary key in use
    lastId,     \* the last id the PostgreSQL sequence gave
    now,        \* datetime.now(UTC), in days
    task,       \* what each handler task is doing
    seen        \* history: what held of each task's content while it ran

vars == <<content, lastId, now, task, seen>>

Ids == 1..MaxId
States == {"active", "inactive"}
Deadlines == {{}} \cup {{d} : d \in 0..MaxDate}
Rows == [code : Codes, source : Sources, state : States, expires : Deadlines]

Mutations == {"activate", "deactivate", "expire"}
Ops == Mutations \cup {"delete", "upload"}
Replies == {"none", "ok", "not_found", "already", "invalid", "bad_value", "error"}
DayChoices == {{}} \cup {{d} : d \in DayInputs}     \* {} is "off"

Tasking == [pc : {"idle", "resolve", "load", "write", "insert", "refresh", "done"},
            op : Ops, code : Codes \cup {Malformed}, source : Sources,
            days : DayChoices, until : Deadlines,
            held : SUBSET [id : Ids, row : Rows],   \* the row of the session
            tries : 0..(MaxAttempts - 1), reply : Replies]

TypeOK ==
    /\ content \in [DOMAIN content -> Rows]
    /\ DOMAIN content \subseteq Ids
    /\ lastId \in 0..MaxId
    /\ now \in 0..MaxTime
    /\ task \in [Tasks -> Tasking]
    /\ seen \in [Tasks -> SUBSET {"effect", "absent"}]

\* SELECT ... WHERE code = c: the ids of the matching rows.
RowsOf(code) == {id \in DOMAIN content : content[id].code = code}
Select(code) == {[id |-> id, row |-> content[id]] : id \in RowsOf(code)}

\* The primary key the database gives a new row.  SQLite's INTEGER PRIMARY
\* KEY is one more than the largest in use; a sequence never goes back.
LargestPlusOne(id) ==
    /\ \A used \in DOMAIN content : used < id
    /\ (id = 1 /\ DOMAIN content = {}) \/ id - 1 \in DOMAIN content
IsNextId(id) ==
    IF RowidReuse THEN LargestPlusOne(id) ELSE id = lastId + 1

Running(k) == k.pc \notin {"idle", "done"}

\* The answers that say something of a content; a task that ends without one
\* leaves nothing behind.
Claims == {"ok", "not_found", "already"}
Handler(pc, op, code, source, days, reply) ==
    [pc |-> pc, op |-> op, code |-> code, source |-> source, days |-> days,
     until |-> {}, held |-> {}, tries |-> 0, reply |-> reply]
Ended(k, reply) ==
    Handler("done", k.op, IF reply \in Claims THEN k.code ELSE Malformed,
            k.source, {}, reply)

Become(t, k) == task' = [task EXCEPT ![t] = k]
Finish(t, reply) == Become(t, Ended(task[t], reply))
Goto(t, pc) == Become(t, [task[t] EXCEPT !.pc = pc])
Database == <<content, lastId>>

-----------------------------------------------------------------------------
(* An update arrives and its handler starts.                               *)

StartMutation(t, op, code, days) ==
    /\ ~Running(task[t])
    /\ Become(t, Handler(IF op = "delete" THEN "load" ELSE "resolve", op, code,
                         task[t].source, days, "none"))
    /\ UNCHANGED <<Database, now>>

\* The bound: an upload starts only while every pending one can get an id.
Room == \A id \in DOMAIN content \cup {lastId} :
            id + Cardinality({u \in Tasks : Running(task[u])}) < MaxId

StartUpload(t, source) ==
    /\ ~Running(task[t])
    /\ Room
    /\ Become(t, Handler("insert", "upload", Malformed, source, {}, "none"))
    /\ UNCHANGED <<Database, now>>

\* A code that is not deep-link safe is refused before any session opens.
RejectMalformed(t) ==
    /\ task[t].pc \in {"resolve", "load"}
    /\ task[t].code = Malformed
    /\ Finish(t, "invalid")
    /\ UNCHANGED <<Database, now>>

\* Whether a row is already what the operation wants it to be.
Already(op, row) ==
    \/ op = "activate" /\ row.state = "active"
    \/ op = "deactivate" /\ row.state = "inactive"

\* datetime.now(UTC) + timedelta(days) is a date a datetime can hold.
AnyDate(d) == TRUE      \* mutant: dates without a largest one
Representable(d) == now + d <= MaxDate

\* _resolve_content, then the checks made on the row it returned, which by
\* then belongs to no session.
Resolve(t) ==
    LET k == task[t] IN
    /\ k.pc = "resolve" /\ k.code # Malformed
    /\ \/ RowsOf(k.code) = {} /\ Finish(t, "not_found")
       \/ \E found \in Select(k.code) :
            \/ Already(k.op, found.row) /\ Finish(t, "already")
            \/ /\ ~Already(k.op, found.row) /\ k.op # "expire"
               /\ Goto(t, "load")
            \/ /\ k.op = "expire"
               /\ \/ k.days = {} /\ Goto(t, "load")
                  \/ \E d \in k.days : d < 1 /\ Finish(t, "bad_value")
                  \/ \E d \in k.days :
                        /\ d >= 1 /\ Representable(d)
                        /\ Become(t, [k EXCEPT !.pc = "load", !.until = {now + d}])
                  \/ \E d \in k.days :      \* OverflowError, caught nowhere
                        d >= 1 /\ ~Representable(d) /\ Finish(t, "error")
    /\ UNCHANGED <<Database, now>>

\* The SELECT that opens _set_content_state, update_content_expiration and
\* delete_content.
Load(t) ==
    LET k == task[t] IN
    /\ k.pc = "load" /\ k.code # Malformed
    /\ IF RowsOf(k.code) = {}
       THEN Finish(t, "not_found")
       ELSE Become(t, [k EXCEPT !.pc = "write", !.held = Select(k.code)])
    /\ UNCHANGED <<Database, now>>

\* Whether the session's row is dirty once the operation has assigned to it.
\* A new deadline never equals a stored one: they differ in microseconds.
Dirty(k, loaded) ==
    IF k.op = "expire" THEN k.until # {} \/ loaded.expires # {}
    ELSE ~Already(k.op, loaded)

\* Mutant of Updated: the whole row is written back as it was loaded.
WrittenBack(k, loaded, stored) ==
    CASE k.op = "activate"   -> [loaded EXCEPT !.state = "active"]
      [] k.op = "deactivate" -> [loaded EXCEPT !.state = "inactive"]
      [] k.op = "expire"     -> [loaded EXCEPT !.expires = k.until]

\* The row after the UPDATE: the flush sets the columns that were assigned
\* and leaves the others as they are in the table by then.
Updated(k, loaded, stored) ==
    CASE k.op = "activate"   -> [stored EXCEPT !.state = "active"]
      [] k.op = "deactivate" -> [stored EXCEPT !.state = "inactive"]
      [] k.op = "expire"     -> [stored EXCEPT !.expires = k.until]

\* An UPDATE that matches no row raises StaleDataError, which no handler
\* catches.
AnswerAnyway(t) == Finish(t, "ok")      \* mutant: the row count is ignored
StaleUpdate(t) == Finish(t, "error")

\* Mutant of Matches: the row must not have changed since it was loaded.
VersionMatches(session) ==
    session.id \in DOMAIN content /\ content[session.id] = session.row

\* WHERE content.id = ? finds the row of the session.
Matches(session) == session.id \in DOMAIN content

\* commit of a mutation.  No UPDATE is sent when nothing changed.
CommitUpdate(t) ==
    LET k == task[t] IN
    /\ k.pc = "write" /\ k.op \in Mutations
    /\ \E session \in k.held :
        \/ /\ ~Dirty(k, session.row)
           /\ Goto(t, "refresh") /\ UNCHANGED content
        \/ /\ Dirty(k, session.row) /\ Matches(session)
           /\ content' = [content EXCEPT ![session.id] =
                            Updated(k, session.row, @)]
           /\ Goto(t, "refresh")
        \/ /\ Dirty(k, session.row) /\ ~Matches(session)
           /\ StaleUpdate(t) /\ UNCHANGED content
    /\ UNCHANGED <<lastId, now>>

\* commit of delete_content.  A DELETE that matches no row only warns.
CommitDelete(t) ==
    /\ task[t].pc = "write" /\ task[t].op = "delete"
    /\ \E session \in task[t].held :
        content' = [id \in DOMAIN content \ {session.id} |-> content[id]]
    /\ \/ Finish(t, "ok")
       \/ DbFaults /\ Finish(t, "error")   \* lost after the server committed
    /\ UNCHANGED <<lastId, now>>

\* for _ in range(MAX_CODE_ALLOCATION_ATTEMPTS): the next round.
SameRound(k) == k                       \* mutant: an unbounded loop
NextRound(k) == [k EXCEPT !.tries = @ + 1]

\* One round of the allocation loop of create_content_upload: the code is
\* drawn at random, the unique index decides.
CommitInsert(t) ==
    /\ task[t].pc = "insert"
    /\ \E code \in Codes :
        \/ /\ RowsOf(code) # {}                     \* IntegrityError
           /\ IF task[t].tries + 1 = MaxAttempts
              THEN Finish(t, "error")               \* ContentCodeAllocationError
              ELSE Become(t, NextRound(task[t]))
           /\ UNCHANGED Database
        \/ /\ RowsOf(code) = {}
           /\ \E id \in Ids :
                LET row == [code |-> code, source |-> task[t].source,
                            state |-> "active", expires |-> {}] IN
                /\ IsNextId(id)
                /\ content' = [i \in DOMAIN content \cup {id} |->
                                 IF i = id THEN row ELSE content[i]]
                /\ lastId' = IF RowidReuse THEN lastId ELSE id
                /\ Become(t, [task[t] EXCEPT !.pc = "refresh", !.code = code,
                                             !.held = {[id |-> id, row |-> row]}])
    /\ UNCHANGED now

\* session.refresh: SELECT by primary key.  When the row is gone it raises
\* InvalidRequestError, although the commit stands.  The answer is worded from
\* the row as it is then.
Refresh(t) ==
    /\ task[t].pc = "refresh"
    /\ \E session \in task[t].held :
        \/ /\ session.id \notin DOMAIN content
           /\ Finish(t, "error")
        \/ /\ session.id \in DOMAIN content
           /\ Become(t, Handler("done", task[t].op, content[session.id].code,
                                task[t].source, {}, "ok"))
    /\ UNCHANGED <<Database, now>>

\* A statement fails and the exception leaves the handler.
Fault(t) ==
    /\ DbFaults /\ Running(task[t])
    /\ Finish(t, "error")
    /\ UNCHANGED <<Database, now>>

Tick == now < MaxTime /\ now' = now + 1 /\ UNCHANGED <<Database, task>>

-----------------------------------------------------------------------------
(* History: whether, at some moment of its run, the content a task names   *)
(* was as the operation wants it, and whether it was absent.               *)

Effect(k) ==
    CASE k.op \in {"activate", "deactivate"} ->
            \E id \in RowsOf(k.code) : Already(k.op, content[id])
      [] k.op = "expire" ->
            k.pc \notin {"resolve", "done"} /\ \E id \in RowsOf(k.code) : content[id].expires = k.until
      [] k.op = "delete" -> RowsOf(k.code) = {}
      [] k.op = "upload" ->
            \E id \in RowsOf(k.code) : content[id].source = k.source

Facts(t) == (IF Effect(task[t]) THEN {"effect"} ELSE {})
            \cup (IF RowsOf(task[t].code) = {} THEN {"absent"} ELSE {})

Witnessed(t) == (IF Running(task[t]) THEN seen[t] ELSE {}) \cup Facts(t)'

\* Once an operation has ended only what its answer rests on is kept.
Evidence(k) ==
    CASE k.reply \in {"ok", "already"} -> {"effect"}
      [] k.reply = "not_found"         -> {"absent"}
      [] OTHER                         -> {}

Observe ==
    seen' = [t \in Tasks |->
        IF task'[t] = task[t] /\ ~Running(task[t]) THEN seen[t]
        ELSE IF Running(task'[t]) THEN Witnessed(t)
        ELSE Witnessed(t) \cap Evidence(task'[t])]

-----------------------------------------------------------------------------

Init ==
    /\ content = [id \in {} |-> {}] /\ lastId = 0
    /\ now = 0
    /\ \E s \in Sources :
            task = [t \in Tasks |-> Handler("idle", "delete", Malformed, s, {}, "none")]
    /\ seen = [t \in Tasks |-> {}]

Start(t) ==
    \/ \E op \in {"activate", "deactivate", "delete"}, code \in Codes \cup {Malformed} :
          StartMutation(t, op, code, {})
    \/ \E code \in Codes \cup {Malformed}, days \in DayChoices :
          StartMutation(t, "expire", code, days)
    \/ \E source \in Sources : StartUpload(t, source)

Work(t) ==
    \/ RejectMalformed(t) \/ Resolve(t) \/ Load(t)
    \/ CommitUpdate(t) \/ CommitDelete(t) \/ CommitInsert(t) \/ Refresh(t)

Step ==
    \/ \E t \in Tasks : Start(t) \/ Work(t) \/ Fault(t)
    \/ Tick

Next == Step /\ Observe

Spec == Init /\ [][Next]_vars

\* A started handler runs on: the event loop schedules it and the database
\* answers, or fails.  Nothing makes an administrator send an update.
FairSpec == Spec /\ \A t \in Tasks : WF_vars(Work(t) /\ UNCHANGED now /\ Observe)

-----------------------------------------------------------------------------
(* Properties                                                              *)

\* What an administrator is told was true at some moment between the update
\* and the answer: after "done" the content was as asked, after "not found"
\* it did not exist, after "already" it was already so.  In the code the
\* answer is worded from rows read in other sessions, before or after the
\* write, while other tasks write.
RepliesWitnessed ==
    \A t \in Tasks :
        /\ task[t].reply \in {"ok", "already"} => "effect" \in seen[t]
        /\ task[t].reply = "not_found" => "absent" \in seen[t]

\* No write lands on a content its author did not name: a row that changes or
\* disappears has the code that a task about to commit was asked for, and
\* only the column of that task's operation changes.  The code addresses its
\* writes by a primary key read earlier.
NamedBy(t, id) == task[t].pc = "write" /\ task[t].code = content[id].code

RemovalNamed ==
    \A id \in DOMAIN content \ DOMAIN content' :
        \E t \in Tasks : NamedBy(t, id) /\ task[t].op = "delete"

UpdateNamed ==
    \A id \in DOMAIN content \cap DOMAIN content' :
        content'[id] = content[id] \/
        \E t \in Tasks :
            /\ NamedBy(t, id)
            /\ \/ /\ task[t].op = "expire"
                  /\ content'[id] = [content[id] EXCEPT !.expires = task[t].until]
               \/ /\ task[t].op \in {"activate", "deactivate"}
                  /\ content'[id] = [content[id] EXCEPT !.state = content'[id].state]

WritesAreNamed == [][RemovalNamed /\ UpdateNamed]_vars

\* The rows, read as a map from codes: what every other part of the bot sees
\* of this table, and its steps are those of ContentCatalog.
Catalog ==
    [code \in {content[id].code : id \in DOMAIN content} |->
        LET row == content[CHOOSE id \in RowsOf(code) : TRUE]
        IN  [source |-> row.source, state |-> row.state, expires |-> row.expires]]

Abstract == INSTANCE ContentCatalog WITH catalog <- Catalog

ImplementsCatalog == Abstract!CatalogSpec

\* With a database that never fails, activating or deactivating a content
\* always gets an answer, whatever other administrators do meanwhile.
StateChangesAnswered ==
    \A t \in Tasks : task[t].op \in {"activate", "deactivate"} => task[t].reply # "error"

\* With a database that never fails, a change to a content that has passed its
\* checks ends in an exception only when the content was not there at some
\* moment between the update and the exception: two administrators who change
\* the same content never make one another fail.
ErrorExplained(t) ==
    task[t].op \in Mutations /\ task[t].pc \in {"load", "write", "refresh"}
    /\ task'[t].reply = "error"
    => "absent" \in seen[t]

ErrorsExplained == [][\A t \in Tasks : ErrorExplained(t)]_vars

\* Every operation ends: with an answer, or with an exception that ends its
\* task.  The allocation loop of an upload is the only loop.
OperationsEnd == \A t \in Tasks : Running(task[t]) ~> ~Running(task[t])

=============================================================================
