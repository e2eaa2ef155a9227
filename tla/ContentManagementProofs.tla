----------------------- MODULE ContentManagementProofs -----------------------
(***************************************************************************)
(* Theorems about ContentManagement, for any number of tasks, codes, rows  *)
(* and days.                                                               *)
(***************************************************************************)
EXTENDS ContentManagement, TLAPS

Sessions == [id : Ids, row : Rows]

\* The rows a session may hold are rows of the table.
LEMMA SelectType ==
    ASSUME TypeOK, NEW code
    PROVE  Select(code) \in SUBSET Sessions
BY DEF TypeOK, Select, RowsOf, Sessions

\* A handler that starts or ends has the type of handlers.
LEMMA HandlerType ==
    ASSUME NEW pc \in {"idle", "resolve", "load", "insert", "done"},
           NEW op \in Ops, NEW code \in Codes \cup {Malformed},
           NEW source \in Sources, NEW days \in DayChoices, NEW reply \in Replies
    PROVE  Handler(pc, op, code, source, days, reply) \in Tasking
BY InputAssumption, SMT DEF Handler, Tasking, Deadlines

LEMMA EndedType ==
    ASSUME NEW k \in Tasking, NEW reply \in Replies
    PROVE  Ended(k, reply) \in Tasking
<1>1. k.op \in Ops /\ k.code \in Codes \cup {Malformed} /\ k.source \in Sources
  BY DEF Tasking
<1>2. {} \in DayChoices
  BY DEF DayChoices
<1> QED
  BY <1>1, <1>2, HandlerType DEF Ended

LEMMA BecomeType ==
    ASSUME TypeOK, NEW t \in Tasks, NEW k \in Tasking, Become(t, k)
    PROVE  task' \in [Tasks -> Tasking]
BY DEF TypeOK, Become

LEMMA FinishType ==
    ASSUME TypeOK, NEW t \in Tasks, NEW reply \in Replies, Finish(t, reply)
    PROVE  task' \in [Tasks -> Tasking]
<1>1. task[t] \in Tasking
  BY DEF TypeOK
<1> QED
  BY <1>1, EndedType, BecomeType DEF Finish

LEMMA GotoType ==
    ASSUME TypeOK, NEW t \in Tasks, NEW pc \in {"load", "refresh"}, Goto(t, pc)
    PROVE  task' \in [Tasks -> Tasking]
<1>1. task[t] \in Tasking
  BY DEF TypeOK
<1>2. [task[t] EXCEPT !.pc = pc] \in Tasking
  BY <1>1, SMT DEF Tasking
<1> QED
  BY <1>2, BecomeType DEF Goto

\* What the handlers assign to their task keeps the type of handlers.
LEMMA DatedType ==
    ASSUME NEW k \in Tasking, NEW until \in Deadlines
    PROVE  [k EXCEPT !.pc = "load", !.until = until] \in Tasking
BY DEF Tasking

LEMMA LoadedType ==
    ASSUME NEW k \in Tasking, NEW held \in SUBSET Sessions
    PROVE  [k EXCEPT !.pc = "write", !.held = held] \in Tasking
BY DEF Tasking, Sessions

LEMMA InsertedType ==
    ASSUME NEW k \in Tasking, NEW code \in Codes, NEW held \in SUBSET Sessions
    PROVE  [k EXCEPT !.pc = "refresh", !.code = code, !.held = held] \in Tasking
BY DEF Tasking, Sessions

\* The histories have their type after every step.
LEMMA ObserveType ==
    ASSUME TypeOK, Observe
    PROVE  seen' \in [Tasks -> SUBSET {"effect", "absent"}]
<1>1. \A t \in Tasks : Facts(t)' \subseteq {"effect", "absent"}
  BY SMT DEF Facts
<1>2. \A t \in Tasks : Witnessed(t) \subseteq {"effect", "absent"}
  BY <1>1 DEF Witnessed, TypeOK
<1> QED
  BY <1>2, SMT DEF Observe, TypeOK

-----------------------------------------------------------------------------
(* One lemma per action: the table, the sequence and the tasks keep their  *)
(* types.                                                                  *)

Typed ==
    /\ content' \in [DOMAIN content' -> Rows]
    /\ DOMAIN content' \subseteq Ids
    /\ lastId' \in 0..MaxId
    /\ now' \in 0..MaxTime
    /\ task' \in [Tasks -> Tasking]

LEMMA StartType == ASSUME TypeOK, NEW t \in Tasks, Start(t) PROVE Typed
<1>1. ASSUME NEW op \in Mutations \cup {"delete"}, NEW code \in Codes \cup {Malformed},
             NEW days \in DayChoices, StartMutation(t, op, code, days)
      PROVE  Typed
  <2>1. Handler(IF op = "delete" THEN "load" ELSE "resolve", op, code,
                task[t].source, days, "none") \in Tasking
    <3>1. task[t].source \in Sources
      BY DEF TypeOK, Tasking
    <3>2. op \in Ops /\ "none" \in Replies
      BY DEF Ops, Replies, Mutations
    <3> QED
      BY <3>1, <3>2, HandlerType
  <2> QED
    BY <1>1, <2>1, BecomeType DEF TypeOK, Typed, StartMutation, Database
<1>2. ASSUME NEW source \in Sources, StartUpload(t, source) PROVE Typed
  <2>1. Handler("insert", "upload", Malformed, source, {}, "none") \in Tasking
    BY HandlerType DEF Ops, Replies, DayChoices
  <2> QED
    BY <1>2, <2>1, BecomeType DEF TypeOK, Typed, StartUpload, Database
<1> QED
  BY <1>1, <1>2 DEF Start, Mutations, DayChoices

LEMMA ResolveType ==
    ASSUME TypeOK, NEW t \in Tasks, Resolve(t) \/ RejectMalformed(t) PROVE Typed
<1>1. ASSUME NEW d \in task[t].days, d >= 1, now + d <= MaxDate,
             Become(t, [task[t] EXCEPT !.pc = "load", !.until = {now + d}])
      PROVE  task' \in [Tasks -> Tasking]
  <2>1. d \in Int /\ now \in Nat
    BY InputAssumption, TimeAssumption, SMT DEF TypeOK, Tasking, DayChoices
  <2>2. {now + d} \in Deadlines
    BY <1>1, <2>1, TimeAssumption, SMT DEF Deadlines
  <2>3. [task[t] EXCEPT !.pc = "load", !.until = {now + d}] \in Tasking
    <3>1. task[t] \in Tasking
      BY DEF TypeOK
    <3> QED
      BY <2>2, <3>1, DatedType
  <2> QED
    BY <1>1, <2>3, BecomeType
<1>2. {"invalid", "not_found", "already", "bad_value", "error"} \subseteq Replies
  BY DEF Replies
<1>3. task' \in [Tasks -> Tasking]
  BY <1>1, <1>2, FinishType, GotoType DEF Resolve, Representable, RejectMalformed
<1> QED
  BY <1>3 DEF TypeOK, Typed, Resolve, RejectMalformed, Database

LEMMA LoadType == ASSUME TypeOK, NEW t \in Tasks, Load(t) PROVE Typed
<1>1. CASE RowsOf(task[t].code) = {}
  BY <1>1, FinishType DEF Load, TypeOK, Typed, Database, Replies
<1>2. CASE RowsOf(task[t].code) # {}
  <2>1. Select(task[t].code) \in SUBSET Sessions
    BY SelectType
  <2>2. [task[t] EXCEPT !.pc = "write", !.held = Select(task[t].code)] \in Tasking
    <3>1. task[t] \in Tasking
      BY DEF TypeOK
    <3> QED
      BY <2>1, <3>1, LoadedType
  <2>3. task' \in [Tasks -> Tasking]
    BY <1>2, <2>2, BecomeType DEF Load
  <2> QED
    BY <2>3 DEF Load, TypeOK, Typed, Database
<1> QED
  BY <1>1, <1>2

LEMMA UpdatedType ==
    ASSUME NEW k \in Tasking, k.op \in Mutations, NEW loaded, NEW stored \in Rows
    PROVE  /\ Updated(k, loaded, stored) \in Rows
           /\ Updated(k, loaded, stored).code = stored.code
<1>1. k.until \in Deadlines
  BY DEF Tasking
<1>2. CASE k.op = "activate"
  BY <1>2, SMT DEF Updated, Rows, States
<1>3. CASE k.op = "deactivate"
  BY <1>3, SMT DEF Updated, Rows, States
<1>4. CASE k.op = "expire"
  BY <1>1, <1>4, SMT DEF Updated, Rows
<1> QED
  BY <1>2, <1>3, <1>4 DEF Mutations

LEMMA UpdateType == ASSUME TypeOK, NEW t \in Tasks, CommitUpdate(t) PROVE Typed
<1>1. task' \in [Tasks -> Tasking]
  BY FinishType, GotoType DEF CommitUpdate, StaleUpdate, Replies
<1>2. /\ content' \in [DOMAIN content' -> Rows]
      /\ DOMAIN content' \subseteq Ids
  <2>1. CASE UNCHANGED content
    BY <2>1 DEF TypeOK
  <2>2. ASSUME NEW session \in task[t].held, session.id \in DOMAIN content,
               content' = [content EXCEPT ![session.id] =
                             Updated(task[t], session.row, @)]
        PROVE  /\ content' \in [DOMAIN content' -> Rows]
               /\ DOMAIN content' \subseteq Ids
    <3>1. Updated(task[t], session.row, content[session.id]) \in Rows
      BY <2>2, UpdatedType DEF TypeOK, CommitUpdate
    <3> QED
      BY <2>2, <3>1 DEF TypeOK
  <2> QED
    BY <2>1, <2>2 DEF CommitUpdate, Matches
<1> QED
  BY <1>1, <1>2 DEF TypeOK, Typed, CommitUpdate

LEMMA DeleteType == ASSUME TypeOK, NEW t \in Tasks, CommitDelete(t) PROVE Typed
<1>1. task' \in [Tasks -> Tasking]
  BY FinishType DEF CommitDelete, Replies
<1> QED
  BY <1>1 DEF TypeOK, Typed, CommitDelete

LEMMA InsertType == ASSUME TypeOK, NEW t \in Tasks, CommitInsert(t) PROVE Typed
<1>1. ASSUME NEW code \in Codes, UNCHANGED Database, UNCHANGED now,
             IF task[t].tries + 1 = MaxAttempts THEN Finish(t, "error")
             ELSE Become(t, NextRound(task[t]))
      PROVE  Typed
  <2>1. CASE task[t].tries + 1 = MaxAttempts
    BY <1>1, <2>1, FinishType DEF TypeOK, Typed, Database, Replies
  <2>2. CASE task[t].tries + 1 # MaxAttempts
    <3>1. NextRound(task[t]) \in Tasking
      <4>1. task[t] \in Tasking
        BY DEF TypeOK
      <4> QED
        BY <2>2, <4>1, InputAssumption, SMT DEF Tasking, NextRound
    <3> QED
      BY <1>1, <2>2, <3>1, BecomeType DEF TypeOK, Typed, Database
  <2> QED
    BY <2>1, <2>2
<1>2. ASSUME NEW code \in Codes, NEW id \in Ids, NEW row,
             row = [code |-> code, source |-> task[t].source,
                    state |-> "active", expires |-> {}],
             content' = [i \in DOMAIN content \cup {id} |->
                           IF i = id THEN row ELSE content[i]],
             lastId' = (IF RowidReuse THEN lastId ELSE id),
             Become(t, [task[t] EXCEPT !.pc = "refresh", !.code = code,
                                       !.held = {[id |-> id, row |-> row]}]),
             UNCHANGED now
      PROVE  Typed
  <2>1. row \in Rows
    BY <1>2, SMT DEF TypeOK, Tasking, Rows, States, Deadlines
  <2>2. task' \in [Tasks -> Tasking]
    <3>1. task[t] \in Tasking
      BY DEF TypeOK
    <3>2. {[id |-> id, row |-> row]} \in SUBSET Sessions
      BY <2>1 DEF Sessions
    <3>3. [task[t] EXCEPT !.pc = "refresh", !.code = code,
                          !.held = {[id |-> id, row |-> row]}] \in Tasking
      BY <3>1, <3>2, InsertedType
    <3> QED
      BY <1>2, <3>3, BecomeType
  <2>3. /\ content' \in [DOMAIN content' -> Rows]
        /\ DOMAIN content' \subseteq Ids
    BY <1>2, <2>1 DEF TypeOK
  <2>4. lastId' \in 0..MaxId
    BY <1>2, InputAssumption, SMT DEF TypeOK, Ids
  <2> QED
    BY <1>2, <2>2, <2>3, <2>4 DEF TypeOK, Typed
<1> QED
  BY <1>1, <1>2 DEF CommitInsert

LEMMA RefreshType == ASSUME TypeOK, NEW t \in Tasks, Refresh(t) PROVE Typed
<1>1. CASE Finish(t, "error")
  BY <1>1, FinishType DEF Refresh, TypeOK, Typed, Database, Replies
<1>2. ASSUME NEW session \in task[t].held, session.id \in DOMAIN content,
             Become(t, Handler("done", task[t].op, content[session.id].code,
                               task[t].source, {}, "ok"))
      PROVE  Typed
  <2>1. Handler("done", task[t].op, content[session.id].code, task[t].source, {}, "ok")
           \in Tasking
    <3>1. content[session.id].code \in Codes
      BY <1>2 DEF TypeOK, Rows
    <3>2. task[t].op \in Ops /\ task[t].source \in Sources
      BY DEF TypeOK, Tasking
    <3> QED
      BY <3>1, <3>2, HandlerType DEF DayChoices, Replies
  <2> QED
    BY <1>2, <2>1, BecomeType DEF Refresh, TypeOK, Typed, Database
<1> QED
  BY <1>1, <1>2 DEF Refresh

\* Type correctness, for every interleaving of any number of handler tasks:
\* deadlines stay within what a datetime can hold, ids within those handed out.
THEOREM TypeCorrect == Spec => []TypeOK
<1>1. Init => TypeOK
  <2> SUFFICES ASSUME Init PROVE TypeOK
    OBVIOUS
  <2>1. \A s \in Sources : Handler("idle", "delete", Malformed, s, {}, "none") \in Tasking
    BY HandlerType DEF Ops, Replies, DayChoices
  <2> QED
    BY <2>1, InputAssumption, TimeAssumption, SMT DEF Init, TypeOK
<1>2. ASSUME TypeOK, [Next]_vars PROVE TypeOK'
  <2>1. CASE UNCHANGED vars
    BY <1>2, <2>1 DEF vars, TypeOK
  <2>2. ASSUME Step PROVE Typed
    <3>1. CASE Tick
      BY <1>2, <3>1, TimeAssumption, SMT DEF Tick, TypeOK, Typed, Database
    <3>2. ASSUME NEW t \in Tasks, Fault(t) PROVE Typed
      BY <1>2, <3>2, FinishType DEF Fault, TypeOK, Typed, Database, Replies
    <3> QED
      BY <1>2, <2>2, <3>1, <3>2, StartType, ResolveType, LoadType, UpdateType,
         DeleteType, InsertType, RefreshType DEF Step, Work
  <2>3. CASE Next
    BY <1>2, <2>2, <2>3, ObserveType DEF Next, Typed, TypeOK
  <2> QED
    BY <1>2, <2>1, <2>3
<1> QED
  BY <1>1, <1>2, PTL DEF Spec

-----------------------------------------------------------------------------

\* Why a write by primary key hits the content that was asked for: the table
\* and the sessions hold only ids the sequence has given, and a row still
\* there under the id of a session still has that session's code.
AddressedAt(t, session) ==
    /\ session.id <= lastId
    /\ session.id \in DOMAIN content => content[session.id].code = task[t].code

Addressed ==
    /\ \A id \in DOMAIN content : id <= lastId
    /\ \A t \in Tasks : \A session \in task[t].held : AddressedAt(t, session)

\* What a step does to the tasks: each keeps its session and code, or drops
\* its session, or holds the row it has just read or inserted.
HeldKept(t) == task'[t].held = task[t].held /\ task'[t].code = task[t].code

LEMMA BecomeHeld ==
    ASSUME TypeOK, NEW t \in Tasks
    PROVE  \A k : Become(t, k) =>
              task'[t] = k /\ \A u \in Tasks \ {t} : task'[u] = task[u]
BY DEF TypeOK, Become

LEMMA FinishHeld ==
    ASSUME TypeOK, NEW t \in Tasks, NEW reply, Finish(t, reply)
    PROVE  task'[t].held = {} /\ \A u \in Tasks \ {t} : task'[u] = task[u]
BY BecomeHeld DEF Finish, Ended, Handler

LEMMA GotoHeld ==
    ASSUME TypeOK, NEW t \in Tasks, NEW pc, Goto(t, pc)
    PROVE  HeldKept(t) /\ \A u \in Tasks \ {t} : task'[u] = task[u]
<1>1. task[t] \in Tasking
  BY DEF TypeOK
<1>2. \A k \in Tasking : [k EXCEPT !.pc = pc].held = k.held
                         /\ [k EXCEPT !.pc = pc].code = k.code
  BY DEF Tasking
<1>3. /\ task'[t] = [task[t] EXCEPT !.pc = pc]
      /\ \A u \in Tasks \ {t} : task'[u] = task[u]
  BY BecomeHeld DEF Goto
<1> QED
  BY <1>1, <1>2, <1>3 DEF HeldKept

\* Sessions stay addressed over a step that gives no id, keeps the code of
\* every row and keeps or drops the sessions.
LEMMA AddressedKept ==
    ASSUME TypeOK, Addressed, lastId' = lastId,
           DOMAIN content' \subseteq DOMAIN content,
           \A id \in DOMAIN content' : content'[id].code = content[id].code,
           \A t \in Tasks : HeldKept(t) \/ task'[t].held = {}
    PROVE  Addressed'
BY DEF Addressed, AddressedAt, HeldKept

\* A new row's id is above every id given before, so no session holds it.
LEMMA InsertAddressed ==
    ASSUME TypeOK, Addressed, RowidReuse = FALSE,
           NEW t \in Tasks, CommitInsert(t)
    PROVE  /\ Addressed'
           /\ \A id \in DOMAIN content : id \in DOMAIN content' /\ content'[id] = content[id]
<1>1. CASE UNCHANGED Database
  <2>1. \A u \in Tasks : HeldKept(u) \/ task'[u].held = {}
    <3>1. CASE Finish(t, "error")
      BY <3>1, FinishHeld DEF HeldKept
    <3>2. CASE Become(t, NextRound(task[t]))
      <4>1. NextRound(task[t]).held = task[t].held /\ NextRound(task[t]).code = task[t].code
        <5>1. task[t] \in Tasking
          BY DEF TypeOK
        <5>2. \A k \in Tasking : NextRound(k).held = k.held /\ NextRound(k).code = k.code
          BY DEF Tasking, NextRound
        <5> QED
          BY <5>1, <5>2
      <4> QED
        BY <3>2, <4>1, BecomeHeld DEF HeldKept
    <3>3. CASE ~Finish(t, "error") /\ ~Become(t, NextRound(task[t]))
      <4>1. PICK id \in Ids : IsNextId(id) /\ lastId' = id
        BY <3>3 DEF CommitInsert
      <4>2. lastId' = lastId + 1 /\ lastId' = lastId
        BY <1>1, <4>1 DEF IsNextId, Database
      <4> QED
        BY <4>2, InputAssumption, SMT DEF TypeOK
    <3> QED
      BY <3>1, <3>2, <3>3
  <2> QED
    BY <1>1, <2>1, AddressedKept DEF Database
<1>2. ASSUME NEW code \in Codes, NEW id \in Ids, NEW row,
             row = [code |-> code, source |-> task[t].source,
                    state |-> "active", expires |-> {}],
             IsNextId(id), lastId' = (IF RowidReuse THEN lastId ELSE id),
             content' = [i \in DOMAIN content \cup {id} |->
                           IF i = id THEN row ELSE content[i]],
             Become(t, [task[t] EXCEPT !.pc = "refresh", !.code = code,
                                       !.held = {[id |-> id, row |-> row]}])
      PROVE  /\ Addressed'
             /\ \A i \in DOMAIN content : i \in DOMAIN content' /\ content'[i] = content[i]
  <2>1. lastId \in Int /\ id = lastId + 1 /\ DOMAIN content \subseteq Int
    BY <1>2, InputAssumption, SMT DEF TypeOK, IsNextId, Ids
  <2>0. lastId' = id /\ row.code = code
    BY <1>2
  <2>2. id \notin DOMAIN content
    BY <2>1, SMT DEF Addressed
  <2>3. \A i \in DOMAIN content' : i <= lastId'
    BY <1>2, <2>0, <2>1, SMT DEF Addressed
  <2>4. /\ task'[t].held = {[id |-> id, row |-> row]} /\ task'[t].code = code
        /\ \A u \in Tasks \ {t} : task'[u] = task[u]
    <3>1. task[t] \in Tasking
      BY DEF TypeOK
    <3>2. \A held : \A k \in Tasking :
             /\ [k EXCEPT !.pc = "refresh", !.code = code, !.held = held].held = held
             /\ [k EXCEPT !.pc = "refresh", !.code = code, !.held = held].code = code
      BY DEF Tasking
    <3>3. /\ task'[t] = [task[t] EXCEPT !.pc = "refresh", !.code = code,
                                        !.held = {[id |-> id, row |-> row]}]
          /\ \A u \in Tasks \ {t} : task'[u] = task[u]
      BY <1>2, BecomeHeld
    <3> QED
      BY <3>1, <3>2, <3>3
  <2>5. \A session \in task'[t].held : AddressedAt(t, session)'
    BY <1>2, <2>0, <2>1, <2>4 DEF AddressedAt
  <2>6. ASSUME NEW u \in Tasks \ {t}, NEW session \in task'[u].held
        PROVE  AddressedAt(u, session)'
    <3>1. session \in task[u].held /\ task'[u].code = task[u].code
      BY <2>4, <2>6
    <3>2. session.id <= lastId /\ session.id \in Int
      <4>1. session \in [id : Ids, row : Rows]
        BY <3>1, SMT DEF TypeOK, Tasking
      <4> QED
        BY <3>1, <4>1, InputAssumption, SMT DEF Addressed, AddressedAt, Ids
    <3>3. session.id # id /\ session.id <= lastId'
      BY <2>0, <2>1, <3>2, SMT
    <3> QED
      BY <1>2, <3>1, <3>3 DEF Addressed, AddressedAt
  <2> QED
    BY <1>2, <2>2, <2>3, <2>5, <2>6 DEF Addressed
<1> QED
  BY <1>1, <1>2 DEF CommitInsert

\* A step that leaves the table alone adds no session but one of rows that
\* were just selected by the task's code.
LEMMA QuietAddressed ==
    ASSUME TypeOK, Addressed, UNCHANGED Database,
           \A t \in Tasks : \/ HeldKept(t) \/ task'[t].held = {}
                            \/ /\ task'[t].code = task[t].code
                               /\ task'[t].held \subseteq Select(task[t].code)
    PROVE  Addressed'
<1> SUFFICES ASSUME NEW t \in Tasks, task'[t].code = task[t].code,
                    NEW session \in Select(task[t].code)
             PROVE  AddressedAt(t, session)'
  BY DEF Addressed, AddressedAt, HeldKept, Database
<1>1. session.id \in DOMAIN content /\ content[session.id].code = task[t].code
  BY DEF Select, RowsOf
<1> QED
  BY <1>1 DEF Addressed, AddressedAt, Database

\* A handler that starts or ends holds no session.
LEMMA DroppedHeld ==
    ASSUME TypeOK, NEW t \in Tasks, NEW pc, NEW op, NEW code, NEW source, NEW days,
           NEW reply, Become(t, Handler(pc, op, code, source, days, reply))
    PROVE  \A u \in Tasks : HeldKept(u) \/ task'[u].held = {}
BY BecomeHeld DEF HeldKept, Handler

LEMMA FinishDrops ==
    ASSUME TypeOK, NEW t \in Tasks, NEW reply, Finish(t, reply)
    PROVE  \A u \in Tasks : HeldKept(u) \/ task'[u].held = {}
BY FinishHeld DEF HeldKept

LEMMA GotoKeeps ==
    ASSUME TypeOK, NEW t \in Tasks, NEW pc, Goto(t, pc)
    PROVE  \A u \in Tasks : HeldKept(u)
BY GotoHeld DEF HeldKept

LEMMA StartAddressed ==
    ASSUME TypeOK, Addressed, NEW t \in Tasks, Start(t) PROVE Addressed'
<1>1. ASSUME NEW op, NEW code, NEW days, StartMutation(t, op, code, days) PROVE Addressed'
  BY <1>1, DroppedHeld, QuietAddressed DEF StartMutation
<1>2. ASSUME NEW source, StartUpload(t, source) PROVE Addressed'
  BY <1>2, DroppedHeld, QuietAddressed DEF StartUpload
<1> QED
  BY <1>1, <1>2 DEF Start

LEMMA ResolveAddressed ==
    ASSUME TypeOK, Addressed, NEW t \in Tasks, Resolve(t) \/ RejectMalformed(t) \/ Fault(t)
    PROVE  Addressed'
<1>1. ASSUME NEW until, Become(t, [task[t] EXCEPT !.pc = "load", !.until = until])
      PROVE  \A u \in Tasks : HeldKept(u)
  <2>1. /\ task'[t] = [task[t] EXCEPT !.pc = "load", !.until = until]
        /\ \A u \in Tasks \ {t} : task'[u] = task[u]
    BY <1>1, BecomeHeld
  <2>2. task[t] \in Tasking
    BY DEF TypeOK
  <2>3. \A k \in Tasking :
           /\ [k EXCEPT !.pc = "load", !.until = until].held = k.held
           /\ [k EXCEPT !.pc = "load", !.until = until].code = k.code
    BY DEF Tasking
  <2> QED
    BY <2>1, <2>2, <2>3 DEF HeldKept
<1>2. \A u \in Tasks : HeldKept(u) \/ task'[u].held = {}
  BY <1>1, FinishDrops, GotoKeeps DEF Resolve, RejectMalformed, Fault
<1>3. UNCHANGED Database
  BY DEF Resolve, RejectMalformed, Fault
<1> QED
  BY <1>2, <1>3, QuietAddressed

LEMMA LoadAddressed ==
    ASSUME TypeOK, Addressed, NEW t \in Tasks, Load(t) PROVE Addressed'
<1>1. CASE Finish(t, "not_found")
  BY <1>1, FinishDrops, QuietAddressed DEF Load
<1>2. CASE Become(t, [task[t] EXCEPT !.pc = "write", !.held = Select(task[t].code)])
  <2>1. /\ task'[t] = [task[t] EXCEPT !.pc = "write", !.held = Select(task[t].code)]
        /\ \A u \in Tasks \ {t} : task'[u] = task[u]
    BY <1>2, BecomeHeld
  <2>2. task[t] \in Tasking
    BY DEF TypeOK
  <2>3. \A held : \A k \in Tasking :
           /\ [k EXCEPT !.pc = "write", !.held = held].held = held
           /\ [k EXCEPT !.pc = "write", !.held = held].code = k.code
    BY DEF Tasking
  <2>4. task'[t].held = Select(task[t].code) /\ task'[t].code = task[t].code
    BY <2>1, <2>2, <2>3
  <2> QED
    BY <2>1, <2>4, QuietAddressed DEF Load, HeldKept
<1> QED
  BY <1>1, <1>2 DEF Load

\* The commits and the refresh keep or drop the sessions, and no UPDATE
\* changes the code of a row.
LEMMA CommitAddressed ==
    ASSUME TypeOK, Addressed, NEW t \in Tasks,
           CommitUpdate(t) \/ CommitDelete(t) \/ Refresh(t)
    PROVE  Addressed'
<1>1. \A u \in Tasks : HeldKept(u) \/ task'[u].held = {}
  BY FinishDrops, GotoKeeps, DroppedHeld DEF CommitUpdate, StaleUpdate, CommitDelete, Refresh
<1>2. lastId' = lastId
  BY DEF CommitUpdate, CommitDelete, Refresh, Database
<1>3. /\ DOMAIN content' \subseteq DOMAIN content
      /\ \A id \in DOMAIN content' : content'[id].code = content[id].code
  <2>1. CASE UNCHANGED content
    BY <2>1
  <2>2. ASSUME NEW session, task[t].op \in Mutations, session.id \in DOMAIN content,
               content' = [content EXCEPT ![session.id] =
                             Updated(task[t], session.row, @)]
        PROVE  \A id \in DOMAIN content' : content'[id].code = content[id].code
    <3>1. Updated(task[t], session.row, content[session.id]).code
             = content[session.id].code
      BY <2>2, UpdatedType DEF TypeOK
    <3> QED
      BY <2>2, <3>1
  <2>3. CASE CommitUpdate(t)
    BY <2>1, <2>2, <2>3 DEF CommitUpdate, TypeOK
  <2>4. CASE CommitDelete(t)
    BY <2>4 DEF CommitDelete
  <2> QED
    BY <2>1, <2>3, <2>4 DEF Refresh, Database
<1> QED
  BY <1>1, <1>2, <1>3, AddressedKept

LEMMA StepAddressed ==
    ASSUME TypeOK, Addressed, RowidReuse = FALSE, Step PROVE Addressed'
<1>1. CASE Tick
  BY <1>1, QuietAddressed DEF Tick, HeldKept
<1> QED
  BY <1>1, StartAddressed, ResolveAddressed, LoadAddressed, CommitAddressed,
     InsertAddressed DEF Step, Work

\* What an UPDATE changes, under the name it was asked for.
LEMMA UpdateIsNamed ==
    ASSUME TypeOK, Addressed, NEW t \in Tasks, CommitUpdate(t) PROVE UpdateNamed
<1> SUFFICES ASSUME NEW id \in DOMAIN content \cap DOMAIN content',
                    content'[id] # content[id]
             PROVE  \E u \in Tasks :
                       /\ NamedBy(u, id)
                       /\ \/ /\ task[u].op = "expire"
                             /\ content'[id] = [content[id] EXCEPT !.expires = task[u].until]
                          \/ /\ task[u].op \in {"activate", "deactivate"}
                             /\ content'[id] = [content[id] EXCEPT !.state = content'[id].state]
  BY DEF UpdateNamed
<1>1. PICK session \in task[t].held :
         /\ session.id \in DOMAIN content
         /\ content' = [content EXCEPT ![session.id] = Updated(task[t], session.row, @)]
  BY DEF CommitUpdate
<1>2. session.id = id /\ content'[id] = Updated(task[t], session.row, content[id])
  BY <1>1 DEF TypeOK
<1>3. NamedBy(t, id)
  BY <1>1, <1>2 DEF NamedBy, Addressed, AddressedAt, CommitUpdate
<1>4. CASE task[t].op = "expire"
  BY <1>2, <1>3, <1>4 DEF Updated
<1>5. CASE task[t].op = "activate"
  <2>1. content'[id] = [content[id] EXCEPT !.state = "active"]
    BY <1>2, <1>5 DEF Updated
  <2>2. \A row \in Rows : [row EXCEPT !.state = "active"].state = "active"
    BY DEF Rows
  <2>3. content[id] \in Rows
    BY DEF TypeOK
  <2>4. content'[id].state = "active"
    BY <2>1, <2>2, <2>3
  <2> QED
    BY <1>3, <1>5, <2>1, <2>4
<1>6. CASE task[t].op = "deactivate"
  <2>1. content'[id] = [content[id] EXCEPT !.state = "inactive"]
    BY <1>2, <1>6 DEF Updated
  <2>2. \A row \in Rows : [row EXCEPT !.state = "inactive"].state = "inactive"
    BY DEF Rows
  <2>3. content[id] \in Rows
    BY DEF TypeOK
  <2>4. content'[id].state = "inactive"
    BY <2>1, <2>2, <2>3
  <2> QED
    BY <1>3, <1>6, <2>1, <2>4
<1> QED
  BY <1>4, <1>5, <1>6 DEF CommitUpdate, Mutations

\* Where primary keys are never handed out again, every write lands on the
\* content it was asked for, whatever was deleted and uploaded between the
\* SELECT of its session and its commit.
THEOREM WritesNamed ==
    ASSUME RowidReuse = FALSE
    PROVE  Spec => WritesAreNamed
<1>1. Init => Addressed
  BY DEF Init, Addressed, Handler
<1>2. ASSUME TypeOK, Addressed, [Next]_vars PROVE Addressed'
  <2>1. CASE UNCHANGED vars
    BY <1>2, <2>1 DEF vars, Addressed, AddressedAt
  <2> QED
    BY <1>2, <2>1, StepAddressed DEF Next
<1>3. ASSUME TypeOK, Addressed, [Next]_vars PROVE [RemovalNamed /\ UpdateNamed]_vars
  <2>1. CASE content' = content
    BY <2>1 DEF RemovalNamed, UpdateNamed
  <2>2. ASSUME NEW t \in Tasks, CommitUpdate(t) PROVE RemovalNamed /\ UpdateNamed
    <3>1. DOMAIN content' = DOMAIN content
      BY <1>3, <2>2 DEF CommitUpdate, TypeOK
    <3> QED
      BY <1>3, <2>2, <3>1, UpdateIsNamed DEF RemovalNamed
  <2>3. ASSUME NEW t \in Tasks, CommitDelete(t) PROVE RemovalNamed /\ UpdateNamed
    BY <1>3, <2>3 DEF CommitDelete, RemovalNamed, UpdateNamed, NamedBy, Addressed, AddressedAt
  <2>4. ASSUME NEW t \in Tasks, CommitInsert(t) PROVE RemovalNamed /\ UpdateNamed
    BY <1>3, <2>4, InsertAddressed DEF RemovalNamed, UpdateNamed
  <2>5. ASSUME NEW t \in Tasks,
               \/ Start(t) \/ Resolve(t) \/ RejectMalformed(t) \/ Load(t)
               \/ Refresh(t) \/ Fault(t)
        PROVE  content' = content
    BY <2>5 DEF Start, StartMutation, StartUpload, Resolve, RejectMalformed, Load,
                Refresh, Fault, Database
  <2>6. CASE Tick \/ UNCHANGED vars
    BY <2>1, <2>6 DEF Tick, Database, vars
  <2> QED
    BY <1>3, <2>1, <2>2, <2>3, <2>4, <2>5, <2>6 DEF Next, Step, Work
<1> QED
  BY <1>1, <1>2, <1>3, TypeCorrect, PTL DEF Spec, WritesAreNamed

=============================================================================
