-------------------- MODULE ContentManagementRefinement --------------------
(***************************************************************************)
(* ContentManagement implements ContentCatalog, for any number of tasks,   *)
(* codes, rows and days and both ways of handing out primary keys; and     *)
(* where no key is handed out twice, its answers are true.                 *)
(***************************************************************************)
EXTENDS ContentManagementProofs

\* The table as a map, for any table.
Entry(row) == [source |-> row.source, state |-> row.state, expires |-> row.expires]
Holders(table, code) == {id \in DOMAIN table : table[id].code = code}
CodesOf(table) == {table[id].code : id \in DOMAIN table}
MapOf(table) ==
    [code \in CodesOf(table) |-> Entry(table[CHOOSE id \in Holders(table, code) : TRUE])]

\* The unique index on content.code.
Unique(table) ==
    \A i, j \in DOMAIN table : table[i].code = table[j].code => i = j

LEMMA CatalogIsMap == Catalog = MapOf(content)
BY DEF Catalog, MapOf, CodesOf, Holders, RowsOf, Entry

LEMMA CatalogIsMapNext == Catalog' = MapOf(content')
BY DEF Catalog, MapOf, CodesOf, Holders, RowsOf, Entry

\* Under a unique index the entry of a code is that of its one row.
LEMMA EntryOf ==
    ASSUME NEW table, Unique(table), NEW id \in DOMAIN table
    PROVE  /\ table[id].code \in CodesOf(table)
           /\ MapOf(table)[table[id].code] = Entry(table[id])
<1> DEFINE code == table[id].code
<1>1. id \in Holders(table, code)
  BY DEF Holders
<1>2. (CHOOSE i \in Holders(table, code) : TRUE) \in Holders(table, code)
  BY <1>1
<1>3. (CHOOSE i \in Holders(table, code) : TRUE) = id
  BY <1>2 DEF Holders, Unique
<1>4. code \in CodesOf(table)
  BY DEF CodesOf
<1> QED
  BY <1>3, <1>4 DEF MapOf

\* Two tables are the same map when they hold the same codes, each with the
\* same entry.
LEMMA SameMap ==
    ASSUME NEW table, NEW other, CodesOf(table) = CodesOf(other),
           \A code \in CodesOf(table) : MapOf(table)[code] = MapOf(other)[code]
    PROVE  MapOf(table) = MapOf(other)
BY DEF MapOf

LEMMA Inserted ==
    ASSUME NEW table, Unique(table), NEW id, id \notin DOMAIN table,
           NEW row, row.code \notin CodesOf(table),
           NEW next, DOMAIN next = DOMAIN table \cup {id}, next[id] = row,
           \A i \in DOMAIN table : next[i] = table[i]
    PROVE  /\ Unique(next)
           /\ MapOf(next) = [c \in CodesOf(table) \cup {row.code} |->
                               IF c = row.code THEN Entry(row) ELSE MapOf(table)[c]]
<1>1. \A i \in DOMAIN table : next[i] = table[i] /\ i # id
  OBVIOUS
<1>2. \A i \in DOMAIN table : table[i].code # row.code
  BY DEF CodesOf
<1>3. Unique(next)
  BY <1>1, <1>2 DEF Unique
<1>4. CodesOf(next) = CodesOf(table) \cup {row.code}
  BY <1>1 DEF CodesOf
<1>5. MapOf(next)[row.code] = Entry(row)
  BY <1>1, <1>3, EntryOf
<1>6. ASSUME NEW c \in CodesOf(table) PROVE MapOf(next)[c] = MapOf(table)[c]
  <2>1. PICK i \in DOMAIN table : table[i].code = c
    BY DEF CodesOf
  <2> QED
    BY <1>1, <1>3, <2>1, EntryOf
<1>7. \A c \in CodesOf(next) :
        MapOf(next)[c] = IF c = row.code THEN Entry(row) ELSE MapOf(table)[c]
  BY <1>4, <1>5, <1>6
<1>8. MapOf(next) = [c \in CodesOf(next) |-> MapOf(next)[c]]
  BY DEF MapOf
<1> QED
  BY <1>3, <1>4, <1>7, <1>8

LEMMA Replaced ==
    ASSUME NEW table, Unique(table), NEW id \in DOMAIN table,
           NEW next, DOMAIN next = DOMAIN table,
           \A i \in DOMAIN table : i # id => next[i] = table[i],
           next[id].code = table[id].code
    PROVE  /\ Unique(next)
           /\ MapOf(next) = [MapOf(table) EXCEPT ![table[id].code] = Entry(next[id])]
<1> DEFINE code == table[id].code
<1>1. \A i \in DOMAIN table : next[i].code = table[i].code
  OBVIOUS
<1>2. Unique(next) /\ CodesOf(next) = CodesOf(table)
  BY <1>1 DEF Unique, CodesOf
<1>3. MapOf(next)[code] = Entry(next[id])
  BY <1>2, EntryOf
<1>4. ASSUME NEW c \in CodesOf(table), c # code
      PROVE  MapOf(next)[c] = MapOf(table)[c]
  <2>1. PICK i \in DOMAIN table : table[i].code = c
    BY DEF CodesOf
  <2>2. i # id /\ next[i] = table[i]
    BY <1>4, <2>1
  <2> QED
    BY <1>2, <2>1, <2>2, EntryOf
<1>5. MapOf(next) = [c \in CodesOf(table) |-> MapOf(next)[c]]
      /\ MapOf(table) = [c \in CodesOf(table) |-> MapOf(table)[c]]
  BY <1>2 DEF MapOf
<1>6. code \in CodesOf(table)
  BY DEF CodesOf
<1> HIDE DEF code
<1>7. [MapOf(table) EXCEPT ![code] = Entry(next[id])] =
        [c \in CodesOf(table) |-> IF c = code THEN Entry(next[id]) ELSE MapOf(table)[c]]
  BY <1>5, <1>6
<1>8. MapOf(next) = [MapOf(table) EXCEPT ![code] = Entry(next[id])]
  BY <1>3, <1>4, <1>5, <1>6, <1>7
<1> QED
  BY <1>2, <1>8 DEF code

LEMMA Removed ==
    ASSUME NEW table, Unique(table), NEW id \in DOMAIN table, NEW next,
           next = [i \in DOMAIN table \ {id} |-> table[i]]
    PROVE  /\ Unique(next)
           /\ MapOf(next) = [c \in CodesOf(table) \ {table[id].code} |-> MapOf(table)[c]]
<1>1. /\ DOMAIN next = DOMAIN table \ {id}
      /\ \A i \in DOMAIN next : next[i] = table[i]
  OBVIOUS
<1>2. Unique(next)
  BY <1>1 DEF Unique
<1>3. CodesOf(next) = CodesOf(table) \ {table[id].code}
  BY <1>1 DEF Unique, CodesOf
<1>4. ASSUME NEW c \in CodesOf(next) PROVE MapOf(next)[c] = MapOf(table)[c]
  <2>1. PICK i \in DOMAIN next : next[i].code = c
    BY DEF CodesOf
  <2>2. i \in DOMAIN table /\ table[i].code = c /\ table[i] = next[i]
    BY <1>1, <2>1
  <2> QED
    BY <1>2, <2>1, <2>2, EntryOf
<1>5. MapOf(next) = [c \in CodesOf(next) |-> MapOf(next)[c]]
  BY DEF MapOf
<1> QED
  BY <1>2, <1>3, <1>4, <1>5

-----------------------------------------------------------------------------
(* The invariant: codes are unique, new keys are not in use, and no        *)
(* deadline that is about to be stored has passed.                         *)

Given == RowidReuse \/ \A id \in DOMAIN content : id <= lastId
Later == \A t \in Tasks : \A deadline \in task[t].until : deadline > 0

Indexed == Unique(content) /\ Given /\ Later

\* What the abstract table does in a step of this one.
MapStep == Abstract!CatalogNext \/ UNCHANGED <<Catalog, now>>

LEMMA DomainOfMap == DOMAIN Catalog = CodesOf(content)
BY CatalogIsMap DEF MapOf

LEMMA UpdateRefines ==
    ASSUME TypeOK, Indexed, NEW t \in Tasks, CommitUpdate(t)
    PROVE  Unique(content') /\ MapStep
<1>1. CASE UNCHANGED content
  BY <1>1, CatalogIsMap, CatalogIsMapNext DEF Indexed, MapStep, CommitUpdate
<1>2. CASE ~ UNCHANGED content
  <2>1. PICK session \in task[t].held :
           /\ session.id \in DOMAIN content
           /\ content' = [content EXCEPT ![session.id] = Updated(task[t], session.row, @)]
    BY <1>2 DEF CommitUpdate, Matches
  <2> DEFINE id == session.id
             old == content[id]
             new == Updated(task[t], session.row, old)
  <2>2. old \in Rows /\ new \in Rows /\ new.code = old.code
    BY <2>1, UpdatedType DEF TypeOK, CommitUpdate
  <2>3. /\ DOMAIN content' = DOMAIN content /\ content'[id] = new
        /\ \A i \in DOMAIN content : i # id => content'[i] = content[i]
    BY <2>1 DEF TypeOK
  <2>4. /\ Unique(content')
        /\ MapOf(content') = [MapOf(content) EXCEPT ![old.code] = Entry(new)]
    <3>1. content'[id].code = content[id].code
      BY <2>2, <2>3
    <3>2. Unique(content) /\ id \in DOMAIN content
      BY <2>1 DEF Indexed
    <3>3. /\ Unique(content')
          /\ MapOf(content') = [MapOf(content) EXCEPT ![content[id].code]
                                                          = Entry(content'[id])]
      <4> HIDE DEF id, new
      <4> QED
        BY <2>3, <3>1, <3>2, Replaced
    <3> QED
      BY <2>3, <3>3
  <2>5. /\ old.code \in CodesOf(content) /\ old.code \in Codes
        /\ Catalog[old.code] = Entry(old) /\ now' = now
        /\ old.code \in DOMAIN Catalog
    BY <2>1, <2>2, EntryOf, CatalogIsMap, DomainOfMap DEF Indexed, Rows, CommitUpdate
  <2>6. Catalog' = [Catalog EXCEPT ![old.code] = Entry(new)]
    BY <2>4, CatalogIsMap, CatalogIsMapNext
  <2>7. ASSUME NEW state \in States, new = [old EXCEPT !.state = state]
        PROVE  Abstract!SetState(old.code, state)
    <3>1. Entry(new) = [Entry(old) EXCEPT !.state = state]
      BY <2>2, <2>7 DEF Entry, Rows
    <3> QED
      BY <2>5, <2>6, <3>1 DEF Abstract!SetState
  <2>8. ASSUME new = [old EXCEPT !.expires = task[t].until]
        PROVE  Abstract!SetExpiration(old.code, task[t].until)
    <3>1. Entry(new) = [Entry(old) EXCEPT !.expires = task[t].until]
      BY <2>2, <2>8 DEF Entry, Rows
    <3> QED
      BY <2>5, <2>6, <3>1 DEF Abstract!SetExpiration, Indexed, Later
  <2>9. task[t].until \in Deadlines /\ task[t].op \in Mutations
    BY DEF TypeOK, Tasking, CommitUpdate
  <2>10. \/ \E state \in States : new = [old EXCEPT !.state = state]
         \/ new = [old EXCEPT !.expires = task[t].until]
    BY <2>9 DEF Updated, Mutations, States
  <2> HIDE DEF id, old, new
  <2>11. Abstract!CatalogNext
    BY <2>5, <2>7, <2>8, <2>9, <2>10
       DEF Abstract!CatalogNext, Abstract!States, States, Abstract!Deadlines, Abstract!Dates,
           Deadlines
  <2> QED
    BY <2>4, <2>11 DEF MapStep
<1> QED
  BY <1>1, <1>2

LEMMA DeleteRefines ==
    ASSUME TypeOK, Indexed, NEW t \in Tasks, CommitDelete(t)
    PROVE  Unique(content') /\ MapStep
<1>1. PICK session \in task[t].held :
        content' = [id \in DOMAIN content \ {session.id} |-> content[id]]
  BY DEF CommitDelete
<1>2. CASE session.id \notin DOMAIN content
  <2>1. content' = content
    BY <1>1, <1>2 DEF TypeOK
  <2> QED
    BY <2>1, CatalogIsMap, CatalogIsMapNext DEF Indexed, MapStep, CommitDelete
<1>3. CASE session.id \in DOMAIN content
  <2> DEFINE code == content[session.id].code
  <2>1. /\ Unique(content')
        /\ MapOf(content') = [c \in CodesOf(content) \ {code} |-> MapOf(content)[c]]
    BY <1>1, <1>3, Removed DEF Indexed
  <2>2. code \in CodesOf(content) /\ code \in Codes
    BY <1>3, EntryOf DEF Indexed, TypeOK, Rows
  <2> HIDE DEF code
  <2>3. Abstract!Delete(code)
    BY <2>1, <2>2, CatalogIsMap, CatalogIsMapNext, DomainOfMap
       DEF Abstract!Delete, CommitDelete
  <2> QED
    BY <2>1, <2>2, <2>3 DEF MapStep, Abstract!CatalogNext
<1> QED
  BY <1>2, <1>3

\* A key the database gives is in use nowhere.
LEMMA FreshKey ==
    ASSUME TypeOK, Given, NEW id \in Ids, IsNextId(id)
    PROVE  id \notin DOMAIN content /\ (RowidReuse \/ \A i \in DOMAIN content : i <= id)
<1>1. DOMAIN content \subseteq Int /\ id \in Int /\ lastId \in Int
  BY InputAssumption, SMT DEF TypeOK, Ids
<1>2. CASE RowidReuse
  BY <1>1, <1>2, SMT DEF IsNextId, LargestPlusOne
<1>3. CASE ~RowidReuse
  BY <1>1, <1>3, SMT DEF IsNextId, Given
<1> QED
  BY <1>2, <1>3

LEMMA InsertRefines ==
    ASSUME TypeOK, Indexed, NEW t \in Tasks, CommitInsert(t)
    PROVE  Unique(content') /\ Given' /\ MapStep
<1>1. CASE UNCHANGED Database
  <2>1. UNCHANGED now
    BY DEF CommitInsert
  <2> QED
    BY <1>1, <2>1, CatalogIsMap, CatalogIsMapNext DEF Indexed, Given, MapStep, Database
<1>2. ASSUME NEW code \in Codes, RowsOf(code) = {}, NEW id \in Ids, IsNextId(id), NEW row,
             row = [code |-> code, source |-> task[t].source,
                    state |-> "active", expires |-> {}],
             content' = [i \in DOMAIN content \cup {id} |->
                           IF i = id THEN row ELSE content[i]],
             lastId' = (IF RowidReuse THEN lastId ELSE id),
             UNCHANGED now
      PROVE  Unique(content') /\ Given' /\ MapStep
  <2>1. id \notin DOMAIN content /\ (RowidReuse \/ \A i \in DOMAIN content : i <= id)
    BY <1>2, FreshKey DEF Indexed
  <2>2. row.code = code /\ code \notin CodesOf(content)
    BY <1>2 DEF RowsOf, CodesOf
  <2>3. /\ Unique(content')
        /\ MapOf(content') = [c \in CodesOf(content) \cup {code} |->
                                IF c = code THEN Entry(row) ELSE MapOf(content)[c]]
    <3>1. /\ DOMAIN content' = DOMAIN content \cup {id} /\ content'[id] = row
          /\ \A i \in DOMAIN content : content'[i] = content[i]
      BY <1>2, <2>1
    <3> QED
      BY <2>1, <2>2, <3>1, Inserted DEF Indexed
  <2>4. Entry(row) = [source |-> task[t].source, state |-> "active", expires |-> {}]
    BY <1>2 DEF Entry
  <2>5. task[t].source \in Sources
    BY DEF TypeOK, Tasking
  <2>6. Abstract!Create(code, task[t].source)
    BY <1>2, <2>2, <2>3, <2>4, CatalogIsMap, CatalogIsMapNext, DomainOfMap
       DEF Abstract!Create
  <2>7. Given'
    <3>1. id <= id
      BY InputAssumption, SMT DEF Ids
    <3> QED
      BY <1>2, <2>1, <3>1 DEF Given
  <2> QED
    BY <2>3, <2>5, <2>6, <2>7 DEF MapStep, Abstract!CatalogNext
<1>3. CASE ~ UNCHANGED Database
  <2>1. PICK code \in Codes, id \in Ids :
          LET row == [code |-> code, source |-> task[t].source,
                      state |-> "active", expires |-> {}] IN
          /\ RowsOf(code) = {}
          /\ IsNextId(id)
          /\ content' = [i \in DOMAIN content \cup {id} |->
                           IF i = id THEN row ELSE content[i]]
          /\ lastId' = IF RowidReuse THEN lastId ELSE id
    BY <1>3 DEF CommitInsert
  <2>2. UNCHANGED now
    BY DEF CommitInsert
  <2> QED
    BY <1>2, <2>1, <2>2
<1> QED
  BY <1>1, <1>3

\* The other steps leave the table and the clock alone, but for the clock's.
LEMMA QuietRefines ==
    ASSUME Indexed, UNCHANGED <<Database, now>>
    PROVE  Unique(content') /\ Given' /\ MapStep
BY CatalogIsMap, CatalogIsMapNext DEF Indexed, Given, MapStep, Database

LEMMA StepRefines ==
    ASSUME TypeOK, Indexed, Step PROVE Unique(content') /\ Given' /\ MapStep
<1>1. CASE Tick
  <2>1. UNCHANGED Catalog
    BY <1>1, CatalogIsMap, CatalogIsMapNext DEF Tick, Database
  <2>2. Abstract!Tick
    BY <1>1, <2>1 DEF Tick, Abstract!Tick
  <2> QED
    BY <1>1, <2>2 DEF Tick, Database, Indexed, Given, MapStep, Abstract!CatalogNext
<1>2. ASSUME NEW t \in Tasks,
             \/ Start(t) \/ RejectMalformed(t) \/ Resolve(t) \/ Load(t)
             \/ Refresh(t) \/ Fault(t)
      PROVE  UNCHANGED <<Database, now>>
  BY <1>2 DEF Start, StartMutation, StartUpload, RejectMalformed, Resolve, Load,
              Refresh, Fault
<1>3. ASSUME NEW t \in Tasks, CommitUpdate(t) \/ CommitDelete(t)
      PROVE  Given'
  <2>1. UNCHANGED lastId /\ DOMAIN content' \subseteq DOMAIN content
    BY <1>3 DEF CommitUpdate, CommitDelete, TypeOK
  <2> QED
    BY <2>1 DEF Indexed, Given
<1> QED
  BY <1>1, <1>2, <1>3, QuietRefines, UpdateRefines, DeleteRefines, InsertRefines
     DEF Step, Work

\* A deadline a handler is about to store is its own, or it has just made it.
LEMMA LaterKept ==
    ASSUME TypeOK, Later, Step PROVE Later'
<1>1. CASE Tick
  BY <1>1 DEF Tick, Later
<1>2. ASSUME NEW t \in Tasks, NEW k, Become(t, k), \A deadline \in k.until : deadline > 0
      PROVE  Later'
  BY <1>2, BecomeHeld DEF Later
<1>3. ASSUME NEW t \in Tasks, NEW pc, NEW op, NEW code, NEW source, NEW days, NEW reply,
             Become(t, Handler(pc, op, code, source, days, reply))
      PROVE  Later'
  BY <1>2, <1>3 DEF Handler
<1>4. ASSUME NEW t \in Tasks, NEW reply, Finish(t, reply) PROVE Later'
  BY <1>3, <1>4 DEF Finish, Ended
<1>5. ASSUME NEW t \in Tasks PROVE task[t] \in Tasking
  BY DEF TypeOK
<1>6. ASSUME NEW k \in Tasking
      PROVE  /\ \A pc : [k EXCEPT !.pc = pc].until = k.until
             /\ \A held : [k EXCEPT !.pc = "write", !.held = held].until = k.until
             /\ \A code, held :
                    [k EXCEPT !.pc = "refresh", !.code = code, !.held = held].until = k.until
             /\ \A until : [k EXCEPT !.pc = "load", !.until = until].until = until
             /\ NextRound(k).until = k.until
  BY DEF Tasking, NextRound
<1>7. ASSUME NEW t \in Tasks, NEW pc, Goto(t, pc) PROVE Later'
  <2>1. [task[t] EXCEPT !.pc = pc].until = task[t].until
    BY <1>5, <1>6
  <2> QED
    BY <1>2, <1>7, <2>1 DEF Goto, Later
<1>8. ASSUME NEW t \in Tasks, Start(t) PROVE Later'
  BY <1>3, <1>8 DEF Start, StartMutation, StartUpload
<1>9. ASSUME NEW t \in Tasks, Resolve(t) PROVE Later'
  <2>1. ASSUME NEW d \in task[t].days, d >= 1,
               Become(t, [task[t] EXCEPT !.pc = "load", !.until = {now + d}])
        PROVE  Later'
    <3>1. now + d > 0
      <4>1. d \in Int /\ now \in Nat
        BY InputAssumption, TimeAssumption, SMT DEF TypeOK, Tasking, DayChoices
      <4> QED
        BY <2>1, <4>1
    <3>2. \A deadline \in {now + d} : deadline > 0
      BY <3>1
    <3>3. [task[t] EXCEPT !.pc = "load", !.until = {now + d}].until = {now + d}
      BY <1>5, <1>6
    <3> QED
      BY <1>2, <2>1, <3>2, <3>3
  <2> QED
    BY <1>4, <1>7, <1>9, <2>1 DEF Resolve
<1>10. ASSUME NEW t \in Tasks, Load(t) PROVE Later'
  <2>1. CASE Become(t, [task[t] EXCEPT !.pc = "write", !.held = Select(task[t].code)])
    <3>1. [task[t] EXCEPT !.pc = "write", !.held = Select(task[t].code)].until
             = task[t].until
      BY <1>5, <1>6
    <3> QED
      BY <1>2, <2>1, <3>1 DEF Later
  <2> QED
    BY <1>4, <1>10, <2>1 DEF Load
<1>11. ASSUME NEW t \in Tasks, CommitInsert(t) PROVE Later'
  <2>1. CASE Become(t, NextRound(task[t]))
    BY <1>2, <1>5, <1>6, <2>1 DEF Later
  <2>2. ASSUME NEW code, NEW held,
               Become(t, [task[t] EXCEPT !.pc = "refresh", !.code = code, !.held = held])
        PROVE  Later'
    <3>1. [task[t] EXCEPT !.pc = "refresh", !.code = code, !.held = held].until
             = task[t].until
      BY <1>5, <1>6
    <3> QED
      BY <1>2, <2>2, <3>1 DEF Later
  <2> QED
    BY <1>4, <1>11, <2>1, <2>2 DEF CommitInsert
<1>12. ASSUME NEW t \in Tasks,
              \/ CommitUpdate(t) \/ CommitDelete(t) \/ Refresh(t)
              \/ RejectMalformed(t) \/ Fault(t)
       PROVE  Later'
  BY <1>3, <1>4, <1>7, <1>12
     DEF CommitUpdate, StaleUpdate, CommitDelete, Refresh, RejectMalformed, Fault
<1> QED
  BY <1>1, <1>8, <1>9, <1>10, <1>11, <1>12 DEF Step, Work

LEMMA InitIndexed == Init => Indexed /\ Abstract!CatalogInit
<1> SUFFICES ASSUME Init PROVE Indexed /\ Abstract!CatalogInit
  OBVIOUS
<1>1. DOMAIN content = {} /\ now = 0
  BY DEF Init
<1>2. Later
  BY DEF Init, Later, Handler
<1>3. Catalog = [code \in {} |-> {}]
  BY <1>1 DEF Catalog
<1> QED
  BY <1>1, <1>2, <1>3 DEF Indexed, Unique, Given, Abstract!CatalogInit

LEMMA NextIndexed ==
    ASSUME TypeOK, Indexed, [Next]_vars PROVE Indexed' /\ MapStep
<1>1. CASE UNCHANGED vars
  BY <1>1, CatalogIsMap, CatalogIsMapNext DEF vars, Indexed, Given, Later, MapStep
<1>2. CASE Next
  BY <1>2, StepRefines, LaterKept DEF Next, Indexed
<1> QED
  BY <1>1, <1>2

LEMMA AlwaysIndexed == Spec => []Indexed
BY InitIndexed, NextIndexed, TypeCorrect, PTL DEF Spec

\* The sessions and the primary keys implement the map from codes: whatever
\* the interleaving and the keys that come back, a step of this program is one
\* step of ContentCatalog, or none.
THEOREM CatalogImplemented == Spec => ImplementsCatalog
<1>1. ASSUME TypeOK, Indexed, [Next]_vars
      PROVE  [Abstract!CatalogNext]_(Abstract!catalogVars)
  BY <1>1, NextIndexed DEF MapStep, Abstract!catalogVars
<1> QED
  BY AlwaysIndexed, <1>1, InitIndexed, TypeCorrect, PTL
     DEF Spec, ImplementsCatalog, Abstract!CatalogSpec

-----------------------------------------------------------------------------
(* Answers.  What a running operation has already witnessed: a session     *)
(* with nothing to change found the content as it was asked to be, one     *)
(* whose row is gone saw it go, and one that has committed saw its change. *)

Truth(t) ==
    /\ Running(task[t]) => task[t].reply = "none"
    /\ task[t].pc = "insert" => task[t].op = "upload"
    /\ task[t].pc = "write" => \A session \in task[t].held :
          (\/ task[t].op \in Mutations /\ ~Dirty(task[t], session.row)
           \/ task[t].op = "delete" /\ session.id \notin DOMAIN content)
             => "effect" \in seen[t]
    /\ task[t].pc = "refresh" => "effect" \in seen[t]
    /\ task[t].reply \in {"ok", "already"} => "effect" \in seen[t]
    /\ task[t].reply = "not_found" => "absent" \in seen[t]

LEMMA Witness ==
    ASSUME TypeOK, Observe, NEW t \in Tasks
    PROVE  /\ Effect(task[t])' => "effect" \in Witnessed(t)
           /\ RowsOf(task[t].code)' = {} => "absent" \in Witnessed(t)
           /\ Running(task[t]) => seen[t] \subseteq Witnessed(t)
           /\ Running(task[t])' => seen'[t] = Witnessed(t)
           /\ (~Running(task[t]) /\ task'[t] = task[t]) => seen'[t] = seen[t]
           /\ (Running(task[t]) /\ ~Running(task[t])') =>
                 seen'[t] = Witnessed(t) \cap Evidence(task'[t])
<1>1. /\ Effect(task[t])' => "effect" \in Witnessed(t)
      /\ RowsOf(task[t].code)' = {} => "absent" \in Witnessed(t)
      /\ Running(task[t]) => seen[t] \subseteq Witnessed(t)
  BY DEF Witnessed, Facts
<1>2. seen'[t] = IF task'[t] = task[t] /\ ~Running(task[t]) THEN seen[t]
                 ELSE IF Running(task'[t]) THEN Witnessed(t)
                 ELSE Witnessed(t) \cap Evidence(task'[t])
  BY DEF Observe
<1>3. Running(task[t])' = Running(task'[t])
  BY DEF Running
<1> QED
  BY <1>1, <1>2, <1>3

\* A handler that ends without a claim about a content claims nothing false.
LEMMA SilentTruth ==
    ASSUME NEW t \in Tasks, task'[t].pc \in {"idle", "done", "resolve", "load"},
           task'[t].reply \in Replies \ Claims,
           task'[t].pc \in {"resolve", "load"} => task'[t].reply = "none"
    PROVE  Truth(t)'
BY DEF Truth, Running, Claims

LEMMA FinishTruth ==
    ASSUME TypeOK, NEW t \in Tasks, NEW reply \in Replies \ Claims, Finish(t, reply)
    PROVE  Truth(t)'
<1>1. task'[t] = Ended(task[t], reply)
  BY BecomeHeld DEF Finish
<1>2. task'[t].pc = "done" /\ task'[t].reply = reply
  BY <1>1 DEF Ended, Handler
<1> QED
  BY <1>2, SilentTruth

\* A handler that goes on without a commit or a SELECT of its own session.
LEMMA GotoTruth ==
    ASSUME TypeOK, NEW t \in Tasks, Truth(t), Running(task[t]),
           NEW pc \in {"load", "refresh"}, Goto(t, pc), Observe,
           pc = "refresh" => "effect" \in Witnessed(t)
    PROVE  Truth(t)'
<1>1. task[t] \in Tasking /\ task[t].reply = "none"
  BY DEF TypeOK, Truth
<1>2. task'[t] = [task[t] EXCEPT !.pc = pc]
  BY BecomeHeld DEF Goto
<1>3. \A k \in Tasking : [k EXCEPT !.pc = pc].pc = pc /\ [k EXCEPT !.pc = pc].reply = k.reply
  BY DEF Tasking
<1>4. task'[t].pc = pc /\ task'[t].reply = "none"
  BY <1>1, <1>2, <1>3
<1>5. pc = "refresh" => "effect" \in seen'[t]
  BY <1>4, Witness DEF Running
<1> QED
  BY <1>4, <1>5 DEF Truth

LEMMA StartTruth ==
    ASSUME TypeOK, NEW t \in Tasks, Start(t), Observe PROVE Truth(t)'
<1>1. ASSUME NEW op, NEW code, NEW days, StartMutation(t, op, code, days)
      PROVE  Truth(t)'
  <2>1. /\ task'[t].pc \in {"resolve", "load"} /\ task'[t].reply = "none"
    BY <1>1, BecomeHeld DEF StartMutation, Handler
  <2> QED
    BY <2>1, SilentTruth DEF Replies, Claims
<1>2. ASSUME NEW source, StartUpload(t, source) PROVE Truth(t)'
  <2>1. /\ task'[t].pc = "insert" /\ task'[t].reply = "none" /\ task'[t].op = "upload"
    BY <1>2, BecomeHeld DEF StartUpload, Handler
  <2> QED
    BY <2>1 DEF Truth
<1> QED
  BY <1>1, <1>2 DEF Start

LEMMA ResolveTruth ==
    ASSUME TypeOK, NEW t \in Tasks, Truth(t), Resolve(t), Observe PROVE Truth(t)'
<1>1. Running(task[t]) /\ UNCHANGED content
  BY DEF Running, Resolve, Database
<1>2. ASSUME NEW reply \in {"not_found", "already"}, Finish(t, reply),
             reply = "not_found" => RowsOf(task[t].code) = {},
             reply = "already" => \E found \in Select(task[t].code) :
                                     Already(task[t].op, found.row)
      PROVE  Truth(t)'
  <2>1. /\ task'[t].pc = "done" /\ task'[t].reply = reply
        /\ task'[t].code = task[t].code /\ task'[t].op = task[t].op
    BY <1>2, BecomeHeld DEF Finish, Ended, Handler, Claims
  <2>2. seen'[t] = Witnessed(t) \cap Evidence(task'[t])
    BY <1>1, <2>1, Witness DEF Running
  <2>3. CASE reply = "not_found"
    <3>1. RowsOf(task[t].code)' = {}
      BY <1>1, <1>2, <2>1, <2>3 DEF RowsOf
    <3> QED
      BY <2>1, <2>2, <2>3, <3>1, Witness DEF Evidence, Truth, Running
  <2>4. CASE reply = "already"
    <3>1. PICK id \in RowsOf(task[t].code) : Already(task[t].op, content[id])
      BY <1>2, <2>4 DEF Select
    <3>2. id \in RowsOf(task[t].code)'
      BY <1>1, <2>1, <3>1 DEF RowsOf
    <3>3. Already(task[t].op, content[id])' /\ task[t].op \in {"activate", "deactivate"}
      BY <1>1, <2>1, <3>1 DEF Already
    <3>4. Effect(task[t])'
      BY <2>1, <3>2, <3>3 DEF Effect
    <3> QED
      BY <2>1, <2>2, <2>4, <3>4, Witness DEF Evidence, Truth, Running
  <2> QED
    BY <2>3, <2>4
<1>3. ASSUME NEW until, Become(t, [task[t] EXCEPT !.pc = "load", !.until = until])
      PROVE  Truth(t)'
  <2>1. task[t] \in Tasking /\ task[t].reply = "none"
    BY <1>1 DEF TypeOK, Truth
  <2>2. \A k \in Tasking : [k EXCEPT !.pc = "load", !.until = until].pc = "load"
                        /\ [k EXCEPT !.pc = "load", !.until = until].reply = k.reply
    BY DEF Tasking
  <2>3. task'[t] = [task[t] EXCEPT !.pc = "load", !.until = until]
    BY <1>3, BecomeHeld
  <2>4. /\ [task[t] EXCEPT !.pc = "load", !.until = until].pc = "load"
        /\ [task[t] EXCEPT !.pc = "load", !.until = until].reply = task[t].reply
    BY <2>1, <2>2
  <2>5. task'[t].pc = "load" /\ task'[t].reply = "none"
    BY <2>1, <2>3, <2>4
  <2> QED
    BY <2>5, SilentTruth DEF Replies, Claims
<1>4. \/ \E reply \in {"bad_value", "error"} : Finish(t, reply)
      \/ Goto(t, "load")
      \/ \E until : Become(t, [task[t] EXCEPT !.pc = "load", !.until = until])
      \/ Finish(t, "not_found") /\ RowsOf(task[t].code) = {}
      \/ Finish(t, "already") /\ \E found \in Select(task[t].code) :
                                     Already(task[t].op, found.row)
  BY DEF Resolve
<1> QED
  BY <1>1, <1>2, <1>3, <1>4, FinishTruth, GotoTruth DEF Replies, Claims

LEMMA LoadTruth ==
    ASSUME TypeOK, NEW t \in Tasks, Truth(t), Load(t), Observe PROVE Truth(t)'
<1>1. Running(task[t]) /\ UNCHANGED content /\ task[t] \in Tasking
      /\ task[t].reply = "none"
  BY DEF Running, Load, Database, Truth, TypeOK
<1>2. CASE RowsOf(task[t].code) = {}
  <2>1. /\ task'[t].pc = "done" /\ task'[t].reply = "not_found"
        /\ task'[t].code = task[t].code
    BY <1>2, BecomeHeld DEF Load, Finish, Ended, Handler, Claims
  <2>2. RowsOf(task[t].code)' = {}
    BY <1>1, <1>2, <2>1 DEF RowsOf
  <2> QED
    BY <1>1, <2>1, <2>2, Witness DEF Evidence, Truth, Running
<1>3. CASE RowsOf(task[t].code) # {}
  <2>1. task'[t] = [task[t] EXCEPT !.pc = "write", !.held = Select(task[t].code)]
    BY <1>3, BecomeHeld DEF Load
  <2>2. \A held : \A k \in Tasking : LET n == [k EXCEPT !.pc = "write", !.held = held] IN
           /\ n.pc = "write" /\ n.held = held /\ n.reply = k.reply
           /\ n.op = k.op /\ n.code = k.code /\ n.until = k.until
    BY DEF Tasking
  <2>3. /\ task'[t].pc = "write" /\ task'[t].held = Select(task[t].code)
        /\ task'[t].reply = "none" /\ task'[t].op = task[t].op
        /\ task'[t].code = task[t].code /\ task'[t].until = task[t].until
    BY <1>1, <2>1, <2>2
  <2>4. seen'[t] = Witnessed(t)
    BY <2>3, Witness DEF Running
  <2>5. ASSUME NEW session \in task'[t].held
        PROVE  /\ session.id \in DOMAIN content'
               /\ (task'[t].op \in Mutations /\ ~Dirty(task'[t], session.row))
                     => Effect(task[t])'
    <3>1. session.id \in RowsOf(task[t].code) /\ session.row = content[session.id]
      BY <2>3, <2>5 DEF Select
    <3>2. session.id \in RowsOf(task[t].code)' /\ session.row = content'[session.id]
      BY <1>1, <2>3, <3>1 DEF RowsOf
    <3>3. session.id \in DOMAIN content'
      BY <3>2 DEF RowsOf
    <3>4. ASSUME task'[t].op \in {"activate", "deactivate"}, ~Dirty(task'[t], session.row)
          PROVE  Effect(task[t])'
      <4>1. Already(task[t].op, content[session.id])'
        BY <3>2, <3>4 DEF Dirty, Already
      <4> QED
        BY <3>2, <3>4, <4>1 DEF Effect
    <3>5. ASSUME task'[t].op = "expire", ~Dirty(task'[t], session.row)
          PROVE  Effect(task[t])'
      <4>1. content'[session.id].expires = task'[t].until
        BY <3>2, <3>5 DEF Dirty
      <4> QED
        BY <2>3, <3>2, <3>5, <4>1 DEF Effect
    <3> QED
      BY <3>3, <3>4, <3>5 DEF Mutations
  <2> QED
    BY <2>3, <2>4, <2>5, Witness DEF Truth
<1> QED
  BY <1>2, <1>3

\* A row that an UPDATE has touched is as its operation wants it.
LEMMA UpdateTruth ==
    ASSUME TypeOK, Addressed, NEW t \in Tasks, Truth(t), CommitUpdate(t), Observe
    PROVE  Truth(t)'
<1>1. Running(task[t]) /\ task[t].pc = "write" /\ task[t].op \in Mutations
      /\ task[t] \in Tasking
  BY DEF CommitUpdate, Running, TypeOK
<1>2. CASE StaleUpdate(t)
  BY <1>2, FinishTruth DEF StaleUpdate, Replies, Claims
<1>3. ASSUME Goto(t, "refresh"),
             NEW session \in task[t].held,
             ~Dirty(task[t], session.row)
      PROVE  Truth(t)'
  <2>1. "effect" \in Witnessed(t)
    BY <1>1, <1>3, Witness DEF Truth
  <2> QED
    BY <1>1, <1>3, <2>1, GotoTruth
<1>4. ASSUME Goto(t, "refresh"),
             NEW session \in task[t].held,
             session.id \in DOMAIN content,
             content' = [content EXCEPT ![session.id] =
                           Updated(task[t], session.row, @)]
      PROVE  Truth(t)'
  <2>1. task'[t] = [task[t] EXCEPT !.pc = "refresh"]
    BY <1>4, BecomeHeld DEF Goto
  <2>2. \A k \in Tasking : LET n == [k EXCEPT !.pc = "refresh"] IN
           /\ n.pc = "refresh" /\ n.op = k.op /\ n.code = k.code /\ n.until = k.until
    BY DEF Tasking
  <2>3. /\ task'[t].pc = "refresh" /\ task'[t].op = task[t].op
        /\ task'[t].code = task[t].code /\ task'[t].until = task[t].until
    BY <1>1, <2>1, <2>2
  <2>4. content[session.id] \in Rows /\ content[session.id].code = task[t].code
    BY <1>4 DEF TypeOK, Addressed, AddressedAt
  <2>5. /\ session.id \in DOMAIN content'
        /\ content'[session.id] = Updated(task[t], session.row, content[session.id])
    BY <1>4
  <2>6. content'[session.id].code = task[t].code
    BY <1>1, <2>4, <2>5, UpdatedType
  <2>7. session.id \in RowsOf(task[t].code)'
    BY <2>3, <2>5, <2>6 DEF RowsOf
  <2>8. Effect(task[t])'
    <3>1. \A row \in Rows : /\ [row EXCEPT !.state = "active"].state = "active"
                            /\ [row EXCEPT !.state = "inactive"].state = "inactive"
                            /\ \A until : [row EXCEPT !.expires = until].expires = until
      BY DEF Rows
    <3>2. CASE task[t].op = "activate"
      <4>1. content'[session.id] = [content[session.id] EXCEPT !.state = "active"]
        BY <2>5, <3>2 DEF Updated
      <4>2. content'[session.id].state = "active"
        BY <2>4, <3>1, <4>1
      <4> QED
        BY <2>3, <2>7, <3>2, <4>2 DEF Effect, Already
    <3>3. CASE task[t].op = "deactivate"
      <4>1. content'[session.id] = [content[session.id] EXCEPT !.state = "inactive"]
        BY <2>5, <3>3 DEF Updated
      <4>2. content'[session.id].state = "inactive"
        BY <2>4, <3>1, <4>1
      <4> QED
        BY <2>3, <2>7, <3>3, <4>2 DEF Effect, Already
    <3>4. CASE task[t].op = "expire"
      <4>1. content'[session.id] = [content[session.id] EXCEPT !.expires = task[t].until]
        BY <2>5, <3>4 DEF Updated
      <4>2. content'[session.id].expires = task[t].until
        BY <2>4, <3>1, <4>1
      <4> QED
        BY <2>3, <2>7, <3>4, <4>2 DEF Effect
    <3> QED
      BY <1>1, <3>2, <3>3, <3>4 DEF Mutations
  <2> QED
    BY <1>1, <1>4, <2>8, Witness, GotoTruth
<1> QED
  BY <1>2, <1>3, <1>4 DEF CommitUpdate, Matches

\* Codes are unique: with the row of a session goes the content of its code.
LEMMA GoneWithRow ==
    ASSUME Unique(content), NEW code, NEW gone \in RowsOf(code),
           content' = [id \in DOMAIN content \ {gone} |-> content[id]]
    PROVE  \A id \in DOMAIN content' : content'[id].code # code
BY DEF Unique, RowsOf

LEMMA DeleteTruth ==
    ASSUME TypeOK, Indexed, Addressed, NEW t \in Tasks, Truth(t), CommitDelete(t),
           Observe
    PROVE  Truth(t)'
<1>1. Running(task[t]) /\ task[t].pc = "write" /\ task[t].op = "delete"
  BY DEF CommitDelete, Running
<1>2. CASE Finish(t, "error")
  BY <1>2, FinishTruth DEF Replies, Claims
<1>3. CASE Finish(t, "ok")
  <2>1. /\ task'[t].pc = "done" /\ task'[t].reply = "ok"
        /\ task'[t].code = task[t].code /\ task'[t].op = "delete"
    BY <1>1, <1>3, BecomeHeld DEF Finish, Ended, Handler, Claims
  <2>2. PICK session \in task[t].held :
           content' = [id \in DOMAIN content \ {session.id} |-> content[id]]
    BY DEF CommitDelete
  <2>3. CASE session.id \notin DOMAIN content
    BY <1>1, <2>1, <2>3, Witness DEF Truth, Evidence, Running
  <2>4. CASE session.id \in DOMAIN content
    <3>1. session.id \in RowsOf(task[t].code)
      BY <2>4 DEF Addressed, AddressedAt, RowsOf
    <3>2. \A id \in DOMAIN content' : content'[id].code # task[t].code
      BY <2>2, <3>1, GoneWithRow DEF Indexed
    <3>3. Effect(task[t])'
      BY <2>1, <3>2 DEF Effect, RowsOf
    <3> QED
      BY <1>1, <2>1, <3>3, Witness DEF Truth, Evidence, Running
  <2> QED
    BY <2>3, <2>4
<1> QED
  BY <1>2, <1>3 DEF CommitDelete

LEMMA InsertTruth ==
    ASSUME TypeOK, NEW t \in Tasks, Truth(t), CommitInsert(t), Observe
    PROVE  Truth(t)'
<1>1. /\ task[t] \in Tasking /\ task[t].pc = "insert" /\ task[t].op = "upload"
      /\ task[t].reply = "none"
  BY DEF CommitInsert, Running, Truth, TypeOK
<1>2. CASE Become(t, NextRound(task[t]))
  <2>1. \A k \in Tasking : /\ NextRound(k).pc = k.pc /\ NextRound(k).op = k.op
                           /\ NextRound(k).reply = k.reply
    BY DEF Tasking, NextRound
  <2>2. task'[t] = NextRound(task[t])
    BY <1>2, BecomeHeld
  <2>3. task'[t].pc = "insert" /\ task'[t].op = "upload" /\ task'[t].reply = "none"
    BY <1>1, <2>1, <2>2
  <2> QED
    BY <2>3 DEF Truth
<1>3. ASSUME NEW code, NEW id, NEW row,
             row = [code |-> code, source |-> task[t].source,
                    state |-> "active", expires |-> {}],
             content' = [i \in DOMAIN content \cup {id} |->
                           IF i = id THEN row ELSE content[i]],
             Become(t, [task[t] EXCEPT !.pc = "refresh", !.code = code,
                                       !.held = {[id |-> id, row |-> row]}])
      PROVE  Truth(t)'
  <2>1. \A held : \A k \in Tasking :
           LET n == [k EXCEPT !.pc = "refresh", !.code = code, !.held = held] IN
           /\ n.pc = "refresh" /\ n.op = k.op /\ n.code = code
           /\ n.source = k.source /\ n.reply = k.reply
    BY DEF Tasking
  <2>2. task'[t] = [task[t] EXCEPT !.pc = "refresh", !.code = code,
                                   !.held = {[id |-> id, row |-> row]}]
    BY <1>3, BecomeHeld
  <2>3. /\ task'[t].pc = "refresh" /\ task'[t].op = "upload" /\ task'[t].code = code
        /\ task'[t].source = task[t].source /\ task'[t].reply = "none"
    BY <1>1, <2>1, <2>2
  <2>4. /\ id \in DOMAIN content' /\ content'[id].code = code
        /\ content'[id].source = task[t].source
    BY <1>3
  <2>5. Effect(task[t])'
    BY <2>3, <2>4 DEF Effect, RowsOf
  <2>6. "effect" \in seen'[t]
    BY <2>3, <2>5, Witness DEF Running
  <2> QED
    BY <2>3, <2>6 DEF Truth
<1>4. \/ Finish(t, "error") \/ Become(t, NextRound(task[t]))
      \/ \E code \in Codes, id \in Ids :
            LET row == [code |-> code, source |-> task[t].source,
                        state |-> "active", expires |-> {}] IN
            /\ content' = [i \in DOMAIN content \cup {id} |->
                             IF i = id THEN row ELSE content[i]]
            /\ Become(t, [task[t] EXCEPT !.pc = "refresh", !.code = code,
                                         !.held = {[id |-> id, row |-> row]}])
  BY DEF CommitInsert
<1>5. CASE Finish(t, "error")
  BY <1>5, FinishTruth DEF Replies, Claims
<1>6. CASE \E code \in Codes, id \in Ids :
             LET row == [code |-> code, source |-> task[t].source,
                         state |-> "active", expires |-> {}] IN
             /\ content' = [i \in DOMAIN content \cup {id} |->
                              IF i = id THEN row ELSE content[i]]
             /\ Become(t, [task[t] EXCEPT !.pc = "refresh", !.code = code,
                                          !.held = {[id |-> id, row |-> row]}])
  <2>1. PICK code \in Codes, id \in Ids :
           LET row == [code |-> code, source |-> task[t].source,
                       state |-> "active", expires |-> {}] IN
           /\ content' = [i \in DOMAIN content \cup {id} |->
                            IF i = id THEN row ELSE content[i]]
           /\ Become(t, [task[t] EXCEPT !.pc = "refresh", !.code = code,
                                        !.held = {[id |-> id, row |-> row]}])
    BY <1>6
  <2>2. PICK row : row = [code |-> code, source |-> task[t].source,
                          state |-> "active", expires |-> {}]
    OBVIOUS
  <2> QED
    BY <2>1, <2>2, <1>3
<1> QED
  BY <1>2, <1>4, <1>5, <1>6

LEMMA RefreshTruth ==
    ASSUME TypeOK, NEW t \in Tasks, Truth(t), Refresh(t), Observe
    PROVE  Truth(t)'
<1>1. Running(task[t]) /\ "effect" \in seen[t]
  BY DEF Refresh, Running, Truth
<1>2. CASE Finish(t, "error")
  BY <1>2, FinishTruth DEF Replies, Claims
<1>3. ASSUME NEW op, NEW code, NEW source, Become(t, Handler("done", op, code, source, {}, "ok"))
      PROVE  Truth(t)'
  <2>1. task'[t].pc = "done" /\ task'[t].reply = "ok"
    BY <1>3, BecomeHeld DEF Handler
  <2> QED
    BY <1>1, <2>1, Witness DEF Truth, Evidence, Running
<1> QED
  BY <1>2, <1>3 DEF Refresh

\* A task that only waits goes on having witnessed what it has; what it needs
\* besides, when another task deletes the row of its session, it witnesses in
\* that very step.
LEMMA WaitingTruth ==
    ASSUME TypeOK, Indexed, Addressed, Observe, NEW t \in Tasks, Truth(t),
           task'[t] = task[t],
           \/ DOMAIN content \subseteq DOMAIN content'
           \/ \E gone : content' = [id \in DOMAIN content \ {gone} |-> content[id]]
    PROVE  Truth(t)'
<1>1. Running(task[t])' = Running(task[t])
  BY DEF Running
<1>2. seen[t] \subseteq seen'[t]
  BY <1>1, Witness
<1>3. ASSUME task[t].pc = "write", task[t].op = "delete",
             NEW session \in task[t].held,
             session.id \in DOMAIN content, session.id \notin DOMAIN content'
      PROVE  "effect" \in seen'[t]
  <2>1. PICK gone : content' = [id \in DOMAIN content \ {gone} |-> content[id]]
    BY <1>3
  <2>2. session.id = gone
    BY <1>3, <2>1
  <2>3. session.id \in RowsOf(task[t].code)
    BY <1>3 DEF Addressed, AddressedAt, RowsOf
  <2>4. \A id \in DOMAIN content' : content'[id].code # task[t].code
    BY <2>1, <2>2, <2>3, GoneWithRow DEF Indexed
  <2>5. Effect(task[t])'
    BY <1>3, <2>4 DEF Effect, RowsOf
  <2> QED
    BY <1>1, <1>3, <2>5, Witness DEF Running
<1>4. ASSUME task[t].pc = "write", NEW session \in task[t].held,
             \/ task[t].op \in Mutations /\ ~Dirty(task[t], session.row)
             \/ task[t].op = "delete" /\ session.id \notin DOMAIN content'
      PROVE  "effect" \in seen'[t]
  <2>1. CASE task[t].op \in Mutations /\ ~Dirty(task[t], session.row)
    BY <1>2, <1>4, <2>1 DEF Truth
  <2>2. CASE task[t].op = "delete" /\ session.id \notin DOMAIN content'
    BY <1>2, <1>3, <1>4, <2>2 DEF Truth
  <2> QED
    BY <1>4, <2>1, <2>2
<1>5. \A session : Dirty(task'[t], session.row) = Dirty(task[t], session.row)
  OBVIOUS
<1> QED
  BY <1>1, <1>2, <1>4, <1>5 DEF Truth

\* What a step does to the tasks it is not a step of, and to the table.
LEMMA StepOthers ==
    ASSUME TypeOK, NEW t \in Tasks, Start(t) \/ Work(t) \/ Fault(t)
    PROVE  \A u \in Tasks \ {t} : task'[u] = task[u]
BY BecomeHeld DEF Start, StartMutation, StartUpload, Work, RejectMalformed, Resolve,
   Load, CommitUpdate, StaleUpdate, CommitDelete, CommitInsert, Refresh, Fault,
   Finish, Goto

LEMMA StepTable ==
    ASSUME TypeOK, Step
    PROVE  \/ DOMAIN content \subseteq DOMAIN content'
           \/ \E gone : content' = [id \in DOMAIN content \ {gone} |-> content[id]]
<1>1. ASSUME NEW t \in Tasks, CommitUpdate(t) PROVE DOMAIN content' = DOMAIN content
  BY <1>1 DEF CommitUpdate
<1>2. ASSUME NEW t \in Tasks, CommitDelete(t)
      PROVE  \E gone : content' = [id \in DOMAIN content \ {gone} |-> content[id]]
  BY <1>2 DEF CommitDelete
<1>3. ASSUME NEW t \in Tasks, CommitInsert(t) PROVE DOMAIN content \subseteq DOMAIN content'
  BY <1>3 DEF CommitInsert, Database
<1>4. ASSUME NEW t \in Tasks,
             \/ Start(t) \/ Resolve(t) \/ RejectMalformed(t) \/ Load(t)
             \/ Refresh(t) \/ Fault(t)
      PROVE  content' = content
  BY <1>4 DEF Start, StartMutation, StartUpload, Resolve, RejectMalformed, Load,
              Refresh, Fault, Database
<1>5. CASE Tick
  BY <1>5 DEF Tick, Database
<1> QED
  BY <1>1, <1>2, <1>3, <1>4, <1>5 DEF Step, Work

LEMMA StepTruth ==
    ASSUME TypeOK, Indexed, Addressed, Step, Observe, \A t \in Tasks : Truth(t)
    PROVE  \A t \in Tasks : Truth(t)'
<1>1. ASSUME NEW t \in Tasks, task'[t] = task[t] PROVE Truth(t)'
  BY <1>1, WaitingTruth, StepTable
<1>2. ASSUME NEW t \in Tasks, Start(t) \/ Work(t) \/ Fault(t) PROVE Truth(t)'
  <2>1. CASE RejectMalformed(t) \/ Fault(t)
    BY <2>1, FinishTruth DEF RejectMalformed, Fault, Replies, Claims
  <2> QED
    BY <1>2, <2>1, StartTruth, ResolveTruth, LoadTruth, UpdateTruth, DeleteTruth,
       InsertTruth, RefreshTruth DEF Work
<1>3. CASE Tick
  BY <1>1, <1>3 DEF Tick
<1> QED
  BY <1>1, <1>2, <1>3, StepOthers DEF Step

\* Where primary keys are never handed out again, no administrator is told of
\* a content what was not so at some moment between the update and the answer.
THEOREM AnswersWitnessed ==
    ASSUME RowidReuse = FALSE
    PROVE  Spec => []RepliesWitnessed
<1> DEFINE Truthful == Addressed /\ \A t \in Tasks : Truth(t)
<1>1. Init => Truthful
  BY DEF Init, Addressed, Truth, Handler, Running
<1>2. ASSUME TypeOK, Indexed, Truthful, [Next]_vars PROVE Truthful'
  <2>1. CASE UNCHANGED vars
    BY <1>2, <2>1 DEF vars, Addressed, AddressedAt, Truth, Running, Dirty, Already
  <2>2. CASE Next
    BY <1>2, <2>2, StepAddressed, StepTruth DEF Next
  <2> QED
    BY <1>2, <2>1, <2>2
<1>3. Truthful => RepliesWitnessed
  BY DEF Truth, RepliesWitnessed
<1> QED
  BY <1>1, <1>2, <1>3, AlwaysIndexed, TypeCorrect, PTL DEF Spec

-----------------------------------------------------------------------------
(* Exceptions.  The session of a change either still finds the content     *)
(* under the code it was asked for, or has witnessed it gone: a key that   *)
(* came back under another code came back after a deletion.                *)

Found(t, session) ==
    session.id \in DOMAIN content /\ content[session.id].code = task[t].code

Lost(t) ==
    /\ task[t].pc = "insert" => task[t].op = "upload"
    /\ task[t].op \in Mutations /\ task[t].pc \in {"write", "refresh"} =>
          \A session \in task[t].held : Found(t, session) \/ "absent" \in seen[t]

\* Rows are added and removed, one at a time; none changes its code.
CodesKept ==
    \A id \in DOMAIN content \cap DOMAIN content' : content'[id].code = content[id].code

LEMMA StepCodes == ASSUME TypeOK, Indexed, Step PROVE CodesKept
<1>1. ASSUME NEW t \in Tasks, CommitUpdate(t) PROVE CodesKept
  <2>1. CASE UNCHANGED content
    BY <2>1 DEF CodesKept
  <2>2. ASSUME NEW session, session.id \in DOMAIN content,
               content' = [content EXCEPT ![session.id] =
                             Updated(task[t], session.row, @)]
        PROVE  CodesKept
    <3>1. Updated(task[t], session.row, content[session.id]).code
             = content[session.id].code
      BY <1>1, <2>2, UpdatedType DEF TypeOK, CommitUpdate
    <3> QED
      BY <2>2, <3>1 DEF CodesKept
  <2> QED
    BY <1>1, <2>1, <2>2 DEF CommitUpdate, Matches
<1>2. ASSUME NEW t \in Tasks, CommitDelete(t) PROVE CodesKept
  BY <1>2 DEF CommitDelete, CodesKept
<1>3. ASSUME NEW t \in Tasks, CommitInsert(t) PROVE CodesKept
  <2>1. CASE UNCHANGED content
    BY <2>1 DEF CodesKept
  <2>2. ASSUME NEW id \in Ids, IsNextId(id), NEW row,
               content' = [i \in DOMAIN content \cup {id} |->
                             IF i = id THEN row ELSE content[i]]
        PROVE  CodesKept
    <3>1. id \notin DOMAIN content
      BY <2>2, FreshKey DEF Indexed
    <3> QED
      BY <2>2, <3>1 DEF CodesKept
  <2> QED
    BY <1>3, <2>1, <2>2 DEF CommitInsert, Database
<1>4. ASSUME content' = content PROVE CodesKept
  BY <1>4 DEF CodesKept
<1>5. ASSUME NEW t \in Tasks,
             \/ Start(t) \/ Resolve(t) \/ RejectMalformed(t) \/ Load(t)
             \/ Refresh(t) \/ Fault(t)
      PROVE  content' = content
  BY <1>5 DEF Start, StartMutation, StartUpload, Resolve, RejectMalformed, Load,
              Refresh, Fault, Database
<1>6. CASE Tick
  BY <1>4, <1>6 DEF Tick, Database
<1> QED
  BY <1>1, <1>2, <1>3, <1>4, <1>5, <1>6 DEF Step, Work

\* A session that no longer finds its content saw it go in this very step.
LEMMA SessionLost ==
    ASSUME TypeOK, Indexed, Step, Observe, NEW t \in Tasks, Running(task[t]),
           Running(task[t])', task'[t].code = task[t].code,
           NEW session, Found(t, session) \/ "absent" \in seen[t]
    PROVE  Found(t, session)' \/ "absent" \in seen'[t]
<1>1. seen[t] \subseteq seen'[t]
  BY Witness
<1>2. ASSUME Found(t, session), session.id \in DOMAIN content'
      PROVE  Found(t, session)'
  BY <1>2, StepCodes DEF Found, CodesKept
<1>3. ASSUME Found(t, session), session.id \notin DOMAIN content'
      PROVE  "absent" \in seen'[t]
  <2>1. PICK gone : content' = [id \in DOMAIN content \ {gone} |-> content[id]]
    BY <1>3, StepTable DEF Found
  <2>2. gone \in RowsOf(task[t].code)
    BY <1>3, <2>1 DEF Found, RowsOf
  <2>3. RowsOf(task[t].code)' = {}
    BY <2>1, <2>2, GoneWithRow DEF Indexed, RowsOf
  <2> QED
    BY <2>3, Witness
<1> QED
  BY <1>1, <1>2, <1>3

\* A change that has just loaded its row holds it; one that commits keeps it.
LEMMA OwnStepLost ==
    ASSUME TypeOK, Indexed, Step, Observe, NEW t \in Tasks, Lost(t),
           Start(t) \/ Work(t) \/ Fault(t)
    PROVE  Lost(t)'
<1>0. ASSUME task'[t].op = "upload" PROVE Lost(t)'
  BY <1>0 DEF Lost, Mutations
<1>1. ASSUME task'[t].pc \notin {"insert", "write", "refresh"} PROVE Lost(t)'
  BY <1>1 DEF Lost
<1>2. ASSUME NEW reply, Finish(t, reply) PROVE Lost(t)'
  <2>1. task'[t].pc = "done"
    BY <1>2, BecomeHeld DEF Finish, Ended, Handler
  <2> QED
    BY <1>1, <2>1
<1>3. CASE Start(t) \/ RejectMalformed(t) \/ Fault(t)
  <2>1. ASSUME NEW pc \in {"resolve", "load"}, NEW op, NEW code, NEW source,
               NEW days, Become(t, Handler(pc, op, code, source, days, "none"))
        PROVE  Lost(t)'
    <3>1. task'[t].pc = pc
      BY <2>1, BecomeHeld DEF Handler
    <3> QED
      BY <1>1, <3>1
  <2>2. ASSUME NEW source,
               Become(t, Handler("insert", "upload", Malformed, source, {}, "none"))
        PROVE  Lost(t)'
    <3>1. task'[t].op = "upload"
      BY <2>2, BecomeHeld DEF Handler
    <3> QED
      BY <1>0, <3>1
  <2> QED
    BY <1>2, <1>3, <2>1, <2>2 DEF Start, StartMutation, StartUpload, RejectMalformed, Fault
<1>4. CASE Resolve(t)
  <2>1. task[t] \in Tasking
    BY DEF TypeOK
  <2>2. ASSUME NEW until, Become(t, [task[t] EXCEPT !.pc = "load", !.until = until])
        PROVE  Lost(t)'
    <3>1. \A k \in Tasking : [k EXCEPT !.pc = "load", !.until = until].pc = "load"
      BY DEF Tasking
    <3>2. task'[t].pc = "load"
      BY <2>1, <2>2, <3>1, BecomeHeld
    <3> QED
      BY <1>1, <3>2
  <2>3. ASSUME Goto(t, "load") PROVE Lost(t)'
    <3>1. \A k \in Tasking : [k EXCEPT !.pc = "load"].pc = "load"
      BY DEF Tasking
    <3>2. task'[t] = [task[t] EXCEPT !.pc = "load"]
      BY <2>3, BecomeHeld DEF Goto
    <3>3. task'[t].pc = "load"
      BY <2>1, <3>1, <3>2
    <3> QED
      BY <1>1, <3>3
  <2> QED
    BY <1>2, <1>4, <2>2, <2>3 DEF Resolve
<1>5. CASE Load(t)
  <2>1. CASE RowsOf(task[t].code) = {}
    BY <1>2, <1>5, <2>1 DEF Load
  <2>2. CASE RowsOf(task[t].code) # {}
    <3>1. task'[t] = [task[t] EXCEPT !.pc = "write", !.held = Select(task[t].code)]
      BY <1>5, <2>2, BecomeHeld DEF Load
    <3>2. \A held : \A k \in Tasking :
             /\ [k EXCEPT !.pc = "write", !.held = held].held = held
             /\ [k EXCEPT !.pc = "write", !.held = held].code = k.code
      BY DEF Tasking
    <3>3. task[t] \in Tasking /\ content' = content
      BY <1>5 DEF TypeOK, Load, Database
    <3>4. task'[t].held = Select(task[t].code) /\ task'[t].code = task[t].code
      BY <3>1, <3>2, <3>3
    <3>5. ASSUME NEW session \in Select(task[t].code) PROVE Found(t, session)'
      BY <3>3, <3>4, <3>5 DEF Select, RowsOf, Found
    <3>6. task'[t].pc = "write"
      <4>1. \A held : \A k \in Tasking : [k EXCEPT !.pc = "write", !.held = held].pc = "write"
        BY DEF Tasking
      <4> QED
        BY <3>1, <3>3, <4>1
    <3> QED
      BY <3>4, <3>5, <3>6 DEF Lost
  <2> QED
    BY <2>1, <2>2
<1>6. CASE CommitUpdate(t)
  <2>1. CASE StaleUpdate(t)
    BY <1>2, <2>1 DEF StaleUpdate
  <2>2. CASE Goto(t, "refresh")
    <3>1. \A k \in Tasking : LET n == [k EXCEPT !.pc = "refresh"] IN
             /\ n.pc = "refresh" /\ n.held = k.held /\ n.code = k.code /\ n.op = k.op
      BY DEF Tasking
    <3>2. task[t] \in Tasking /\ task[t].pc = "write" /\ task[t].op \in Mutations
      BY <1>6 DEF TypeOK, CommitUpdate
    <3>3. task'[t] = [task[t] EXCEPT !.pc = "refresh"]
      BY <2>2, BecomeHeld DEF Goto
    <3>4. /\ task'[t].pc = "refresh" /\ task'[t].held = task[t].held
          /\ task'[t].code = task[t].code
      BY <3>1, <3>2, <3>3
    <3>5. Running(task[t]) /\ Running(task[t])'
      BY <3>2, <3>4 DEF Running
    <3>6. \A session \in task'[t].held : Found(t, session) \/ "absent" \in seen[t]
      BY <3>2, <3>4 DEF Lost
    <3>7. \A session \in task'[t].held : Found(t, session)' \/ "absent" \in seen'[t]
      BY <3>4, <3>5, <3>6, SessionLost
    <3> QED
      BY <3>4, <3>7 DEF Lost
  <2> QED
    BY <1>6, <2>1, <2>2 DEF CommitUpdate
<1>7. CASE CommitDelete(t)
  BY <1>2, <1>7 DEF CommitDelete
<1>8. CASE CommitInsert(t)
  <2>1. task[t] \in Tasking /\ task[t].op = "upload"
    BY <1>8 DEF TypeOK, CommitInsert, Lost
  <2>2. ASSUME Become(t, NextRound(task[t])) PROVE Lost(t)'
    <3>1. \A k \in Tasking : NextRound(k).op = k.op
      BY DEF Tasking, NextRound
    <3>2. task'[t].op = "upload"
      BY <2>1, <2>2, <3>1, BecomeHeld
    <3> QED
      BY <1>0, <3>2
  <2>3. ASSUME NEW code, NEW held,
               Become(t, [task[t] EXCEPT !.pc = "refresh", !.code = code, !.held = held])
        PROVE  Lost(t)'
    <3>1. \A k \in Tasking :
             [k EXCEPT !.pc = "refresh", !.code = code, !.held = held].op = k.op
      BY DEF Tasking
    <3>2. task'[t] = [task[t] EXCEPT !.pc = "refresh", !.code = code, !.held = held]
      BY <2>3, BecomeHeld
    <3>3. task'[t].op = "upload"
      BY <2>1, <3>1, <3>2
    <3> QED
      BY <1>0, <3>3
  <2> QED
    BY <1>2, <1>8, <2>2, <2>3 DEF CommitInsert
<1>9. CASE Refresh(t)
  <2>1. ASSUME NEW op, NEW code, NEW source,
               Become(t, Handler("done", op, code, source, {}, "ok"))
        PROVE  Lost(t)'
    <3>1. task'[t].pc = "done"
      BY <2>1, BecomeHeld DEF Handler
    <3> QED
      BY <1>1, <3>1
  <2> QED
    BY <1>2, <1>9, <2>1 DEF Refresh
<1> QED
  BY <1>3, <1>4, <1>5, <1>6, <1>7, <1>8, <1>9 DEF Work

LEMMA StepLost ==
    ASSUME TypeOK, Indexed, Step, Observe, \A t \in Tasks : Lost(t)
    PROVE  \A t \in Tasks : Lost(t)'
<1>1. ASSUME NEW t \in Tasks, task'[t] = task[t] PROVE Lost(t)'
  <2>1. CASE task[t].pc \in {"write", "refresh"} /\ task[t].op \in Mutations
    <3>1. Running(task[t]) /\ Running(task[t])'
      BY <1>1, <2>1 DEF Running
    <3>2. \A session \in task[t].held : Found(t, session)' \/ "absent" \in seen'[t]
      BY <1>1, <2>1, <3>1, SessionLost DEF Lost
    <3> QED
      BY <1>1, <2>1, <3>2 DEF Lost
  <2>2. CASE ~(task[t].pc \in {"write", "refresh"} /\ task[t].op \in Mutations)
    BY <1>1, <2>2 DEF Lost
  <2> QED
    BY <2>1, <2>2
<1>2. CASE Tick
  BY <1>1, <1>2 DEF Tick
<1> QED
  BY <1>1, <1>2, OwnStepLost, StepOthers DEF Step

\* An operation that runs has not answered yet.
Silent(t) == Running(task[t]) => task[t].reply = "none"

LEMMA StepSilent ==
    ASSUME TypeOK, Step, \A t \in Tasks : Silent(t)
    PROVE  \A t \in Tasks : Silent(t)'
<1>1. ASSUME NEW t \in Tasks, task'[t] = task[t] PROVE Silent(t)'
  BY <1>1 DEF Silent, Running
<1>2. ASSUME NEW t \in Tasks, Start(t) \/ Work(t) \/ Fault(t) PROVE Silent(t)'
  <2>1. task[t] \in Tasking
    BY DEF TypeOK
  <2>2. ASSUME NEW k, Become(t, k), k.reply = "none" \/ k.pc \in {"idle", "done"}
        PROVE  Silent(t)'
    <3>1. task'[t] = k
      BY <2>2, BecomeHeld
    <3> QED
      BY <2>2, <3>1 DEF Silent, Running
  <2>3. ASSUME NEW k, Become(t, k), Running(task[t]), k.reply = task[t].reply
        PROVE  Silent(t)'
    BY <2>2, <2>3 DEF Silent
  <2>4. ASSUME NEW reply, Finish(t, reply) PROVE Silent(t)'
    BY <2>2, <2>4 DEF Finish, Ended, Handler
  <2>5. ASSUME NEW pc, Goto(t, pc), Running(task[t]) PROVE Silent(t)'
    <3>1. \A k \in Tasking : [k EXCEPT !.pc = pc].reply = k.reply
      BY DEF Tasking
    <3>2. [task[t] EXCEPT !.pc = pc].reply = task[t].reply
      BY <2>1, <3>1
    <3> QED
      BY <2>3, <2>5, <3>2 DEF Goto
  <2>6. ASSUME NEW op, NEW code, NEW days, StartMutation(t, op, code, days)
        PROVE  Silent(t)'
    BY <2>2, <2>6 DEF StartMutation, Handler
  <2>7. ASSUME NEW source, StartUpload(t, source) PROVE Silent(t)'
    BY <2>2, <2>7 DEF StartUpload, Handler
  <2>8. CASE RejectMalformed(t) \/ Fault(t) \/ CommitUpdate(t) \/ CommitDelete(t)
    BY <2>4, <2>5, <2>8
       DEF RejectMalformed, Fault, CommitUpdate, StaleUpdate, CommitDelete, Running
  <2>9. CASE Resolve(t)
    <3>1. ASSUME NEW until, Become(t, [task[t] EXCEPT !.pc = "load", !.until = until])
          PROVE  Silent(t)'
      <4>1. \A k \in Tasking : [k EXCEPT !.pc = "load", !.until = until].reply = k.reply
        BY DEF Tasking
      <4>2. [task[t] EXCEPT !.pc = "load", !.until = until].reply = task[t].reply
        BY <2>1, <4>1
      <4> QED
        BY <2>3, <2>9, <3>1, <4>2 DEF Resolve, Running
    <3> QED
      BY <2>4, <2>5, <2>9, <3>1 DEF Resolve, Running
  <2>10. CASE Load(t)
    <3>1. \A held : \A k \in Tasking :
             [k EXCEPT !.pc = "write", !.held = held].reply = k.reply
      BY DEF Tasking
    <3>2. [task[t] EXCEPT !.pc = "write", !.held = Select(task[t].code)].reply
             = task[t].reply
      BY <2>1, <3>1
    <3> QED
      BY <2>3, <2>4, <2>10, <3>2 DEF Load, Running
  <2>11. CASE CommitInsert(t)
    <3>1. ASSUME Become(t, NextRound(task[t])) PROVE Silent(t)'
      <4>1. \A k \in Tasking : NextRound(k).reply = k.reply
        BY DEF Tasking, NextRound
      <4>2. NextRound(task[t]).reply = task[t].reply
        BY <2>1, <4>1
      <4> QED
        BY <2>3, <2>11, <3>1, <4>2 DEF CommitInsert, Running
    <3>2. ASSUME NEW code, NEW held,
                 Become(t, [task[t] EXCEPT !.pc = "refresh", !.code = code, !.held = held])
          PROVE  Silent(t)'
      <4>1. \A k \in Tasking :
               [k EXCEPT !.pc = "refresh", !.code = code, !.held = held].reply = k.reply
        BY DEF Tasking
      <4>2. [task[t] EXCEPT !.pc = "refresh", !.code = code, !.held = held].reply
               = task[t].reply
        BY <2>1, <4>1
      <4> QED
        BY <2>3, <2>11, <3>2, <4>2 DEF CommitInsert, Running
    <3> QED
      BY <2>4, <2>11, <3>1, <3>2 DEF CommitInsert
  <2>12. CASE Refresh(t)
    <3>1. ASSUME NEW op, NEW code, NEW source,
                 Become(t, Handler("done", op, code, source, {}, "ok"))
          PROVE  Silent(t)'
      BY <2>2, <3>1 DEF Handler
    <3> QED
      BY <2>4, <2>12, <3>1 DEF Refresh
  <2> QED
    BY <1>2, <2>6, <2>7, <2>8, <2>9, <2>10, <2>11, <2>12 DEF Start, Work
<1>3. CASE Tick
  BY <1>1, <1>3 DEF Tick
<1> QED
  BY <1>1, <1>2, <1>3, StepOthers DEF Step

\* Without faults of the database, the exceptions of a change come from a
\* commit or a refresh that misses its row.
LEMMA ErrorMisses ==
    ASSUME TypeOK, DbFaults = FALSE, Step, NEW t \in Tasks, task[t].op \in Mutations,
           task[t].pc \in {"load", "write", "refresh"}, Silent(t),
           task'[t].reply = "error"
    PROVE  /\ task[t].pc \in {"write", "refresh"}
           /\ \E session \in task[t].held : session.id \notin DOMAIN content
<1>1. /\ Running(task[t]) /\ task[t].reply = "none"
      /\ task'[t] # task[t] /\ task[t] \in Tasking
  BY DEF Running, Silent, TypeOK
<1>2. Work(t)
  <2>1. ~ Start(t)
    BY <1>1 DEF Start, StartMutation, StartUpload
  <2> QED
    BY <1>1, <2>1, StepOthers DEF Step, Tick, Fault
<1>3. ASSUME NEW pc, Goto(t, pc) PROVE FALSE
  <2>1. \A k \in Tasking : [k EXCEPT !.pc = pc].reply = k.reply
    BY DEF Tasking
  <2>2. task'[t] = [task[t] EXCEPT !.pc = pc]
    BY <1>3, BecomeHeld DEF Goto
  <2> QED
    BY <1>1, <2>1, <2>2
<1>4. ASSUME NEW reply \in Replies \ {"error"}, Finish(t, reply) PROVE FALSE
  BY <1>4, BecomeHeld DEF Finish, Ended, Handler
<1>5. ~ RejectMalformed(t)
  BY <1>4 DEF RejectMalformed, Replies
<1>6. ~ Load(t)
  <2>1. ASSUME Become(t, [task[t] EXCEPT !.pc = "write", !.held = Select(task[t].code)])
        PROVE  FALSE
    <3>1. \A held : \A k \in Tasking :
             [k EXCEPT !.pc = "write", !.held = held].reply = k.reply
      BY DEF Tasking
    <3>2. task'[t] = [task[t] EXCEPT !.pc = "write", !.held = Select(task[t].code)]
      BY <2>1, BecomeHeld
    <3> QED
      BY <1>1, <3>1, <3>2
  <2> QED
    BY <1>4, <2>1 DEF Load, Replies
<1>7. CASE CommitUpdate(t)
  BY <1>3, <1>7 DEF CommitUpdate, Matches
<1>8. CASE Refresh(t)
  <2>1. ASSUME NEW op, NEW code, NEW source,
               Become(t, Handler("done", op, code, source, {}, "ok"))
        PROVE  FALSE
    BY <2>1, BecomeHeld DEF Handler
  <2> QED
    BY <1>8, <2>1 DEF Refresh
<1>9. ~ Resolve(t) /\ ~ CommitDelete(t) /\ ~ CommitInsert(t)
  BY DEF Resolve, CommitDelete, CommitInsert, Mutations
<1> QED
  BY <1>2, <1>5, <1>6, <1>7, <1>8, <1>9 DEF Work

\* Where the database never fails, an administrator whose change ends in an
\* exception had named a content that was gone at some moment meanwhile, for
\* both ways of handing out keys.
THEOREM ErrorsAreDeletions ==
    ASSUME DbFaults = FALSE
    PROVE  Spec => ErrorsExplained
<1> DEFINE Watching == \A t \in Tasks : Silent(t) /\ Lost(t)
<1>1. Init => Watching
  BY DEF Init, Silent, Lost, Handler, Running
<1>2. ASSUME TypeOK, Indexed, Watching, [Next]_vars PROVE Watching'
  <2>1. CASE UNCHANGED vars
    BY <1>2, <2>1 DEF vars, Silent, Running, Lost, Found
  <2>2. CASE Next
    BY <1>2, <2>2, StepSilent, StepLost DEF Next
  <2> QED
    BY <1>2, <2>1, <2>2
<1>3. ASSUME TypeOK, Indexed, Watching, [Next]_vars
      PROVE  [\A t \in Tasks : ErrorExplained(t)]_vars
  <2> SUFFICES ASSUME Next, NEW t \in Tasks, task[t].op \in Mutations,
                      task[t].pc \in {"load", "write", "refresh"},
                      task'[t].reply = "error"
               PROVE  "absent" \in seen[t]
    BY <1>3 DEF ErrorExplained
  <2>1. /\ task[t].pc \in {"write", "refresh"}
        /\ \E session \in task[t].held : session.id \notin DOMAIN content
    BY <1>3, ErrorMisses DEF Next
  <2> QED
    BY <1>3, <2>1 DEF Lost, Found
<1> QED
  BY <1>1, <1>2, <1>3, AlwaysIndexed, TypeCorrect, PTL DEF Spec, ErrorsExplained

=============================================================================
