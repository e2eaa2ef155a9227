----------------------------- MODULE AdminPanel -----------------------------
(***************************************************************************)
(* The panel of one administrator in his private chat (app/router/admin):  *)
(* the messages the bot left there with their inline keyboards, the        *)
(* commands, the uploads, and the dialogue of aiogram's FSM in which he    *)
(* types a number of days.  Every update is a task of its own; whatever    *)
(* the handlers of another update do falls between its awaits.             *)
(*                                                                         *)
(* A change is made as app/database/repositories.py makes it: the row is   *)
(* selected by its code, written by its primary key an await later, and    *)
(* read again by that key.  The other administrators change the contents   *)
(* by steps of ContentCatalog, at any time.  Which contents a page shows   *)
(* is Listing's matter: here it is any few that exist.                     *)
(***************************************************************************)
EXTENDS ContentCatalog, Sequences, FiniteSets

CONSTANTS
    Updates,    \* the updates in flight; a slot that is free again is reused
    Messages,   \* the messages with a keyboard the bot may send
    Offered,    \* bound: what the administrator may do in each slot
    NoCode,     \* the code of a button that has none
    PageSize,   \* CONTENT_PAGE_SIZE
    Keys,       \* bound: the primary keys of the contents
    RowidReuse, \* whether a new content may get a key a handler still holds
    Faults      \* whether Telegram, the database and the process may fail

ASSUME PanelAssumption ==
    /\ NoCode \notin Codes
    /\ PageSize \in Nat \ {0}
    /\ Offered \in [Updates -> SUBSET STRING]
    /\ RowidReuse \in BOOLEAN
    /\ Faults \in BOOLEAN

VARIABLES
    key,        \* the primary key of each content
    dialogue,   \* FSM: empty, or the one record of awaiting_days with its data
    screen,     \* the buttons of each message; {} when it has none
    sent,       \* the messages that have been sent
    req,        \* what the handler of each update is doing
    asked,      \* history: what a days message may be an answer to
    latest      \* history: the content of the last EXPIRE, while undecided

fsm == <<dialogue, latest>>
chat == <<screen, sent>>
rows == <<catalogVars, key>>
vars == <<rows, fsm, chat, req, asked>>

-----------------------------------------------------------------------------
(* Keyboards: AdminNav, ContentUx, and the older "content:" buttons.       *)

NavActs == {"dashboard", "upload", "manage", "help"}
UxActs == {"list", "detail", "activate", "deactivate", "delete_start",
           "delete_confirm", "expire", "expire_off", "cancel"}
ConfirmActs == {"content:activate", "content:deactivate", "content:delete",
                "content:cancel"}
Commands == {"/admin", "/list", "/activate", "/deactivate", "/delete", "/expire",
             "/expire off"}
StateActs == {"activate", "deactivate", "content:activate", "content:deactivate"}
DeleteActs == {"delete_confirm", "content:delete"}
ClearActs == {"expire_off", "/expire off"}
Typed == {"days", "words", "media"}
PressActs == NavActs \cup UxActs \cup ConfirmActs
Acts == PressActs \cup Commands \cup Typed

Button == [act : PressActs, code : Codes \cup {NoCode}]
On(acts, code) == {[act |-> act, code |-> code] : act \in acts}

DashboardKeyboard == On({"upload", "manage", "help"}, NoCode)
BackKeyboard == On({"dashboard"}, NoCode)
\* The buttons to other pages are always taken to be there.
ListKeyboard(shown) ==
    On({"dashboard", "list"}, NoCode) \cup UNION {On({"detail"}, c) : c \in shown}
UnconfirmedKeyboard(code, state) ==     \* mutant: the detail deletes at once
    On({IF state = "active" THEN "deactivate" ELSE "activate",
        "expire", "delete_confirm"}, code) \cup On({"list"}, NoCode)
DetailKeyboard(code, state) ==
    On({IF state = "active" THEN "deactivate" ELSE "activate",
        "expire", "delete_start"}, code) \cup On({"list"}, NoCode)
DeleteKeyboard(code) == On({"delete_confirm", "cancel"}, code)
ExpirationKeyboard(code) == On({"expire_off", "cancel"}, code)
ConfirmationKeyboard(act, code) == On({act, "content:cancel"}, code)

-----------------------------------------------------------------------------
(* A handler is what it still has to do, one entry per await: "filter" is   *)
(* the admin filter's query, after which the handler of the update runs.   *)

Steps == {"filter", "service", "load", "write", "refresh", "preview",
          "replace", "answer", "edit", "post"}

Handling ==
    [todo : Seq(Steps), act : Acts, code : Codes \cup {NoCode},
     at : SUBSET Messages,      \* the message pressed, or the dialogue's
     from : SUBSET Button,      \* history: the keyboard a deletion was pressed on
     awaited : BOOLEAN,         \* raw_state: read when the update arrived
     held : SUBSET Keys,        \* the key of the row its session works on
     show : SUBSET Button,      \* the keyboard to put on the message
     told : 0..1,               \* answers and replies so far
     failed : BOOLEAN]          \* blocked, or ended by an exception

TypeOK ==
    /\ CatalogTypeOK
    /\ key \in [DOMAIN catalog -> Keys]
    /\ dialogue \in SUBSET [code : Codes, at : SUBSET Messages]
    /\ screen \in [Messages -> SUBSET Button]
    /\ sent \subseteq Messages
    /\ req \in [Updates -> Handling]
    /\ asked \in [Updates -> SUBSET Codes]
    /\ latest \subseteq Codes

Running(u) == req[u].todo # <<>>
At(u, step, acts) == Running(u) /\ Head(req[u].todo) = step /\ req[u].act \in acts

\* A handler that has ended leaves its slot, and what became of it.
Free(failed) ==
    [todo |-> <<>>, act |-> "words", code |-> NoCode, at |-> {}, from |-> {},
     awaited |-> FALSE, held |-> {}, show |-> {}, told |-> 0, failed |-> failed]

Become(u, k) ==
    req' = [req EXCEPT ![u] = IF k.todo = <<>> THEN Free(k.failed) ELSE k]
Fail(u) == Become(u, [req[u] EXCEPT !.todo = <<>>, !.failed = TRUE])
Shown(at, show) == [m \in Messages |-> IF m \in at THEN show ELSE screen[m]]
Then(u, todo) == Become(u, [req[u] EXCEPT !.todo = todo])
Showing(u, todo, show) ==
    Become(u, [req[u] EXCEPT !.todo = todo, !.show = show, !.held = {}])

-----------------------------------------------------------------------------
(* Rows.                                                                   *)

\* A key that no row has and no handler remembers is as good as a new one.
\* SQLite may hand out the key of a deleted row again, held or not.
NewKeys ==
    LET held == IF RowidReuse THEN {} ELSE UNION {req[u].held : u \in Updates} IN
    Keys \ ({key[c] : c \in DOMAIN catalog} \cup held)

Insert(code, source, k) ==
    /\ k \in NewKeys
    /\ Create(code, source)
    /\ key' = [c \in DOMAIN catalog' |-> IF c = code THEN k ELSE key[c]]

Remove(code) ==
    /\ Delete(code)
    /\ key' = [c \in DOMAIN catalog' |-> key[c]]

\* get_content_by_code: nothing, or the content of that code.
Named(u) == {catalog[code] : code \in DOMAIN catalog \cap {req[u].code}}
Missing(u) == Named(u) = {}

\* The content whose row has the key the handler holds, if there is one still.
Keyed(u) == {code \in DOMAIN catalog : key[code] \in req[u].held}

-----------------------------------------------------------------------------
(* Updates arrive.                                                         *)

\* FSMContextMiddleware reads the state, which matters to what is typed only,
\* before the filter.
Arrive(u, act, code, at, from) ==
    /\ ~Running(u) /\ act \in Offered[u]
    /\ Become(u, [Free(FALSE) EXCEPT
                    !.todo = <<"filter">>, !.act = act, !.code = code, !.at = at,
                    !.from = IF act \in DeleteActs THEN from ELSE {},
                    !.awaited = act \in Typed /\ dialogue # {}])
    /\ UNCHANGED <<rows, fsm, chat>>

Press(u) ==
    \E m \in sent : \E b \in screen[m] : Arrive(u, b.act, b.code, {m}, screen[m])

Send(u) ==
    \/ \E act \in Typed \cup {"/admin", "/list"} : Arrive(u, act, NoCode, {}, {})
    \/ \E act \in Commands \ {"/admin", "/list"}, code \in Codes :
            Arrive(u, act, code, {}, {})

\* RateLimitMiddleware, once the filters have matched.
Block(u) ==
    /\ At(u, "filter", Acts)
    /\ Fail(u)
    /\ UNCHANGED <<rows, fsm, chat>>

-----------------------------------------------------------------------------
(* Screens: the handlers that only read.                                   *)

Navigate(u) ==
    /\ \/ At(u, "filter", {"/admin"}) /\ Showing(u, <<"post">>, DashboardKeyboard)
       \/ /\ At(u, "filter", {"dashboard"})
          /\ Showing(u, <<"edit", "answer">>, DashboardKeyboard)
       \/ /\ At(u, "filter", {"upload", "help"})
          /\ Showing(u, <<"edit", "answer">>, BackKeyboard)
    /\ UNCHANGED <<rows, fsm, chat>>

ShowPage(u) ==
    /\ At(u, "filter", {"list", "manage", "/list"})
    /\ \E shown \in SUBSET DOMAIN catalog :
        /\ Cardinality(shown) <= PageSize
        /\ Showing(u, IF req[u].act = "/list" THEN <<"post">> ELSE <<"edit", "answer">>,
                   ListKeyboard(shown))
    /\ UNCHANGED <<rows, fsm, chat>>

RenderAndAnswer(u) ==       \* mutant: the caller answers a failure too
    /\ At(u, "filter", {"detail", "delete_start"})
    /\ Missing(u) /\ Then(u, <<"answer", "answer">>)
    /\ UNCHANGED <<rows, fsm, chat>>

\* _render_detail and _render_delete_confirm.
Render(u) ==
    /\ At(u, "filter", {"detail", "delete_start"})
    /\ \/ Missing(u) /\ Then(u, <<"answer">>)
       \/ \E content \in Named(u) :
            Showing(u, <<"edit", "answer">>,
                    IF req[u].act = "detail"
                    THEN DetailKeyboard(req[u].code, content.state)
                    ELSE DeleteKeyboard(req[u].code))
    /\ UNCHANGED <<rows, fsm, chat>>

TargetOf(act) == CASE act \in {"activate", "content:activate", "/activate"} -> {"active"}
                   [] act \in {"deactivate", "content:deactivate", "/deactivate"} -> {"inactive"}
                   [] OTHER -> {}

\* _confirm_command: refused at once, or a message that asks.
Ask(u) ==
    /\ At(u, "filter", {"/activate", "/deactivate", "/delete"})
    /\ \/ Missing(u) /\ Then(u, <<"answer">>)
       \/ \E content \in Named(u) :
            /\ content.state \in TargetOf(req[u].act)
            /\ Then(u, <<"answer">>)
       \/ \E content \in Named(u) :
            /\ content.state \notin TargetOf(req[u].act)
            /\ Showing(u, <<"post">>, ConfirmationKeyboard(
                CASE req[u].act = "/activate"   -> "content:activate"
                  [] req[u].act = "/deactivate" -> "content:deactivate"
                  [] req[u].act = "/delete"     -> "content:delete", req[u].code))
    /\ UNCHANGED <<rows, fsm, chat>>

-----------------------------------------------------------------------------
(* Changes.  activate_content, deactivate_content and                       *)
(* set_content_expiration look whether the content is there, and the        *)
(* repository selects it again; delete_content only does that.              *)

\* The handlers that were refused answer, and those that were not go on.
SwitchState(u) ==
    /\ At(u, "filter", StateActs)
    /\ \/ /\ \A content \in Named(u) : content.state \in TargetOf(req[u].act)
          /\ Then(u, <<"answer">>)
       \/ /\ \E content \in Named(u) : content.state \notin TargetOf(req[u].act)
          /\ Then(u, <<"load">>)
    /\ UNCHANGED <<rows, fsm, chat>>

NoDialogue == dialogue' = {} /\ latest' = {}

\* The ORM writes a column only if its value is another one.
Dirty(act, content) ==
    CASE act \in StateActs -> content.state \notin TargetOf(act)
      [] act \in ClearActs -> content.expires # {}
      [] OTHER -> TRUE

\* SELECT by code.
Load(u) ==
    /\ At(u, "load", Acts) \/ At(u, "filter", DeleteActs)
    /\ \/ /\ Missing(u) /\ Then(u, <<"answer">>)
          /\ IF req[u].act = "days" THEN NoDialogue ELSE UNCHANGED fsm
       \/ \E content \in Named(u) :
            /\ Become(u, [req[u] EXCEPT
                            !.todo = <<IF Dirty(req[u].act, content)
                                       THEN "write" ELSE "refresh">>,
                            !.held = {key[req[u].code]}])
            /\ UNCHANGED fsm
    /\ UNCHANGED <<rows, chat>>

Change(act, code) ==
    \/ \E state \in TargetOf(act) : SetState(code, state)
    \/ act \in ClearActs /\ SetExpiration(code, {})
    \/ /\ act \in {"days", "/expire"}
       /\ \E deadline \in Dates \ {0} : SetExpiration(code, {deadline})

\* UPDATE by primary key, and commit; when the row is gone it raises
\* StaleDataError, which no handler catches.
Write(u) ==
    /\ At(u, "write", Acts \ DeleteActs)
    /\ \/ \E code \in Keyed(u) : Change(req[u].act, code)
          /\ Then(u, <<"refresh">>) /\ UNCHANGED key
       \/ Keyed(u) = {} /\ Fail(u) /\ UNCHANGED rows
    /\ UNCHANGED <<fsm, chat>>

\* DELETE by primary key: only a warning when the row is gone.  _confirm_delete
\* and _apply_mutation answer first and edit the message then.
ConfirmDelete(u) ==
    /\ At(u, "write", DeleteActs)
    /\ \/ \E code \in Keyed(u) : Remove(code)
       \/ Keyed(u) = {} /\ UNCHANGED rows
    /\ Showing(u, <<"answer", "edit">>, {})
    /\ UNCHANGED <<fsm, chat>>

ReplyTo(act) == CASE act \in {"media", "/expire", "/expire off"} -> <<"answer">>
                  [] act = "days"                               -> <<"replace", "answer">>
                  [] OTHER                                      -> <<"answer", "edit">>

\* session.refresh: SELECT by primary key; it raises when the row is gone.
Refresh(u) ==
    /\ At(u, "refresh", Acts)
    /\ \/ Keyed(u) = {} /\ Fail(u)
       \/ \E code \in Keyed(u) :
            Showing(u, ReplyTo(req[u].act),
                    IF req[u].act \in UxActs
                    THEN DetailKeyboard(code, catalog[code].state) ELSE {})
    /\ UNCHANGED <<rows, fsm, chat>>

\* content:cancel.
Dismiss(u) ==
    /\ At(u, "filter", {"content:cancel"})
    /\ Showing(u, <<"answer", "edit">>, {})
    /\ UNCHANGED <<rows, fsm, chat>>

\* content_upload_handler, for messages the dialogue does not take: one
\* INSERT, and commit, under a code no content has.
Upload(u) ==
    /\ At(u, "filter", {"media"}) /\ ~req[u].awaited
    /\ \E code \in Codes, source \in Sources, k \in NewKeys :
        /\ Insert(code, source, k)
        /\ Become(u, [req[u] EXCEPT !.todo = <<"refresh">>, !.held = {k}])
    /\ UNCHANGED <<fsm, chat>>

\* set_content_expiration with the days typed: it is refused, or goes on; a
\* number too large raises (see Fault).
ExpireCommand(u) ==
    /\ At(u, "filter", {"/expire", "/expire off"})
    /\ \/ (Missing(u) \/ req[u].act = "/expire") /\ Then(u, <<"answer">>)
       \/ ~Missing(u) /\ Then(u, <<"load">>)
    /\ UNCHANGED <<rows, fsm, chat>>

-----------------------------------------------------------------------------
(* The expiration dialogue.  The memory storage of the FSM does not await.  *)

\* Mutant of StartExpiration: only the first press sets the data.
KeepFirst(u) ==
    /\ At(u, "filter", {"expire"})
    /\ dialogue' = IF dialogue = {} THEN {[code |-> req[u].code, at |-> req[u].at]}
                   ELSE dialogue
    /\ latest' = {req[u].code}
    /\ Showing(u, <<"edit", "answer">>, ExpirationKeyboard(req[u].code))
    /\ UNCHANGED <<rows, chat>>

\* Any pending dialogue is replaced by the one of this content.
StartExpiration(u) ==
    /\ At(u, "filter", {"expire"})
    /\ dialogue' = {[code |-> req[u].code, at |-> req[u].at]}
    /\ latest' = {req[u].code}
    /\ Showing(u, <<"edit", "answer">>, ExpirationKeyboard(req[u].code))
    /\ UNCHANGED <<rows, chat>>

ClearExpiration(u) ==
    /\ At(u, "filter", {"expire_off"})
    /\ NoDialogue
    /\ Then(u, <<"service">>)
    /\ UNCHANGED <<rows, chat>>

ExpirationOff(u) ==
    /\ At(u, "service", {"expire_off"})
    /\ Then(u, IF Missing(u) THEN <<"answer">> ELSE <<"load">>)
    /\ UNCHANGED <<rows, fsm, chat>>

\* Whatever dialogue is pending ends, this message's or another's.
Cancel(u) ==
    /\ At(u, "filter", {"cancel"})
    /\ NoDialogue
    /\ Then(u, <<"answer", "preview">>)
    /\ UNCHANGED <<rows, chat>>

\* _render_detail after CANCEL: a content that is gone is a second answer.
CancelDetail(u) ==
    /\ At(u, "preview", {"cancel"})
    /\ \/ Missing(u) /\ Then(u, <<"answer">>)
       \/ \E content \in Named(u) :
            Showing(u, <<"edit">>, DetailKeyboard(req[u].code, content.state))
    /\ UNCHANGED <<rows, fsm, chat>>

\* expiration_days_handler: the state was read on arrival, the data is read
\* now, and may have been cleared or replaced.
Days(u) ==
    /\ At(u, "filter", {"days"}) /\ req[u].awaited
    /\ \/ dialogue = {} /\ NoDialogue /\ Then(u, <<"answer">>)
       \/ \E data \in dialogue :
            /\ Become(u, [req[u] EXCEPT !.todo = <<"service">>,
                                        !.code = data.code, !.at = data.at])
            /\ UNCHANGED fsm
    /\ UNCHANGED <<rows, chat>>

\* A content that is gone ends the dialogue, zero days do not.
DaysSet(u) ==
    /\ At(u, "service", {"days"})
    /\ \/ Missing(u) /\ NoDialogue /\ Then(u, <<"answer">>)
       \/ ~Missing(u) /\ UNCHANGED fsm /\ (Then(u, <<"answer">>) \/ Then(u, <<"load">>))
    /\ UNCHANGED <<rows, chat>>

\* _replace_prompt, then state.clear: of whatever dialogue is pending by now.
ReplacePrompt(u) ==
    /\ At(u, "replace", {"days"})
    /\ \/ screen' = Shown(req[u].at, {})
       \/ Faults /\ UNCHANGED screen
    /\ NoDialogue
    /\ Then(u, Tail(req[u].todo))
    /\ UNCHANGED <<rows, sent>>

\* expiration_invalid_handler takes uploads too; unsupported_content_handler;
\* list_handler when the page is not a number.
Decline(u) ==
    /\ \/ At(u, "filter", {"words", "/list"})
       \/ At(u, "filter", {"media"}) /\ req[u].awaited
       \/ At(u, "filter", {"days"}) /\ ~req[u].awaited
    /\ Then(u, <<"answer">>)
    /\ UNCHANGED <<rows, fsm, chat>>

-----------------------------------------------------------------------------
(* Telegram.                                                               *)

AnswerAgain(u) ==           \* mutant: the answer is retried for ever
    /\ At(u, "answer", Acts)
    /\ Become(u, [req[u] EXCEPT !.told = @ + 1])
    /\ UNCHANGED <<rows, fsm, chat>>

\* query.answer, or message.answer without a keyboard.
Answer(u) ==
    /\ At(u, "answer", Acts)
    /\ Become(u, [req[u] EXCEPT !.todo = Tail(@), !.told = @ + 1])
    /\ UNCHANGED <<rows, fsm, chat>>

\* _edit_text swallows the error when Telegram refuses: the keyboard stays, and
\* the handler goes on.
Edit(u) ==
    /\ At(u, "edit", Acts)
    /\ \/ screen' = Shown(req[u].at, req[u].show)
       \/ Faults /\ UNCHANGED screen
    /\ Then(u, Tail(req[u].todo))
    /\ UNCHANGED <<rows, fsm, sent>>

\* message.answer with a keyboard: a new message.
Post(u) ==
    /\ At(u, "post", Acts)
    /\ \E m \in Messages \ sent :
        /\ sent' = sent \cup {m}
        /\ screen' = [screen EXCEPT ![m] = req[u].show]
    /\ Then(u, <<>>)
    /\ UNCHANGED <<rows, fsm>>

\* An exception no handler catches.  OverflowError needs no fault.
Fault(u) ==
    /\ \/ Faults /\ Running(u)
       \/ At(u, "service", {"days"})
       \/ At(u, "filter", {"/expire"})
    /\ Fail(u)
    /\ UNCHANGED <<rows, fsm, chat>>

\* The storage is in memory: the dialogue and the handlers are gone, the
\* messages with their buttons are not.
Restart ==
    /\ Faults
    /\ NoDialogue
    /\ req' = [u \in Updates |->
                  IF Running(u) THEN Free(TRUE) ELSE req[u]]
    /\ UNCHANGED <<rows, chat>>

\* The other administrators, and the clock.
Others ==
    /\ \/ \E code \in Codes, source \in Sources, k \in NewKeys : Insert(code, source, k)
       \/ \E code \in Codes : Remove(code)
       \/ CatalogNext /\ DOMAIN catalog' = DOMAIN catalog /\ UNCHANGED key
    /\ UNCHANGED <<fsm, chat, req>>

-----------------------------------------------------------------------------

Observe ==
    asked' = [u \in Updates |->
                IF req'[u].act # "days" THEN {} ELSE asked[u] \cup latest']

Init ==
    /\ CatalogInit /\ key = [code \in {} |-> {}]
    /\ dialogue = {} /\ latest = {} /\ sent = {}
    /\ screen = [m \in Messages |-> {}]
    /\ asked = [u \in Updates |-> {}]
    /\ req = [u \in Updates |-> Free(FALSE)]

Handle(u) ==
    \/ Navigate(u) \/ ShowPage(u) \/ Render(u) \/ Ask(u)
    \/ SwitchState(u) \/ Load(u) \/ Write(u) \/ ConfirmDelete(u) \/ Refresh(u)
    \/ Dismiss(u) \/ Upload(u) \/ ExpireCommand(u)
    \/ StartExpiration(u) \/ ClearExpiration(u) \/ ExpirationOff(u)
    \/ Cancel(u) \/ CancelDetail(u)
    \/ Days(u) \/ DaysSet(u) \/ ReplacePrompt(u) \/ Decline(u)
    \/ Answer(u) \/ Edit(u) \/ Post(u)

Step ==
    \/ \E u \in Updates : Press(u) \/ Send(u) \/ Block(u) \/ Handle(u) \/ Fault(u)
    \/ Restart \/ Others

Next == Step /\ Observe
Spec == Init /\ [][Next]_vars

-----------------------------------------------------------------------------
(* Properties                                                              *)

Own(u) == req'[u] # req[u]

\* Days that are typed set only the deadline of a content whose EXPIRE press
\* was the last one when the message arrived, or came while it was handled,
\* with no cancel, clear, answer or restart in between.  The handler trusts a
\* state read on arrival, data read after the filter's query and a key read
\* two awaits later, while other presses replace and clear the dialogue and
\* others delete and upload.  For keys that nobody holds when they are handed
\* out; with SQLite's rowids the UPDATE may hit another content.
DaysReachAsked ==
    [][\A u \in Updates, c \in DOMAIN catalog \cap DOMAIN catalog' :
          (Own(u) /\ req[u].act = "days" /\ catalog'[c] # catalog[c])
              => c \in asked[u]]_vars

\* This administrator's updates delete a content only by a press under a
\* message that asked whether to delete that very content and offered to
\* cancel (task 04: "Destructive actions require explicit confirmation").  The
\* row is deleted by a key read an await before, so this too is for keys that
\* nobody holds when they are handed out.
DeletionsConfirmed ==
    [][\A u \in Updates, c \in DOMAIN catalog \ DOMAIN catalog' : Own(u) =>
          req[u].from \in {DeleteKeyboard(c),
                           ConfirmationKeyboard("content:delete", c)}]_vars

\* A handler that ends without an exception has answered, and once, whether or
\* not Telegram let it edit the message; except that CANCEL answers again when
\* it finds the content gone.
Answers(u) ==
    req[u].told + (IF Head(req[u].todo) \in {"answer", "post"} THEN 1 ELSE 0)

Ends(u) == Running(u) /\ ~Running(u)' /\ ~req'[u].failed

AnsweredOnce ==
    [][\A u \in Updates : Ends(u) =>
          \/ Answers(u) = 1
          \/ Answers(u) = 2 /\ req[u].act = "cancel" /\ req[u].show = {}]_vars

\* A CANCEL that runs to its end leaves nothing of its question on the message
\* (task 06: "navigation and cancellation do not leave users in dead-end
\* states").
CancelLeaves ==
    [][\A u \in Updates : Ends(u) /\ req[u].act = "cancel" =>
          \A m \in req[u].at : On({"cancel"}, req[u].code) \cap screen'[m] = {}]_vars

=============================================================================
