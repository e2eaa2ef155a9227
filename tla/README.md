# TLA+ models of dano-bot

dano-bot is a Telegram bot: administrators upload messages (videos, files, ...)
and get a deep link for each; users who open the link, and who are in the
required channel, get a copy of the message. It is one Python process (aiogram,
asyncio) over a SQL database, SQLite in the deployment that works today.

aiogram starts one task per update, so every `await` is a point where any other
handler may run. Almost everything that can go wrong in this code goes wrong
there: a row is read in one session and written in another, a check is made two
awaits before the act it protects, a dialogue is cleared after another began.
The models split the operations at exactly these points.

## The system

| Part | Code | State | Operations | Module |
|---|---|---|---|---|
| Content table | `app/database/models.py`, `repositories.py` | rows of `content` | create, set state, set expiration, delete, read by code | `ContentCatalog` (what it promises), `ContentManagement` (how) |
| Content management | `services/content_management_service.py`, `content_service.py` | sessions of the running operations | upload, activate, deactivate, delete, expire | `ContentManagement` |
| Delivery | `services/access_service.py`, `membership_service.py`, `router/user/handlers.py` | running requests, membership prompts in the chats; at Telegram, who is in the channel | `/start`, `/start <code>`, the "check membership" button | `Access` |
| Rate limits | `services/rate_limit_service.py`, `middlewares/rate_limit.py` | the buckets of one bounded in-memory store | count an event, prune, let through, block | `RateWindows` (what it promises), `RateLimit` (how) |
| Startup | `main.py`, `database/database.py`, the migration, `services/identity_service.py` | tables, the recorded revision, `admin`, the process | migrate, seed the administrators, become ready, poll; die | `Identity` |
| Registration | `repositories.get_or_create_user` | rows of `user` | look up, insert, select again | `Identity` |
| Health | `services/health_service.py` | starting / ready / failed | mark ready, mark failed | `Identity` (partly) |
| Admin panel | `router/admin/**` | the dialogue `awaiting_days` and its data; messages with codes in their buttons; running handlers | screens, confirmations, commands, uploads, the expiration dialogue | `AdminPanel` |
| Routing | the filters and middlewares of both routers | none; queries `admin` per update | pick a handler | `AdminPanel` (partly) |
| Listing | `content_management_service.list_content` | the list on the screen, between count and read | count, clamp, read a page, turn pages | `Listing` |
| Channel link | `services/channel_service.py` | a cache per bot object | resolve | not modelled |
| Configuration, logging, texts, image | the rest | none over time | | not modelled |

How they interact: the middlewares count an event before its handler runs; an
admin handler calls one service operation per press or command, a user handler
calls `ensure_user` and `deliver_content`; the services call the repositories,
each call one session and one transaction; the handlers answer, and edit prompts
whose buttons lead to later handlers. Delivery shares with management only the
content table. Startup runs to its end before polling begins. The panel's
messages outlive everything: a button pressed a week later, after a restart,
starts a handler with the code it was made for.

What is hard here, in the order of importance:

* **read, await, act**: deliveries copy a row read two awaits before; updates
  and deletes go by a primary key read before; `activate` checks in one session
  and writes in another (`Access`, `ContentManagement`);
* **primary keys that come back**: SQLite gives the key of a deleted last row to
  the next insert (`ContentManagement`, `AdminPanel`);
* **partial failure**: a commit that stands and a refresh that raises, a copy
  that arrived and an error that says it did not, an answer that cannot be sent
  after the delivery (`ContentManagement`, `Access`);
* **a dialogue beside other handlers**: its state is read when a message
  arrives, its data when the handler starts, and both are cleared two awaits
  later, while buttons of old messages start, replace and end dialogues
  (`AdminPanel`);
* **pages of a list that moves**: counted in one session, read in another, and
  turned by positions that uploads and deletions shift (`Listing`);
* **crash and restart**: migration statement by statement, seeding row by row
  (`Identity`);
* **races for unique keys**: registrations, code allocation (`Identity`,
  `ContentManagement`);
* **bounds**: the store of the rate limiter, its windows, the allocation loop,
  the last date (`RateLimit`, `ContentManagement`).

`PROJECT.json` lists each hazard at its line with the properties that watch it.

## The modules

### ContentCatalog: what the content table promises

A map from codes to contents (`source`, `state`, `expires`) and a clock in days;
one action per repository function that writes. It knows neither ids nor
sessions. A deadline is a set with at most one element, the nullable column.
It is used three times: as the abstract specification `ContentManagement`
implements, as the environment of `Access`, for which administrators are whatever
makes these steps, and as the table of `AdminPanel`, which adds the primary keys
its own handlers write by.

### ContentManagement: sessions and primary keys

`content` is the table by primary key. A task goes through

    resolve -> load -> write -> refresh -> done     activate, deactivate, expire
    load -> write -> done                           delete
    insert (up to MaxAttempts times) -> refresh     upload

one action per database await: `Resolve` is `_resolve_content` with the checks
its callers make on the row, `Load` the SELECT that opens the second session,
`CommitUpdate`/`CommitDelete`/`CommitInsert` the flush and commit, `Refresh` the
SELECT by primary key after it. SQLAlchemy is modelled by what it does: only
assigned columns are written, nothing is sent when nothing changed, an UPDATE
without a row raises, a DELETE without a row only warns, a refresh of a vanished
row raises. `IsNextId` is the database's choice of a key: with `RowidReuse` one
more than the largest in use (SQLite's `INTEGER PRIMARY KEY`), without it a key
never handed out before (`AUTOINCREMENT`, or a PostgreSQL sequence). With
`DbFaults` any statement may fail, and a delete may be lost after it committed.

`seen` is a history variable: whether at some moment of a task's run its content
was as the task wants it, and whether it was absent.

### Access: delivery

A request goes `ensure -> read -> check -> member -> copy -> reply (-> resolve)`:
`Read` is `get_content_by_code`, `Check` the state and the deadline against the
clock at that moment, `IsMember` Telegram's answer, `CopyMessage` the copy,
`ReplyMessage` and `AnswerQuery` the answers of the two kinds of handlers,
`ResolvePrompt` the edit that takes the button away. `prompt` is what the chats
still show. Between any two of these steps the catalog, the channel and the clock
move. With `Faults` Telegram and the database may fail: a membership that cannot
be asked is a no, a copy that raised may have arrived, an edit may fail silently,
any await may raise out of the handler. The histories `seen` and `open` hold what
was true of the user and the code while the request was undecided; `"redated"` in
`seen` says that the deadline in hand was not the content's own any more (put off,
cleared, or the content deleted) before the clock was looked at. That is the one way
to be refused as expired from a content that never was, and `RefusalsJustified` names it.

### RateLimit: the store and the middleware

One action per event, because `increment` awaits nothing inside its lock:
`CountTracked`, `TrackNew`, `FailOpen`. `Restart` is a new process. `recent` is a
history: for each key the events admitted within the last window, each with its time
and its number among those of that time; `Tick` drops the ones that grew too old. Its
size is what a user got in any stretch of a window's length.
`RATE_LIMIT_ENABLED` is taken to be set.

### RateWindows: what the limiter promises

A key has at most one window, which ends by itself; at most `Capacity` are open;
events are counted in their window and judged by the limit of their scope, and pass
uncounted when no window can be opened. There is no pruning and no bucket that
outlives its window. `RateLimit` implements it with `windows <- OpenWindows`, the
buckets that are still active: that the code keeps the others until their key comes
back or a new key finds the store full cannot be told from outside. A tick of the
clock, in which the store does nothing, is where the abstract windows disappear.

### Identity: startup and registration

`phase` is where `main` is; `CreateTable` one CREATE of the migration (with its
indices), `FinishMigration` the recording of the revision. On SQLite alembic
treats DDL as not transactional, so each CREATE is durable at once.
`ListAdmins` reads the table, `SeedUser`/`SeedAdmin` the two commits of
`get_or_create_admin`, `Unseed` the commit of one removal. `Die` may happen
anywhere; `Configure` changes `ADMIN_IDS` while the process is down. The handler
tasks run `get_or_create_user`: `Lookup`, `Insert`, `Reselect`.

### AdminPanel: the administrator's messages and the dialogue

One administrator in his chat. `screen` maps each message to the buttons it has,
with the codes they were made for; `dialogue` is the FSM: empty, or the data of
`awaiting_days`. `req` has one handler per update in flight, as the list `todo` of
the awaits still before it:

    filter -> service? -> load -> write -> refresh -> answer, edit, post, preview or replace

`Arrive` is the middleware of the FSM, which reads the state, and the start of the
admin filter's query; the step that takes `"filter"` off is the handler up to its
next await, and there is one action per handler of `router/admin` (`Render`,
`Ask`, `SwitchState`, `StartExpiration`, `Cancel`, `Days`, ...).

The changes go as in `repositories.py`: `SwitchState`, `DaysSet`, `ExpireCommand` and
`ExpirationOff` are the look at the row in the service's first session, `Load` the
SELECT by code that opens the second, `Write` the UPDATE and `ConfirmDelete` the
DELETE of whatever row has the key in `held` by then, `Refresh` the SELECT by that
key. `key` gives each content its primary key, and `RowidReuse` says whether a new
content may get one that a handler still holds. `Others` are the other administrators,
who upload (`Insert`), delete (`Remove`) and take any other step of the catalog at any
time; how their sessions do it is `ContentManagement`'s matter.

`Answer`, `Edit` and `Post` are Telegram's three calls. The order in which the code
makes them is kept: a page edits and then answers, a change answers and then edits.
With `Faults` an edit may be refused, which is swallowed and the handler goes on; any
await may raise; and `Restart` loses the dialogue and the handlers but not the
messages.

Which handler takes a typed message follows the order of registration: while days
are awaited digits go to `expiration_days_handler` and anything else that is no
command to `expiration_invalid_handler`, uploads too; otherwise media is an upload
and the rest is unsupported.

Histories: `asked[u]` collects the contents whose EXPIRE was the last and
undecided while the message of `u` was in flight; `latest` is the one of now;
`from` remembers the keyboard under which a deletion was pressed; `told` counts
answers.

### Listing: counted, clamped, read

`list` is the table in its order, newest first. A view goes `count -> read`, one
action per session; `Create` and `Delete` fall in between. `created_at` is set before
the INSERT, so an upload may come to stand behind up to `Overlap` others that were
committed before it. `walk` is a history of
the pages turned one by one from the first: what was seen, whether anything twice,
what stayed in the list all the time, and which kinds of changes there were.

## The runs

| Run | Instance | Distinct states | Shows |
|---|---|---|---|
| `MCContentManagement_safety` | 2 tasks, 2 codes, fresh keys, faults | 621 077 | `RepliesWitnessed`: what an administrator is told was true during his operation; `WritesAreNamed`: every write hits the content that was named, in the one column that was meant |
| `MCContentManagement_rowid` | 2 tasks, 1 code, SQLite keys, 2 days, dates up to 2 | 72 294 | `TypeOK`; `ImplementsCatalog`: the table read as a map steps as `ContentCatalog`; `ErrorsExplained`: while the database works, a change ends in an exception only if its content was deleted meanwhile; `OperationsEnd` |
| `MCContentManagement_rowid_reuse` | 2 tasks, 2 codes, SQLite keys | violated | a delete lands on another content |
| `MCContentManagement_state_change` | 2 tasks, nothing fails | violated | an activation or deactivation raced by a delete is not answered |
| `MCAccess` | 2 requests, 1 user, 4 kinds of membership, faults, 3 days | 140 230 | `TypeOK`, `DeliveryPermitted`, `RefusalsJustified`, `PromptKept`, `RequestsEnd`, `EligibleServed` |
| `MCRateLimit` | 2 users, 2 scopes, room for 2 keys, window 3, 8 ticks | 54 797 | the limits (`CapacityBound`, `SlidingBound`, `BlockedJustified`, `UntrackedJustified`, `ActiveNeverEvicted`), `TypeOK`, and `ImplementsWindows` |
| `MCIdentity` | 2 ids, 2 tasks, 3 disturbances | 4 847 | startup (`ServesConfigured`, `AdminsAreUsers`, `ConfiguredKept`, `EndsUpServing`) and registration (`RegistrationsFound`, `RegistrationsEnd`), `TypeOK`; `NeverRepaired`: a first migration that was cut short stays so; no deadlock |
| `MCIdentity_first_boot` | 1 disturbance | violated | a death inside the first migration is final |
| `MCAdminPanel` | 2 updates, 2 codes, 3 fresh keys, 1 message, faults, restarts | 631 500 | `TypeOK`, `DaysReachAsked`, `DeletionsConfirmed`, `AnsweredOnce` |
| `MCAdminPanel_cancel` | 1 update, nothing fails | violated | CANCEL leaves the question about a content that was deleted |
| `MCListing` | 5 contents, pages of 2, page numbers 0 to 4, uploads that overtake one | 45 330 | `TypeOK`, `PagesPartition`, `MissesExplained`, `RepeatsExplained`, `EmptyTruthful` |
| `MCListing_stability` | 5 contents, pages of 2 | violated | an upload between two pages shows a content twice |

### The bounds, and why they are enough

* Two tasks or requests: every race in this code is between an operation and one
  other. The second task of `ContentManagement` restarts as often as it likes, so
  one slow operation meets any sequence of fast ones: delete and upload again,
  which is what bringing a primary key back takes. The proofs below hold for any
  number.
* `MaxId` 3 lets a content be replaced twice; an upload starts only while every
  pending one can still get an id (`Room`), so the bound cuts no operation short.
* One code in `_rowid` keeps the temporal check small; the violated run shows the
  effect of a second one. `MaxAttempts` 1 or 2 makes exhaustion happen.
* `MaxDate` is the last date of `datetime`: small, so that the overflow happens.
  `MaxTime` lets a deadline be reached and passed.
* In `MCRateLimit` four keys compete for two places, the limits 1 and 2 differ,
  and eight ticks hold two windows and the boundary between them. `MaxCount`
  stops a bucket one above the larger limit, the first value that blocks.
* `MaxDisturbances` 3 allows: a death inside a step, a new `ADMIN_IDS`, and a
  second death while the consequences are repaired.
* In `MCAdminPanel` one update may be anything but EXPIRE, the other only EXPIRE or
  CANCEL (`Offered`): a race needs one that starts or ends the dialogue beside any
  other. That two EXPIRE, or two messages of days, in flight at once make no
  difference is left to the proofs. Slots are used again, so one slow handler meets
  any number of fast ones. One message is enough for two handlers to meet on it,
  and it shows every keyboard in turn; a code that comes back after a deletion
  happens with two codes and one source. `MaxDate` 1 gives one deadline, so setting and
  clearing differ. Three keys: two contents and one key that a handler still holds
  for a content that is gone; an upload waits while all three are taken. In
  `MCAdminPanel_cancel` the one update may be anything: other administrators suffice.
* In `MCListing` five contents make three pages, the last one not full; 0 and 4 lie
  outside what there is, on both sides. `Overlap` 1 lets an upload come second.

Deadlock is checked in `MCIdentity`, whose process never stops for good. The
other models stop where a bound stops the clock, the requests or the tasks, so
their runs say `CHECK_DEADLOCK FALSE` (`MCRateLimit` and `MCListing` never stop and
check it; in `MCAdminPanel` the last message can be used up).

### Fairness

Only the system's own steps are fair: a handler that started runs on
(`WF` of its step: the event loop schedules every ready task, and a call returns
or raises), and startup runs on, which includes the container's restart
(`compose.yaml`, `restart: unless-stopped`). Users, administrators, the clock,
deaths and faults are under no obligation. `EligibleServed` leaves out a
request one of whose own calls failed: it may end in an error that asks the user to try
later. It speaks of contents without a deadline, since one with a deadline that is put
off in time may still be refused as expired.
`AdminPanel` and `Listing` state no fairness: their properties speak of what a
handler has done when it ends, not that it ends.

### Findings

1. `MCContentManagement_rowid_reuse`: a delete that waits (SQLite has one writer)
   while another administrator deletes the same content and a third uploads one
   deletes the new content. `docs/tasks/04-administration.md` asks for explicit
   confirmation of destructive actions. An UPDATE goes by the same key, so a deadline
   or a state can land on the new content too: with `RowidReuse = TRUE` TLC finds
   `DaysReachAsked` and `DeletionsConfirmed` of the panel violated as well.
2. `MCContentManagement_state_change`: the exceptions of a commit or a refresh
   whose row is gone reach no handler.
3. `MCIdentity_first_boot`: the migration is not exactly-once; interrupted, it can
   never be completed by restarting.
4. `MCAdminPanel_cancel`: CANCEL on a prompt whose content was deleted meanwhile
   answers twice and leaves the prompt with its two buttons, neither of which leads
   anywhere. `docs/tasks/06-telegram-ux.md` asks for cancellation without dead ends
   (lines 374, 376 and 513).
5. `MCListing_stability`: pages are cut by offset, so an upload between two pages
   repeats a content and a deletion hides one. `docs/tasks/04-administration.md` (line
   27) asks for lists that are stable under pagination.

### Remarks

What else the models show, without a run of its own:

* A number of days that leads past the last date raises `OverflowError`
  (`content_management_service.py:158`), which no handler catches: the administrator gets no
  answer and the dialogue goes on, while `docs/tasks/06-telegram-ux.md` (from line 408)
  asks for an explanation of an invalid expiration value. It takes one administrator and
  one number. `Resolve` and `AdminPanel`'s `Fault` have it.
* A content whose deadline is put off between the SELECT and the look at the clock is
  refused as expired although it never was (`RefusalsJustified` says exactly when).
* An EXPIRE whose edit is refused, or covered by the screen of another press,
  leaves a dialogue that waits for days without showing it; uploads are refused
  until it is ended.
* `state.clear` at the end of `expiration_days_handler` ends a dialogue started
  meanwhile; its prompt stays on screen and the days typed for it are refused as
  unsupported. They reach no content, which is what `DaysReachAsked` shows.
* The list is called empty if the page that was counted was deleted before it was read
  (`EmptyTruthful` says exactly when).
* A press of CANCEL that finds its content gone is answered twice (`AnsweredOnce`).

### Mutants

Next to some definitions stands a second one marked as a mutant: the same
operator with a bug that code could plausibly have (a filter in a lookup, a
forgotten status, a whole row written back, a missing guard). Substituting it
must break the property `PROJECT.json` names. They are used nowhere else;
`LargestPlusOne` is both a mutant and SQLite's rule.

## The proofs

Checked by TLAPS, for every value of the constants that satisfies the named
assumptions of the modules.

* **ContentManagementProofs**. `TypeCorrect`; its substance is that no deadline
  beyond the last date is ever stored. `WritesNamed` assumes that keys are never
  handed out again (`RowidReuse = FALSE`), which finding 1 shows to be needed. It
  rests on the inductive invariant `Addressed`: every key in the table or in the
  hands of a session was handed out before, and if the row a session loaded is
  still there, it has the code the task was asked for. The property alone is not
  inductive, since it says nothing of a session between its SELECT and its commit.
* **ContentManagementRefinement**. `CatalogImplemented`, the refinement, for both ways
  of handing out keys, from `Indexed`: codes are unique among the rows, a sequence's
  next key is not in use, and every deadline in the hands of a session lies after day
  0. The lemmas `Inserted`, `Replaced` and `Removed` say what a change of one row does
  to the table read as a map; a session that writes a row inserted meanwhile under its
  key still writes one row of the map. `AnswersWitnessed` (with `RowidReuse = FALSE`)
  adds `Addressed` and `Truth`: a session with nothing to change found the content as
  asked, one whose row is gone saw the content go in the step that removed it, and one
  that has committed saw its change. `ErrorsAreDeletions` holds for both ways of
  handing out keys and assumes only a database that does not fail (`DbFaults = FALSE`;
  a failing one raises for no reason of the bot's). Its invariant is `Lost`: the row
  that a change loaded is still there under the code it was asked for, or the code was
  absent in between. A key that came back under another code counts as the second,
  since the row had to go first. So a deletion, as in finding 2, is the only way to
  such an exception: two changes of one content never make each other fail.
* **AccessProofs**. `TypeCorrect`, and `DeliveriesPermitted` by the invariant
  `Vouched`: at `check`, if the row in hand would pass now then its source was open
  when it was read; at `member` and `copy` it was open; at `copy` the user was in
  the channel. The step from `read` to `check` needs that time only runs forward
  (`DeliverableBefore`): a row that passes later would have passed when read.
  `RefusalsAreJustified` by `Justified`: while a request is decided its history holds
  all that is so now, and at `check` also that an inactive row in hand was inactive when
  it was read. The deadline in hand is the content's own, which then has expired too, or
  is not, which the history says; so whichever check refuses finds its fact there, and
  settling the outcome keeps that fact. `PromptsKept` by
  `Prompted`: a request about to resolve a prompt has answered, and the request that
  resolved one stays as it was.
* **RateLimitProofs**. `TypeCorrect`; `CapacityNeverExceeded`, inductive together
  with the finiteness of the set that is counted; `ActiveBucketsKept`;
  `UncountedOnlyWhenFull`, since a store that is full after pruning holds only
  active buckets, none of them the event's. `SlidingBounded` and `BlockedOnlyAtLimit`
  rest on the inductive invariant `Measured`, which relates the bucket of a key to the
  history of the key. Inside a window (`Inside`) the admitted events since its start
  are as many as the count says, up to the limit, and those before it at most the
  limit; without an open window (`Outside`) all that is recent is at most the limit
  and lies in the past. Neither bound is inductive alone, because a window that ends
  leaves its events behind for the next one. The limit is reached by counting
  events, so `Numbered` has to make every admitted event a new member of its set.
  The history is finite (`Histories`, proved with `TypeCorrect`). `WindowsImplemented`
  is the refinement: an event changes at most the window of its key, pruning none
  (`OneWindow`), and the store has room whenever the windows have, since a store
  that is full after pruning holds nothing but open windows.
* **IdentityProofs**. `AdministratorsConfigured` and `AdministratorsAreUsers` from
  `Seeded`: while seeding, what is left to add and to remove is exactly the
  difference between table and configuration. `ConfiguredNeverRemoved` follows
  from it. `TypeCorrect` is inductive by itself. `HalfMigratedForGood`, which is
  finding 4 for any number of boots: the tables are created in their order
  (`ContentFirst`), so what a death leaves behind has `content` in it, and from
  there every step keeps the process between a boot and its first statement
  (`Stuck`). `RegistrationsReturnRows` from `Registered`: users are never removed,
  so a task that lost its race finds the row.
* **ContentCatalogProofs**: each action of the catalog keeps its type; used by the
  proofs of `Access` and `AdminPanel`.
* **AdminPanelProofs**. The inductive invariant `Inv` has three parts.
  `Sound` gives for each handler the awaits that can be left and how often it has
  answered by then; without it `AnsweredOnce` is not inductive, nor `told <= 1`.
  It also says that the keyboards on the messages and in the hands of handlers are
  `Proper`: a button that deletes stands only under a question about its code, from
  which `DeletionsAreConfirmed` follows at the moment of the press, and is carried
  to the deletion by `from`. `AboutLatest`: a pending dialogue is about the latest
  EXPIRE. `AskedInv`: a handler of days that has read its data was asked about that
  content. `UpdatesAnsweredOnce` follows from `Sound`, with or without refused edits.
  `DaysReachWhatWasAsked` and `DeletionsAreConfirmed` need that the key a handler holds
  is that of the content it was asked for or of none, and assume
  `RowidReuse = FALSE` for it. That is `Addressed`, inductive because only a SELECT by
  code gives a handler a key (`LoadAddresses`), no key changes its content
  (`RowsKept`), and no upload takes one that is held (`KeysAddressed`).
* **ListingProofs**. `PagesCutTheList` is arithmetic on `TotalPages` and `PageOf`.
  The walk needs `ListInv`: as long as nothing was deleted, what stayed and lies on
  or before the last page turned has been seen (`BehindSeen`); as long as nothing was
  uploaded, nothing that was seen lies beyond it (`SeenBehind`); and the count in
  hand bounds the length of the list on the side that nothing has happened on
  (`Counted`). `MissesHaveACause` and `RepeatsHaveACause` follow. Neither property is inductive without the positions.

Every invariant and action property of a passing run, and both refinements, are proved.
Only model-checked: liveness (`OperationsEnd`, `RequestsEnd`, `EligibleServed`,
`EndsUpServing`, `RegistrationsEnd`), because the prover handles neither fairness
nor ENABLED. `WritesNamed`, `AnswersWitnessed`, `DaysReachWhatWasAsked` and `DeletionsAreConfirmed`
assume keys that are never handed out again (for the panel: not while a handler holds
them); on SQLite's rowids they do not hold. Without the assumption `WritesAreNamed`,
`DaysReachAsked` and `DeletionsConfirmed` are false (finding 1), and an answer about a
content may rest on the row of another one.

## What the models leave out

* The wall clock and the monotonic clock are taken never to step back.
* PostgreSQL: the code prepares for it, but the migration uses a synchronous driver
  that is not among the dependencies. `RowidReuse = FALSE` covers its keys.
* A process death in `ContentManagement` and `Access` is a `Fault`: nothing of a
  handler survives it but what it committed or sent.
* The link of the required channel, resolved in one more await before a membership
  prompt is sent: it reads and changes nothing that `Access` has.
* Telegram ids beyond 32 bits, which Integer columns of PostgreSQL could not hold.
* `ChannelLink`: a link resolved once is kept for the life of the bot object.
  Nothing renews it and nothing promises that it is current.
* Updates of users who are no administrators in `AdminPanel`, and an administrator
  removed while he uses it: administrators change at boot only (`Identity`).
* The page number in the panel's buttons, and whether a page has neighbours, which
  are `Listing`'s matter; the buttons `content:list:`, which no keyboard has.
* Events without a user, wording, layout, logging, configuration parsing.

## Plan

Done: `ContentCatalog`, `ContentManagement`, `Access`, `RateLimit`, `Identity`, then
`AdminPanel` and `Listing`, with their runs and proofs; the refinement
`ImplementsCatalog`; the sums over the limiter's history; `RateWindows` and its
refinement; the two properties about what cannot go wrong and what cannot be mended
(`ErrorsExplained`, `NeverRepaired`).

Open: carrying `DeliveriesPermitted` over to the sessions. `Access` is proved over the steps of
`ContentCatalog`, and `ContentManagement` is proved to take only such steps, so a
module with both would inherit the property through `CatalogImplemented`; its state
space is the product of the two, so only the proof is in reach.

A module `Routing` that composes both routers with `RateLimit` (an event is counted
once, in one scope) would have no state but the limiter's; it is worth writing when
routing keeps some.
