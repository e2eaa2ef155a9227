----------------------------- MODULE RateLimit -----------------------------
(***************************************************************************)
(* The per-user rate limits of the two routers: RateLimitMiddleware of     *)
(* app/middlewares/rate_limit.py over the in-memory fixed-window store of  *)
(* app/services/rate_limit_service.py, with RATE_LIMIT_ENABLED set.        *)
(*                                                                         *)
(* One event is one action: increment takes a lock inside which nothing is *)
(* awaited, so no other task runs between its reads and its writes.  All   *)
(* the keys of both scopes share one store of bounded capacity.            *)
(***************************************************************************)
EXTENDS Integers, FiniteSets, Functions

CONSTANTS
    Scopes,     \* "user" and "admin"
    Users,
    Limit,      \* RATE_LIMIT_USER_PER_MINUTE and RATE_LIMIT_ADMIN_PER_MINUTE
    Window,     \* RATE_LIMIT_WINDOW_SECONDS
    Capacity,   \* MAX_TRACKED_KEYS
    MaxTime,    \* bound: the monotonic clock stops here
    MaxCount    \* bound: events counted in one bucket

ASSUME RateAssumption ==
    /\ Limit \in [Scopes -> Nat \ {0}]
    /\ Window \in Nat \ {0}
    /\ Capacity \in Nat
    /\ MaxTime \in Nat
    /\ MaxCount \in Nat \ {0}

VARIABLES
    now,        \* time.monotonic()
    buckets,    \* _buckets: start and count of each tracked key
    recent,     \* history: the events of each key admitted in the last Window
    verdict     \* history: what became of the last event, until time passes

vars == <<now, buckets, recent, verdict>>

\* _bucket_key: the scope is part of the key.
Unscoped(scope, user) == <<"user", user>>   \* mutant
BucketKey(scope, user) == <<scope, user>>

Keys == Scopes \X Users

\* An admitted event: when it came, and the how manieth of its key it was at
\* that time.
Events == [time : 0..MaxTime, nth : Nat \ {0}]

TypeOK ==
    /\ now \in 0..MaxTime
    /\ buckets \in [DOMAIN buckets -> [start : 0..MaxTime, count : 1..MaxCount]]
    /\ DOMAIN buckets \subseteq Keys
    /\ recent \in [Keys -> SUBSET Events]
    /\ verdict \in [key : Keys,
                    answer : {"none", "admitted", "blocked", "untracked"}]

Active(bucket) == now - bucket.start < Window

-----------------------------------------------------------------------------

OverFull(store) == Cardinality(DOMAIN store) > Capacity     \* mutant
Full(store) == Cardinality(DOMAIN store) >= Capacity

CountedOn(bucket) == [bucket EXCEPT !.count = @ + 1]    \* mutant: windows never end

\* A tracked key: a bucket whose window has elapsed starts again.
Counted(bucket) ==
    IF Active(bucket)
    THEN [bucket EXCEPT !.count = @ + 1]
    ELSE [start |-> now, count |-> 1]

\* Mutants of Pruned: nothing is ever pruned, or everything is.
Unpruned == buckets
Cleared == IF Full(buckets) THEN Restrict(buckets, {}) ELSE buckets

\* _prune_expired, which only runs when a new key finds the store full.
Pruned ==
    IF Full(buckets)
    THEN Restrict(buckets, {key \in DOMAIN buckets : Active(buckets[key])})
    ELSE buckets

UncountedFirst(old, key) ==     \* mutant: the first event is not counted
    [k \in DOMAIN old \cup {key} |-> IF k = key THEN [start |-> now, count |-> 0]
                                     ELSE old[k]]

Tracked(old, key) ==
    [k \in DOMAIN old \cup {key} |-> IF k = key THEN [start |-> now, count |-> 1]
                                     ELSE old[k]]

\* History: one more event of the key is admitted now.
Now(events) == {event \in events : event.time = now}
Admit(key) ==
    recent' = [recent EXCEPT ![key] =
                 @ \cup {[time |-> now, nth |-> Cardinality(Now(@)) + 1]}]

\* The middleware's answer to a counted event.
AllowOneMore(scope, count) == count > Limit[scope] + 1      \* mutant
Exceeds(scope, count) == count > Limit[scope]

Judge(scope, user, count) ==
    IF Exceeds(scope, count)
    THEN /\ verdict' = [key |-> <<scope, user>>, answer |-> "blocked"]
         /\ UNCHANGED recent
    ELSE /\ verdict' = [key |-> <<scope, user>>, answer |-> "admitted"]
         /\ Admit(<<scope, user>>)

CountTracked(scope, user) ==
    LET key == BucketKey(scope, user) IN
    /\ key \in DOMAIN buckets
    /\ Active(buckets[key]) => buckets[key].count < MaxCount
    /\ buckets' = [buckets EXCEPT ![key] = Counted(@)]
    /\ Judge(scope, user, buckets'[key].count)
    /\ UNCHANGED now

TrackNew(scope, user) ==
    LET key == BucketKey(scope, user) IN
    /\ key \notin DOMAIN buckets
    /\ ~Full(Pruned)
    /\ buckets' = Tracked(Pruned, key)
    /\ Judge(scope, user, 1)
    /\ UNCHANGED now

\* RateLimitStoreFullError: the event is let through, counted nowhere.
FailOpen(scope, user) ==
    /\ BucketKey(scope, user) \notin DOMAIN buckets
    /\ Full(Pruned)
    /\ buckets' = Pruned
    /\ verdict' = [key |-> <<scope, user>>, answer |-> "untracked"]
    /\ UNCHANGED <<now, recent>>

Tick ==
    /\ now < MaxTime
    /\ now' = now + 1
    /\ recent' = [key \in Keys |->
                    {event \in recent[key] : now' - event.time < Window}]
    /\ verdict' = [verdict EXCEPT !.answer = "none"]
    /\ UNCHANGED buckets

\* The process restarts: the counters are lost, and so is what they promised.
Restart ==
    /\ buckets' = [key \in {} |-> 0]
    /\ recent' = [key \in Keys |-> {}]
    /\ verdict' = [verdict EXCEPT !.answer = "none"]
    /\ UNCHANGED now

Init ==
    /\ now = 0
    /\ buckets = [key \in {} |-> 0]
    /\ recent = [key \in Keys |-> {}]
    /\ verdict \in [key : Keys, answer : {"none"}]

Event(scope, user) ==
    CountTracked(scope, user) \/ TrackNew(scope, user) \/ FailOpen(scope, user)

Next ==
    \/ \E scope \in Scopes, user \in Users : Event(scope, user)
    \/ Tick
    \/ Restart

Spec == Init /\ [][Next]_vars

-----------------------------------------------------------------------------
(* Properties                                                              *)

\* The store never tracks more keys than its capacity.  The code compares the
\* size before it inserts, and prunes only then.
CapacityBound == Cardinality(DOMAIN buckets) <= Capacity

\* An active bucket is never evicted nor rewound, short of a restart: nobody
\* gets a fresh window by making others fill the store.
ActiveKept ==
    \A key \in DOMAIN buckets : Active(buckets[key]) =>
        /\ key \in DOMAIN buckets'
        /\ buckets'[key].start = buckets[key].start
        /\ buckets'[key].count >= buckets[key].count

ActiveNeverEvicted == [][Restart \/ ActiveKept]_vars

\* Fixed windows let at most two windows' worth of counted events through in
\* any stretch of one window's length, whatever was pruned or counted again.
Admitted(key) == Cardinality(recent[key])

SlidingBound ==
    \A scope \in Scopes, user \in Users :
        Admitted(<<scope, user>>) <= 2 * Limit[scope]

\* Nobody is blocked for what others did or for what he did in the other
\* scope: a blocked user had the full limit of this scope admitted within the
\* last window.
BlockedJustified ==
    verdict.answer = "blocked" =>
        Admitted(verdict.key) >= Limit[verdict.key[1]]

\* An event goes uncounted only while as many other keys as the store can
\* hold are inside their windows.
UntrackedJustified ==
    verdict.answer = "untracked" =>
        \E others \in SUBSET (Keys \ {verdict.key}) :
            /\ Cardinality(others) >= Capacity
            /\ \A key \in others : key \in DOMAIN buckets /\ Active(buckets[key])

\* The store keeps buckets whose windows are over, and forgets them when it
\* needs the room: nobody can tell.  Seen without them it is a store that
\* drops each bucket at the end of its window.
OpenWindows == [key \in {k \in DOMAIN buckets : Active(buckets[k])} |-> buckets[key]]

Abstract == INSTANCE RateWindows WITH windows <- OpenWindows

ImplementsWindows == Abstract!WindowsSpec

=============================================================================
