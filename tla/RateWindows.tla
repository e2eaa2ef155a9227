---------------------------- MODULE RateWindows ----------------------------
(***************************************************************************)
(* What the rate limiter promises, without saying how it remembers: each   *)
(* key that had a counted event has one window, which ends by itself, and  *)
(* at most Capacity windows are open at a time.  Nothing is pruned here,   *)
(* because nothing outlives its window.                                    *)
(*                                                                         *)
(* RateLimit implements it with a store (rate_limit_service) that keeps    *)
(* buckets past the end of their windows, until their key comes back or a  *)
(* new key finds no room.                                                  *)
(***************************************************************************)
EXTENDS Integers, FiniteSets

CONSTANTS
    Scopes,     \* "user" and "admin"
    Users,
    Limit,      \* events admitted in a window, by scope
    Window,     \* how long a window lasts
    Capacity,   \* windows open at a time
    MaxTime,    \* bound: the monotonic clock stops here
    MaxCount    \* bound: events counted in one window

VARIABLES
    now,        \* time.monotonic()
    windows,    \* the open windows: start and count of each key
    verdict     \* what became of the last event, until time passes

windowVars == <<now, windows, verdict>>

Verdict(key, count) ==
    [key |-> key, answer |-> IF count > Limit[key[1]] THEN "blocked" ELSE "admitted"]

\* One more event in an open window.
CountEvent(key) ==
    /\ key \in DOMAIN windows
    /\ windows[key].count < MaxCount
    /\ windows' = [windows EXCEPT ![key].count = @ + 1]
    /\ verdict' = Verdict(key, windows[key].count + 1)
    /\ UNCHANGED now

\* The first event of a window.
OpenWindow(key) ==
    /\ key \notin DOMAIN windows
    /\ Cardinality(DOMAIN windows) < Capacity
    /\ windows' = [k \in DOMAIN windows \cup {key} |->
                     IF k = key THEN [start |-> now, count |-> 1] ELSE windows[k]]
    /\ verdict' = Verdict(key, 1)
    /\ UNCHANGED now

\* An event for which no window can be opened passes.
PassUncounted(key) ==
    /\ key \notin DOMAIN windows
    /\ Cardinality(DOMAIN windows) >= Capacity
    /\ verdict' = [key |-> key, answer |-> "untracked"]
    /\ UNCHANGED <<now, windows>>

\* Time passes, and the windows that are over are gone.
TimePasses ==
    /\ now < MaxTime
    /\ now' = now + 1
    /\ windows' = [key \in {k \in DOMAIN windows : now' - windows[k].start < Window} |->
                     windows[key]]
    /\ verdict' = [verdict EXCEPT !.answer = "none"]

\* A new process has no window open.
Forget ==
    /\ windows' = [key \in {} |-> 0]
    /\ verdict' = [verdict EXCEPT !.answer = "none"]
    /\ UNCHANGED now

WindowsInit ==
    /\ now = 0
    /\ windows = [key \in {} |-> 0]
    /\ verdict \in [key : Scopes \X Users, answer : {"none"}]

WindowsNext ==
    \/ \E key \in Scopes \X Users :
          CountEvent(key) \/ OpenWindow(key) \/ PassUncounted(key)
    \/ TimePasses
    \/ Forget

WindowsSpec == WindowsInit /\ [][WindowsNext]_windowVars

=============================================================================
