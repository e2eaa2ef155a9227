--------------------------- MODULE RateLimitProofs ---------------------------
(***************************************************************************)
(* Theorems about RateLimit, for any number of users, any limits, any      *)
(* window and any capacity.                                                *)
(***************************************************************************)
EXTENDS RateLimit, FiniteSetTheorems, TLAPS

\* The set of admitted events of each key is finite; it is what TypeOK needs
\* beside it, because a new event is numbered by counting those before it.
Histories == \A key \in Keys : IsFiniteSet(recent[key])

Fresh(key) == [time |-> now, nth |-> Cardinality(Now(recent[key])) + 1]

\* Admitting an event of a key adds one event to its set and to no other.
LEMMA AdmitType ==
    ASSUME TypeOK, Histories, NEW key \in Keys, Admit(key)
    PROVE  /\ recent' \in [Keys -> SUBSET Events]
           /\ Histories'
           /\ recent' = [recent EXCEPT ![key] = @ \cup {Fresh(key)}]
           /\ IsFiniteSet(Now(recent[key]))
           /\ Cardinality(Now(recent[key])) \in Nat
<1>1. recent' = [recent EXCEPT ![key] = @ \cup {Fresh(key)}]
  BY DEF Admit, Fresh, Now, TypeOK
<1>2. IsFiniteSet(Now(recent[key])) /\ Cardinality(Now(recent[key])) \in Nat
  <2>1. Now(recent[key]) \in SUBSET recent[key]
    BY DEF Now
  <2>2. IsFiniteSet(recent[key])
    BY DEF Histories
  <2> QED
    BY <2>1, <2>2, FS_Subset, FS_CardinalityType
<1>3. Fresh(key) \in Events
  BY <1>2, RateAssumption, SMT DEF Fresh, Events, TypeOK
<1>4. recent' \in [Keys -> SUBSET Events]
  BY <1>1, <1>3, SMT DEF TypeOK
<1>5. Histories'
  <2> SUFFICES ASSUME NEW k \in Keys PROVE IsFiniteSet(recent'[k])
    BY DEF Histories
  <2>1. IsFiniteSet(recent[k])
    BY DEF Histories
  <2>2. recent'[k] = recent[k] \/ recent'[k] = recent[k] \cup {Fresh(key)}
    BY <1>1, SMT DEF TypeOK
  <2> HIDE DEF Fresh
  <2> QED
    BY <2>1, <2>2, FS_AddElement
<1> QED
  BY <1>1, <1>2, <1>4, <1>5

\* What an event leaves behind once its bucket is written: the types of the
\* histories do not depend on the count.
LEMMA JudgeType ==
    ASSUME TypeOK, Histories, NEW scope \in Scopes, NEW user \in Users, NEW count,
           Judge(scope, user, count)
    PROVE  /\ recent' \in [Keys -> SUBSET Events]
           /\ Histories'
           /\ verdict' \in [key : Keys,
                            answer : {"none", "admitted", "blocked", "untracked"}]
<1>1. <<scope, user>> \in Keys
  BY DEF Keys
<1>2. CASE count > Limit[scope]
  BY <1>1, <1>2 DEF Judge, Exceeds, TypeOK, Histories
<1>3. CASE ~(count > Limit[scope])
  <2>1. Admit(<<scope, user>>)
    BY <1>3 DEF Judge, Exceeds
  <2>2. recent' \in [Keys -> SUBSET Events] /\ Histories'
    BY <1>1, <2>1, AdmitType
  <2> QED
    BY <1>1, <1>3, <2>2 DEF Judge, Exceeds
<1> QED
  BY <1>2, <1>3

\* Pruning keeps the buckets of a part of the keys as they are.
LEMMA PrunedType ==
    ASSUME TypeOK
    PROVE  /\ DOMAIN Pruned \subseteq DOMAIN buckets
           /\ \A key \in DOMAIN Pruned : Pruned[key] = buckets[key]
           /\ Pruned \in [DOMAIN Pruned -> [start : 0..MaxTime, count : 1..MaxCount]]
BY SMT DEF TypeOK, Pruned, Restrict

\* Type correctness: the store maps keys to a start in the past and a
\* positive count, whatever sequence of events, ticks and restarts, and no key
\* ever has infinitely many events admitted.
THEOREM TypeCorrect == Spec => [](TypeOK /\ Histories)
<1>1. Init => TypeOK /\ Histories
  <2> SUFFICES ASSUME Init PROVE TypeOK /\ Histories
    OBVIOUS
  <2>1. TypeOK
    BY RateAssumption, SMT DEF Init, TypeOK, Keys
  <2>2. Histories
    BY FS_EmptySet DEF Init, Histories
  <2> QED
    BY <2>1, <2>2
<1>2. ASSUME TypeOK, Histories, [Next]_vars PROVE TypeOK' /\ Histories'
  <2>1. CASE UNCHANGED vars
    BY <1>2, <2>1 DEF vars, TypeOK, Histories
  <2>2. ASSUME NEW scope \in Scopes, NEW user \in Users, CountTracked(scope, user)
        PROVE  TypeOK' /\ Histories'
    <3> DEFINE key == BucketKey(scope, user)
    <3>1. buckets[key] \in [start : 0..MaxTime, count : 1..MaxCount]
      BY <1>2, <2>2 DEF TypeOK, CountTracked
    <3>2. Counted(buckets[key]) \in [start : 0..MaxTime, count : 1..MaxCount]
      BY <1>2, <2>2, <3>1, RateAssumption, SMT DEF TypeOK, CountTracked, Counted
    <3>3. /\ buckets' \in [DOMAIN buckets' -> [start : 0..MaxTime, count : 1..MaxCount]]
          /\ DOMAIN buckets' = DOMAIN buckets
      BY <1>2, <2>2, <3>2, SMT DEF TypeOK, CountTracked
    <3>4. Judge(scope, user, buckets'[key].count)
      BY <2>2 DEF CountTracked
    <3> QED
      BY <1>2, <2>2, <3>3, <3>4, JudgeType DEF TypeOK, CountTracked
  <2>3. ASSUME NEW scope \in Scopes, NEW user \in Users, TrackNew(scope, user)
        PROVE  TypeOK' /\ Histories'
    <3> DEFINE key == BucketKey(scope, user)
    <3>1. key \in Keys
      BY DEF BucketKey, Keys
    <3>2. [start |-> now, count |-> 1] \in [start : 0..MaxTime, count : 1..MaxCount]
      BY <1>2, RateAssumption, SMT DEF TypeOK
    <3>3. /\ buckets' \in [DOMAIN buckets' -> [start : 0..MaxTime, count : 1..MaxCount]]
          /\ DOMAIN buckets' \subseteq Keys
      BY <1>2, <2>3, <3>1, <3>2, PrunedType, SMT DEF TypeOK, TrackNew, Tracked
    <3>4. Judge(scope, user, 1)
      BY <2>3 DEF TrackNew
    <3> QED
      BY <1>2, <2>3, <3>3, <3>4, JudgeType DEF TypeOK, TrackNew
  <2>4. ASSUME NEW scope \in Scopes, NEW user \in Users, FailOpen(scope, user)
        PROVE  TypeOK' /\ Histories'
    <3>1. <<scope, user>> \in Keys
      BY DEF Keys
    <3>2. TypeOK'
      BY <1>2, <2>4, <3>1, PrunedType, SMT DEF TypeOK, FailOpen
    <3> QED
      BY <1>2, <2>4, <3>2 DEF FailOpen, Histories
  <2>5. CASE Tick
    <3>1. \A key \in Keys : recent'[key] \in SUBSET recent[key]
      BY <2>5 DEF Tick
    <3>2. recent' \in [Keys -> SUBSET Events]
      BY <1>2, <2>5, <3>1, SMT DEF TypeOK, Tick
    <3>3. Histories'
      BY <1>2, <3>1, FS_Subset DEF Histories
    <3>4. TypeOK'
      BY <1>2, <2>5, <3>2, RateAssumption, SMT DEF TypeOK, Tick
    <3> QED
      BY <3>3, <3>4
  <2>6. CASE Restart
    <3>1. verdict' \in [key : Keys,
                        answer : {"none", "admitted", "blocked", "untracked"}]
      BY <1>2, <2>6 DEF TypeOK, Restart
    <3>2. recent' \in [Keys -> SUBSET Events] /\ Histories'
      BY <2>6, FS_EmptySet DEF Restart, Histories
    <3>3. /\ buckets' \in [DOMAIN buckets' -> [start : 0..MaxTime, count : 1..MaxCount]]
          /\ DOMAIN buckets' \subseteq Keys
      BY <2>6 DEF Restart
    <3> QED
      BY <1>2, <2>6, <3>1, <3>2, <3>3 DEF TypeOK, Restart
  <2> QED
    BY <1>2, <2>1, <2>2, <2>3, <2>4, <2>5, <2>6 DEF Next, Event
<1> QED
  BY <1>1, <1>2, PTL DEF Spec

-----------------------------------------------------------------------------

\* The capacity bound is inductive with the finiteness of the set it counts.
Bounded == IsFiniteSet(DOMAIN buckets) /\ CapacityBound

\* The store stays finite and within its capacity, step by step.
LEMMA StoreBounded == Spec => []Bounded
<1>1. Init => Bounded
  <2> SUFFICES ASSUME Init PROVE Bounded
    OBVIOUS
  <2>1. DOMAIN buckets = {}
    BY DEF Init
  <2> QED
    BY <2>1, FS_EmptySet, RateAssumption, SMT DEF Bounded, CapacityBound
<1>2. ASSUME TypeOK, Bounded, [Next]_vars PROVE Bounded'
  <2>1. /\ IsFiniteSet(DOMAIN Pruned)
        /\ Cardinality(DOMAIN Pruned) <= Capacity
        /\ Cardinality(DOMAIN Pruned) \in Nat
    <3>1. /\ IsFiniteSet(DOMAIN Pruned)
          /\ Cardinality(DOMAIN Pruned) <= Cardinality(DOMAIN buckets)
      BY <1>2, PrunedType, FS_Subset DEF Bounded
    <3>2. /\ Cardinality(DOMAIN Pruned) \in Nat
          /\ Cardinality(DOMAIN buckets) \in Nat
      BY <1>2, <3>1, FS_CardinalityType DEF Bounded
    <3> QED
      BY <1>2, <3>1, <3>2, RateAssumption, SMT DEF Bounded, CapacityBound
  <2>2. ASSUME DOMAIN buckets' = DOMAIN buckets PROVE Bounded'
    BY <1>2, <2>2 DEF Bounded, CapacityBound
  <2>3. ASSUME NEW scope \in Scopes, NEW user \in Users, TrackNew(scope, user)
        PROVE  Bounded'
    <3> DEFINE key == BucketKey(scope, user)
    <3>1. DOMAIN buckets' = DOMAIN Pruned \cup {key}
      BY <2>3 DEF TrackNew, Tracked
    <3>2. key \notin DOMAIN Pruned
      BY <1>2, <2>3, PrunedType DEF TrackNew
    <3>3. /\ IsFiniteSet(DOMAIN buckets')
          /\ Cardinality(DOMAIN buckets') = Cardinality(DOMAIN Pruned) + 1
      BY <2>1, <3>1, <3>2, FS_AddElement
    <3>4. ~(Cardinality(DOMAIN Pruned) >= Capacity)
      BY <2>3 DEF TrackNew, Full
    <3> QED
      BY <2>1, <3>3, <3>4, RateAssumption, SMT DEF Bounded, CapacityBound
  <2>4. ASSUME NEW scope \in Scopes, NEW user \in Users, FailOpen(scope, user)
        PROVE  Bounded'
    <3>1. buckets' = Pruned
      BY <2>4 DEF FailOpen
    <3> QED
      BY <2>1, <3>1 DEF Bounded, CapacityBound
  <2>5. CASE Restart
    <3>1. DOMAIN buckets' = {}
      BY <2>5 DEF Restart
    <3> QED
      BY <3>1, FS_EmptySet, RateAssumption, SMT DEF Bounded, CapacityBound
  <2>6. ASSUME NEW scope \in Scopes, NEW user \in Users, CountTracked(scope, user)
        PROVE  Bounded'
    BY <1>2, <2>2, <2>6 DEF CountTracked, TypeOK
  <2>7. CASE Tick \/ UNCHANGED vars
    BY <2>2, <2>7 DEF Tick, vars
  <2> QED
    BY <1>2, <2>3, <2>4, <2>5, <2>6, <2>7 DEF Next, Event
<1> QED
  BY <1>1, <1>2, TypeCorrect, PTL DEF Spec

\* The store never exceeds MAX_TRACKED_KEYS, however many keys ask for room.
THEOREM CapacityNeverExceeded == Spec => []CapacityBound
<1>1. Bounded => CapacityBound
  BY DEF Bounded
<1> QED
  BY <1>1, StoreBounded, PTL

-----------------------------------------------------------------------------

\* Short of a restart no step evicts, rewinds or restarts an active bucket.
THEOREM ActiveBucketsKept == Spec => ActiveNeverEvicted
<1>1. ASSUME TypeOK, [Next]_vars PROVE [Restart \/ ActiveKept]_vars
  <2>1. ASSUME NEW scope \in Scopes, NEW user \in Users, CountTracked(scope, user)
        PROVE  ActiveKept
    <3>1. \A key \in DOMAIN buckets :
             buckets[key] \in [start : 0..MaxTime, count : 1..MaxCount]
      BY <1>1 DEF TypeOK
    <3> QED
      BY <1>1, <2>1, <3>1, RateAssumption, SMT
         DEF TypeOK, CountTracked, ActiveKept, Active, Counted
  <2>2. ASSUME NEW scope \in Scopes, NEW user \in Users,
               TrackNew(scope, user) \/ FailOpen(scope, user)
        PROVE  ActiveKept
    <3> SUFFICES ASSUME NEW key \in DOMAIN buckets, Active(buckets[key])
                 PROVE  key \in DOMAIN buckets' /\ buckets'[key] = buckets[key]
      BY <1>1, RateAssumption, SMT DEF ActiveKept, TypeOK
    <3>1. key \in DOMAIN Pruned /\ Pruned[key] = buckets[key]
      BY DEF Pruned, Restrict
    <3>2. CASE TrackNew(scope, user)
      BY <3>1, <3>2 DEF TrackNew, Tracked
    <3>3. CASE FailOpen(scope, user)
      BY <3>1, <3>3 DEF FailOpen
    <3> QED
      BY <2>2, <3>2, <3>3
  <2>3. CASE Tick
    BY <1>1, <2>3, RateAssumption, SMT DEF TypeOK, Tick, ActiveKept
  <2> QED
    BY <1>1, <2>1, <2>2, <2>3 DEF Next, Event
<1> QED
  BY <1>1, TypeCorrect, PTL DEF Spec, ActiveNeverEvicted

-----------------------------------------------------------------------------

\* A store that is full after pruning holds nothing but active buckets.
LEMMA FullOfActive ==
    ASSUME Full(Pruned)
    PROVE  \A key \in DOMAIN Pruned : key \in DOMAIN buckets /\ Active(buckets[key])
                                      /\ Pruned[key] = buckets[key]
BY DEF Pruned, Restrict

\* An event that finds the store full and is let through uncounted leaves it
\* full of other keys, each inside its window.
THEOREM UncountedOnlyWhenFull == Spec => []UntrackedJustified
<1>1. Init => UntrackedJustified
  BY DEF Init, UntrackedJustified
<1>2. ASSUME TypeOK, UntrackedJustified, [Next]_vars PROVE UntrackedJustified'
  <2>1. CASE UNCHANGED vars
    BY <1>2, <2>1 DEF vars, UntrackedJustified, Active
  <2>2. ASSUME NEW scope \in Scopes, NEW user \in Users,
               CountTracked(scope, user) \/ TrackNew(scope, user)
        PROVE  UntrackedJustified'
    <3>1. verdict'.answer \in {"blocked", "admitted"}
      BY <2>2 DEF CountTracked, TrackNew, Judge
    <3> QED
      BY <3>1 DEF UntrackedJustified
  <2>3. ASSUME NEW scope \in Scopes, NEW user \in Users, FailOpen(scope, user)
        PROVE  UntrackedJustified'
    <3>1. /\ buckets' = Pruned /\ now' = now /\ Full(Pruned)
          /\ verdict'.key = BucketKey(scope, user)
          /\ BucketKey(scope, user) \notin DOMAIN buckets
      BY <2>3 DEF FailOpen, BucketKey
    <3>2. DOMAIN buckets' \in SUBSET (Keys \ {verdict'.key})
      BY <1>2, <3>1, PrunedType DEF TypeOK
    <3>3. Cardinality(DOMAIN buckets') >= Capacity
      BY <3>1 DEF Full
    <3>4. \A key \in DOMAIN buckets' : Active(buckets[key])'
      BY <3>1, FullOfActive DEF Active
    <3> QED
      BY <3>2, <3>3, <3>4 DEF UntrackedJustified
  <2>4. CASE Tick \/ Restart
    <3>1. verdict'.answer = "none"
      BY <1>2, <2>4 DEF Tick, Restart, TypeOK
    <3> QED
      BY <3>1 DEF UntrackedJustified
  <2> QED
    BY <1>2, <2>1, <2>2, <2>3, <2>4 DEF Next, Event
<1> QED
  BY <1>1, <1>2, TypeCorrect, PTL DEF Spec

-----------------------------------------------------------------------------

\* The admitted events of a key since a time, and those before it.
Since(key, start) == {event \in recent[key] : event.time >= start}
Before(key, start) == {event \in recent[key] : event.time < start}

\* The events kept are those of the last Window, and those of the present are
\* numbered by how many they are: the next number is a new one.
Numbered(key) ==
    \A event \in recent[key] :
        /\ event.time <= now
        /\ now - event.time < Window
        /\ event.time = now => event.nth <= Cardinality(Now(recent[key]))

\* A key inside its window: the bucket counts the events admitted since its
\* start, until it is at the limit; of the window before, at most a limit's
\* worth is still recent.
Inside(key) ==
    LET bucket == buckets[key]
        limit == Limit[key[1]]
    IN  /\ Cardinality(Since(key, bucket.start)) =
              IF bucket.count > limit THEN limit ELSE bucket.count
        /\ Cardinality(Before(key, bucket.start)) <= limit

\* A key without a window, or whose window is over: what is recent of it was
\* admitted in one window, and before the present.
Outside(key) ==
    /\ Cardinality(recent[key]) <= Limit[key[1]]
    /\ \A event \in recent[key] : event.time < now

Open(key) == key \in DOMAIN buckets /\ Active(buckets[key])

Weighed(key) == Numbered(key) /\ (IF Open(key) THEN Inside(key) ELSE Outside(key))

\* The inductive invariant under the bounds on what is admitted: neither is
\* inductive alone, because a window that ends leaves its events behind.
Measured ==
    /\ \A key \in DOMAIN buckets : buckets[key].start <= now
    /\ \A key \in Keys : Weighed(key)

\* A key keeps its measure when neither its events nor its open window change.
LEMMA WeighedAlone ==
    ASSUME NEW key \in Keys, Weighed(key), now' = now, recent'[key] = recent[key],
           Open(key)' = Open(key), Open(key) => buckets'[key] = buckets[key]
    PROVE  Weighed(key)'
<1>1. Numbered(key)'
  BY DEF Weighed, Numbered, Now
<1>2. CASE Open(key)
  BY <1>1, <1>2 DEF Weighed, Inside, Since, Before
<1>3. CASE ~Open(key)
  BY <1>1, <1>3 DEF Weighed, Outside
<1> QED
  BY <1>2, <1>3

\* The event that is admitted is a new one, and is numbered.
LEMMA FreshNumbered ==
    ASSUME TypeOK, Histories, NEW key \in Keys, Numbered(key), Admit(key), now' = now
    PROVE  /\ Fresh(key) \notin recent[key]
           /\ recent'[key] = recent[key] \cup {Fresh(key)}
           /\ \A k \in Keys : k # key => recent'[k] = recent[k]
           /\ Fresh(key).time = now
           /\ Numbered(key)'
<1>1. /\ recent' = [recent EXCEPT ![key] = @ \cup {Fresh(key)}]
      /\ IsFiniteSet(Now(recent[key]))
      /\ Cardinality(Now(recent[key])) \in Nat
  BY AdmitType
<1>2. /\ recent'[key] = recent[key] \cup {Fresh(key)}
      /\ \A k \in Keys : k # key => recent'[k] = recent[k]
  BY <1>1, SMT DEF TypeOK
<1>3. Fresh(key).time = now /\ Fresh(key).nth = Cardinality(Now(recent[key])) + 1
  BY DEF Fresh
<1>4. Fresh(key) \notin recent[key]
  BY <1>1, <1>3, SMT DEF Numbered
<1>5. \A event \in recent[key] : event.time \in Nat /\ event.nth \in Nat
  BY SMT DEF TypeOK, Events
<1>6. now \in Nat
  BY SMT DEF TypeOK
<1> HIDE DEF Fresh
<1>7. Now(recent[key])' = Now(recent[key]) \cup {Fresh(key)}
  BY <1>2, <1>3 DEF Now
<1>8. Cardinality(Now(recent[key])') = Cardinality(Now(recent[key])) + 1
  <2>1. Fresh(key) \notin Now(recent[key])
    BY <1>4 DEF Now
  <2> QED
    BY <1>1, <1>7, <2>1, FS_AddElement
<1>9. Numbered(key)'
  <2> SUFFICES ASSUME NEW event \in recent'[key]
               PROVE  /\ event.time <= now
                      /\ now - event.time < Window
                      /\ event.time = now =>
                            event.nth <= Cardinality(Now(recent[key])')
    BY DEF Numbered
  <2>1. CASE event \in recent[key]
    BY <1>1, <1>5, <1>6, <1>8, <2>1, SMT DEF Numbered
  <2>2. CASE event = Fresh(key)
    BY <1>1, <1>3, <1>6, <1>8, <2>2, RateAssumption, SMT
  <2> QED
    BY <1>2, <2>1, <2>2
<1> QED
  BY <1>2, <1>3, <1>4, <1>9

\* The parts of a finite set of events are finite, and add up to it.
LEMMA PartsOfRecent ==
    ASSUME TypeOK, Histories, NEW key \in Keys, NEW start \in Nat
    PROVE  /\ IsFiniteSet(Since(key, start)) /\ Cardinality(Since(key, start)) \in Nat
           /\ IsFiniteSet(Before(key, start)) /\ Cardinality(Before(key, start)) \in Nat
           /\ Since(key, start) \cup Before(key, start) = recent[key]
           /\ Cardinality(recent[key]) =
                 Cardinality(Since(key, start)) + Cardinality(Before(key, start))
<1>1. IsFiniteSet(recent[key])
  BY DEF Histories
<1>2. /\ Since(key, start) \in SUBSET recent[key]
      /\ Before(key, start) \in SUBSET recent[key]
  BY DEF Since, Before
<1>3. /\ IsFiniteSet(Since(key, start)) /\ Cardinality(Since(key, start)) \in Nat
      /\ IsFiniteSet(Before(key, start)) /\ Cardinality(Before(key, start)) \in Nat
  BY <1>1, <1>2, FS_Subset, FS_CardinalityType
<1>4. \A event \in recent[key] : event.time \in Nat
  BY SMT DEF TypeOK, Events
<1>5. /\ Since(key, start) \cup Before(key, start) = recent[key]
      /\ Since(key, start) \cap Before(key, start) = {}
  BY <1>4, SMT DEF Since, Before
<1>6. Cardinality({}) = 0
  BY FS_EmptySet
<1>7. Cardinality(recent[key]) = Cardinality(Since(key, start))
                                   + Cardinality(Before(key, start)) - Cardinality({})
  BY <1>3, <1>5, FS_Union
<1> QED
  BY <1>3, <1>5, <1>6, <1>7, SMT

\* An event in an open window: it is admitted until the bucket is at the
\* limit, and from then on nothing is added.
LEMMA CountedInside ==
    ASSUME TypeOK, Histories, NEW scope \in Scopes, NEW user \in Users,
           NEW count \in Nat \ {0}, Weighed(<<scope, user>>), Open(<<scope, user>>),
           buckets[<<scope, user>>].count = count,
           now' = now, <<scope, user>> \in DOMAIN buckets',
           buckets'[<<scope, user>>] =
               [buckets[<<scope, user>>] EXCEPT !.count = count + 1],
           buckets[<<scope, user>>].start <= now,
           Judge(scope, user, count + 1)
    PROVE  Weighed(<<scope, user>>)'
<1> DEFINE key == <<scope, user>>
           start == buckets[key].start
<1>1. key \in Keys /\ key[1] = scope /\ Limit[scope] \in Nat \ {0}
  BY RateAssumption DEF Keys
<1>2. /\ buckets'[key].start = start /\ buckets'[key].count = count + 1
      /\ start \in Nat /\ now \in Nat /\ start <= now
  BY SMT DEF TypeOK, Open
<1>3. Open(key)'
  BY <1>2 DEF Open, Active
<1>4. /\ Cardinality(Since(key, start)) =
             IF count > Limit[scope] THEN Limit[scope] ELSE count
      /\ Cardinality(Before(key, start)) <= Limit[scope]
      /\ Numbered(key)
  BY <1>1 DEF Weighed, Inside
<1>5. CASE count + 1 > Limit[scope]
  <2>1. recent' = recent
    BY <1>5 DEF Judge, Exceeds
  <2>2. Numbered(key)'
    BY <1>4, <2>1 DEF Numbered, Now
  <2>3. Since(key, start)' = Since(key, start) /\ Before(key, start)' = Before(key, start)
    BY <1>2, <2>1 DEF Since, Before
  <2>4. Cardinality(Since(key, start)) = Limit[scope]
    BY <1>1, <1>4, <1>5, SMT
  <2> QED
    BY <1>1, <1>2, <1>3, <1>4, <1>5, <2>2, <2>3, <2>4 DEF Weighed, Inside
<1>6. CASE ~(count + 1 > Limit[scope])
  <2>1. Admit(key)
    BY <1>6 DEF Judge, Exceeds
  <2>2. /\ Fresh(key) \notin recent[key]
        /\ recent'[key] = recent[key] \cup {Fresh(key)}
        /\ Fresh(key).time = now
        /\ Numbered(key)'
    BY <1>1, <1>4, <2>1, FreshNumbered
  <2> HIDE DEF Fresh, key
  <2>0. \A event \in recent[key] : event.time \in Nat
    BY <1>1, SMT DEF TypeOK, Events
  <2>3. /\ Since(key, start)' = Since(key, start) \cup {Fresh(key)}
        /\ Before(key, start)' = Before(key, start)
    BY <1>2, <2>0, <2>2, SMT DEF Since, Before
  <2>4. Fresh(key) \notin Since(key, start)
    BY <2>2 DEF Since
  <2>5. IsFiniteSet(Since(key, start)) /\ Cardinality(Since(key, start)) \in Nat
    BY <1>1, <1>2, PartsOfRecent
  <2>6. Cardinality(Since(key, start)') = Cardinality(Since(key, start)) + 1
    BY <2>3, <2>4, <2>5, FS_AddElement
  <2>7. Cardinality(Since(key, start)') = count + 1
    BY <1>1, <1>4, <1>6, <2>6, SMT
  <2>8. Weighed(key)'
    <3>1. /\ Cardinality(Since(key, start)') =
               IF buckets'[key].count > Limit[key[1]] THEN Limit[key[1]]
                                                     ELSE buckets'[key].count
          /\ Cardinality(Before(key, start)') <= Limit[key[1]]
      BY <1>1, <1>2, <1>4, <1>6, <2>3, <2>7, SMT
    <3>2. Inside(key)'
      BY <3>1 DEF Inside
    <3> QED
      BY <1>3, <2>2, <3>2 DEF Weighed
  <2> QED
    BY <2>8 DEF key
<1> QED
  BY <1>5, <1>6

\* An event that opens a window, the first of its key or one after its last
\* window was over: what is recent now comes before this window.
LEMMA CountedFirst ==
    ASSUME TypeOK, Histories, NEW scope \in Scopes, NEW user \in Users,
           Weighed(<<scope, user>>), ~Open(<<scope, user>>),
           now' = now, <<scope, user>> \in DOMAIN buckets',
           buckets'[<<scope, user>>] = [start |-> now, count |-> 1],
           Judge(scope, user, 1)
    PROVE  Weighed(<<scope, user>>)'
<1> DEFINE key == <<scope, user>>
<1>1. key \in Keys /\ key[1] = scope /\ Limit[scope] \in Nat \ {0} /\ now \in Nat
  BY RateAssumption, SMT DEF Keys, TypeOK
<1>2. buckets'[key].start = now /\ buckets'[key].count = 1
  OBVIOUS
<1>3. Open(key)'
  BY <1>1, <1>2, RateAssumption, SMT DEF Open, Active
<1>4. /\ Cardinality(recent[key]) <= Limit[scope]
      /\ \A event \in recent[key] : event.time < now
      /\ Numbered(key)
  BY <1>1 DEF Weighed, Outside
<1>5. Admit(key)
  BY <1>1, SMT DEF Judge, Exceeds
<1>6. /\ recent'[key] = recent[key] \cup {Fresh(key)}
      /\ Fresh(key).time = now
      /\ Numbered(key)'
  BY <1>1, <1>4, <1>5, FreshNumbered
<1> HIDE DEF key
<1>7. \A event \in recent[key] : event.time \in Nat
  BY <1>1, SMT DEF TypeOK, Events
<1>8. Since(key, now)' = {Fresh(key)} /\ Before(key, now)' = recent[key]
  <2> HIDE DEF Fresh
  <2> QED
    BY <1>1, <1>4, <1>6, <1>7, SMT DEF Since, Before
<1>9. Cardinality({Fresh(key)}) = 1
  <2> HIDE DEF Fresh
  <2> QED
    BY FS_Singleton
<1>10. /\ Cardinality(Since(key, now)') =
            IF buckets'[key].count > Limit[key[1]] THEN Limit[key[1]]
                                                  ELSE buckets'[key].count
       /\ Cardinality(Before(key, now)') <= Limit[key[1]]
  <2> HIDE DEF Fresh
  <2> QED
    BY <1>1, <1>2, <1>4, <1>8, <1>9, SMT
<1>11. Inside(key)'
  BY <1>2, <1>10 DEF Inside, Since, Before
<1>12. Weighed(key)'
  BY <1>3, <1>6, <1>11 DEF Weighed
<1> QED
  BY <1>12 DEF key

\* Time passes: a window that stays open loses none of its own events, and
\* one that ends leaves only its own.
LEMMA WeighedAfterTick ==
    ASSUME TypeOK, Histories, Tick, NEW key \in Keys, Weighed(key),
           \A k \in DOMAIN buckets : buckets[k].start <= now
    PROVE  Weighed(key)'
<1>1. /\ now' = now + 1 /\ now \in Nat /\ buckets' = buckets
      /\ recent'[key] = {event \in recent[key] : now' - event.time < Window}
      /\ Window \in Nat \ {0}
      /\ Limit[key[1]] \in Nat \ {0}
  <2>1. key[1] \in Scopes
    BY DEF Keys
  <2>2. Limit[key[1]] \in Nat \ {0}
    BY <2>1, RateAssumption
  <2>3. now \in Nat /\ Window \in Nat \ {0}
    BY RateAssumption, SMT DEF TypeOK
  <2> QED
    BY <2>2, <2>3 DEF Tick
<1>2. \A event \in recent[key] : event.time \in Nat /\ event.time <= now
  BY SMT DEF TypeOK, Events, Weighed, Numbered
<1>3. Numbered(key)'
  <2> SUFFICES ASSUME NEW event \in recent'[key]
               PROVE  /\ event.time <= now'
                      /\ now' - event.time < Window
                      /\ event.time # now'
    BY DEF Numbered
  <2> QED
    BY <1>1, <1>2, SMT
<1>4. IsFiniteSet(recent[key])
  BY DEF Histories
<1>5. CASE Open(key)
  <2> DEFINE start == buckets[key].start
  <2>1. /\ start \in Nat /\ start <= now
        /\ buckets[key].count \in Nat \ {0}
    BY <1>5, SMT DEF Open, TypeOK
  <2>2. /\ Cardinality(Since(key, start)) =
              IF buckets[key].count > Limit[key[1]] THEN Limit[key[1]]
                                                    ELSE buckets[key].count
        /\ Cardinality(Before(key, start)) <= Limit[key[1]]
    BY <1>5 DEF Weighed, Inside
  <2>3. /\ IsFiniteSet(Since(key, start)) /\ Cardinality(Since(key, start)) \in Nat
        /\ IsFiniteSet(Before(key, start)) /\ Cardinality(Before(key, start)) \in Nat
    BY <2>1, PartsOfRecent
  <2>4. start' = start /\ now' = now + 1
    BY <1>1
  <2>5. CASE now + 1 - start < Window
    <3>1. Open(key)'
      <4>1. now' - buckets'[key].start < Window
        BY <1>1, <2>1, <2>4, <2>5, SMT
      <4>2. key \in DOMAIN buckets'
        BY <1>1, <1>5 DEF Open
      <4> QED
        BY <4>1, <4>2 DEF Open, Active
    <3>2. Since(key, start)' = Since(key, start)
      BY <1>1, <1>2, <2>1, <2>4, <2>5, SMT DEF Since
    <3>3. Before(key, start)' \in SUBSET Before(key, start)
      BY <1>1, <2>4 DEF Before
    <3>4. /\ Cardinality(Before(key, start)') <= Cardinality(Before(key, start))
          /\ Cardinality(Before(key, start)') \in Nat
      BY <2>3, <3>3, FS_Subset, FS_CardinalityType
    <3>5. Cardinality(Before(key, start)') <= Limit[key[1]]
      BY <1>1, <2>2, <2>3, <3>4, SMT
    <3> QED
      BY <1>1, <1>3, <2>2, <2>4, <3>1, <3>2, <3>5 DEF Weighed, Inside
  <2>6. CASE ~(now + 1 - start < Window)
    <3>1. ~Open(key)'
      <4>1. ~(now' - buckets'[key].start < Window)
        BY <1>1, <2>1, <2>4, <2>6, SMT
      <4> QED
        BY <4>1 DEF Open, Active
    <3>2. recent'[key] \in SUBSET Since(key, start)
      BY <1>1, <1>2, <2>1, <2>6, SMT DEF Since
    <3>3. /\ Cardinality(recent'[key]) <= Cardinality(Since(key, start))
          /\ Cardinality(recent'[key]) \in Nat
      BY <2>3, <3>2, FS_Subset, FS_CardinalityType
    <3>4. Cardinality(recent'[key]) <= Limit[key[1]]
      BY <1>1, <2>1, <2>2, <2>3, <3>3, SMT
    <3>5. \A event \in recent'[key] : event.time < now'
      BY <1>1, <1>2, SMT
    <3> QED
      BY <1>3, <3>1, <3>4, <3>5 DEF Weighed, Outside
  <2> QED
    BY <2>5, <2>6
<1>6. CASE ~Open(key)
  <2>1. ~Open(key)'
    <3>1. \A k \in DOMAIN buckets : buckets[k].start \in Nat
      BY SMT DEF TypeOK
    <3> QED
      BY <1>1, <1>6, <3>1, SMT DEF Open, Active
  <2>2. Cardinality(recent[key]) <= Limit[key[1]]
    BY <1>6 DEF Weighed, Outside
  <2>3. recent'[key] \in SUBSET recent[key]
    BY <1>1
  <2>4. /\ Cardinality(recent'[key]) <= Cardinality(recent[key])
        /\ Cardinality(recent'[key]) \in Nat /\ Cardinality(recent[key]) \in Nat
    BY <1>4, <2>3, FS_Subset, FS_CardinalityType
  <2>5. Cardinality(recent'[key]) <= Limit[key[1]]
    BY <1>1, <2>2, <2>4, SMT
  <2>6. \A event \in recent'[key] : event.time < now'
    BY <1>1, <1>2, SMT
  <2> QED
    BY <1>3, <2>1, <2>5, <2>6 DEF Weighed, Outside
<1> QED
  BY <1>5, <1>6

\* A step that leaves alone the events of all keys but its own, and of their
\* buckets drops at most those that are over, leaves their measures alone.
LEMMA MeasuredApart ==
    ASSUME TypeOK, Measured, NEW own \in SUBSET Keys, now' = now,
           \A key \in own :
              Weighed(key)' /\ (key \in DOMAIN buckets' => buckets'[key].start <= now),
           \A key \in Keys \ own : recent'[key] = recent[key],
           \A key \in DOMAIN buckets' \ own :
              key \in DOMAIN buckets /\ buckets'[key] = buckets[key],
           \A key \in DOMAIN buckets \ own :
              Active(buckets[key]) => key \in DOMAIN buckets'
    PROVE  Measured'
<1>1. ASSUME NEW key \in Keys PROVE Weighed(key)'
  <2>1. CASE key \in own
    BY <2>1
  <2>2. CASE key \notin own
    <3>1. Weighed(key) /\ recent'[key] = recent[key]
      BY <2>2 DEF Measured
    <3>2. Open(key)' = Open(key) /\ (Open(key) => buckets'[key] = buckets[key])
      BY <2>2 DEF Open, Active
    <3> QED
      BY <3>1, <3>2, WeighedAlone
  <2> QED
    BY <2>1, <2>2
<1>2. \A key \in DOMAIN buckets' : buckets'[key].start <= now'
  BY DEF Measured
<1> QED
  BY <1>1, <1>2 DEF Measured

\* The answer to an event of one key admits none of another.
LEMMA JudgeOthers ==
    ASSUME TypeOK, Histories, NEW scope \in Scopes, NEW user \in Users, NEW count,
           Judge(scope, user, count)
    PROVE  \A k \in Keys \ {<<scope, user>>} : recent'[k] = recent[k]
<1>1. <<scope, user>> \in Keys
  BY DEF Keys
<1>2. CASE Admit(<<scope, user>>)
  BY <1>1, <1>2, AdmitType, SMT DEF TypeOK
<1>3. CASE recent' = recent
  BY <1>3
<1> QED
  BY <1>2, <1>3 DEF Judge

\* Every step keeps the measure.
LEMMA MeasuredStep ==
    ASSUME TypeOK, Histories, Measured, [Next]_vars
    PROVE  Measured'
<1>1. CASE UNCHANGED vars
  <2>1. now' = now /\ recent' = recent /\ buckets' = buckets
    BY <1>1 DEF vars
  <2>2. /\ \A key \in Keys \ {} : recent'[key] = recent[key]
        /\ \A key \in DOMAIN buckets' \ {} :
              key \in DOMAIN buckets /\ buckets'[key] = buckets[key]
        /\ \A key \in DOMAIN buckets \ {} :
              Active(buckets[key]) => key \in DOMAIN buckets'
    BY <2>1
  <2> QED
    BY <2>1, <2>2, {} \in SUBSET Keys, MeasuredApart
<1>2. ASSUME NEW scope \in Scopes, NEW user \in Users, CountTracked(scope, user)
      PROVE  Measured'
  <2> DEFINE key == <<scope, user>>
  <2>1. key \in Keys /\ key = BucketKey(scope, user)
    BY DEF Keys, BucketKey
  <2>2. /\ key \in DOMAIN buckets /\ now' = now /\ now \in Nat
        /\ buckets' = [buckets EXCEPT ![key] = Counted(buckets[key])]
        /\ Judge(scope, user, buckets'[key].count)
    <3>1. now \in Nat
      BY SMT DEF TypeOK
    <3> QED
      BY <1>2, <2>1, <3>1 DEF CountTracked
  <2>3. /\ DOMAIN buckets' = DOMAIN buckets
        /\ buckets'[key] = Counted(buckets[key])
        /\ \A k \in DOMAIN buckets : k # key => buckets'[k] = buckets[k]
    BY <2>2 DEF TypeOK
  <2>4. /\ buckets[key] \in [start : 0..MaxTime, count : 1..MaxCount]
        /\ buckets[key].count \in Nat \ {0}
    BY <2>2, RateAssumption, SMT DEF TypeOK
  <2>5. Weighed(key) /\ buckets[key].start <= now
    BY <2>1, <2>2 DEF Measured
  <2>6. Weighed(key)' /\ buckets'[key].start <= now
    <3>1. CASE Active(buckets[key])
      <4>1. buckets'[key] = [buckets[key] EXCEPT !.count = buckets[key].count + 1]
        BY <2>3, <3>1 DEF Counted
      <4>2. /\ buckets'[key].count = buckets[key].count + 1
            /\ buckets'[key].start = buckets[key].start
        BY <2>4, <4>1, SMT
      <4>3. Judge(scope, user, buckets[key].count + 1)
        BY <2>2, <4>2
      <4>4. Open(key)
        BY <2>2, <3>1 DEF Open
      <4>5. Weighed(key)'
        BY <2>2, <2>3, <2>4, <2>5, <4>1, <4>3, <4>4, CountedInside
      <4> QED
        BY <2>5, <4>2, <4>5
    <3>2. CASE ~Active(buckets[key])
      <4>1. buckets'[key] = [start |-> now, count |-> 1]
        BY <2>3, <3>2 DEF Counted
      <4>2. Judge(scope, user, 1)
        BY <2>2, <4>1
      <4>3. ~Open(key)
        BY <3>2 DEF Open
      <4>4. Weighed(key)'
        BY <2>2, <2>3, <2>5, <4>1, <4>2, <4>3, CountedFirst
      <4> QED
        BY <2>2, <4>1, <4>4, SMT
    <3> QED
      BY <3>1, <3>2
  <2>7. \A k \in Keys \ {key} : recent'[k] = recent[k]
    BY <2>2, JudgeOthers
  <2> HIDE DEF key
  <2>8. {key} \in SUBSET Keys
    BY <2>1
  <2> QED
    BY <2>2, <2>3, <2>6, <2>7, <2>8, MeasuredApart
<1>3. ASSUME NEW scope \in Scopes, NEW user \in Users, TrackNew(scope, user)
      PROVE  Measured'
  <2> DEFINE key == <<scope, user>>
  <2>1. key \in Keys /\ key = BucketKey(scope, user)
    BY DEF Keys, BucketKey
  <2>2. /\ key \notin DOMAIN buckets /\ now' = now /\ now \in Nat
        /\ buckets' = Tracked(Pruned, key)
        /\ Judge(scope, user, 1)
    BY <1>3, <2>1, SMT DEF TrackNew, TypeOK
  <2>3. /\ DOMAIN buckets' = DOMAIN Pruned \cup {key}
        /\ buckets'[key] = [start |-> now, count |-> 1]
        /\ \A k \in DOMAIN Pruned : k # key => buckets'[k] = Pruned[k]
    BY <2>2 DEF Tracked
  <2>4. Weighed(key) /\ ~Open(key)
    BY <2>1, <2>2 DEF Measured, Open
  <2>5. Weighed(key)'
    BY <2>2, <2>3, <2>4, CountedFirst
  <2>6. buckets'[key].start <= now
    BY <2>2, <2>3, SMT
  <2>7. \A k \in Keys \ {key} : recent'[k] = recent[k]
    BY <2>2, JudgeOthers
  <2>8. \A k \in DOMAIN buckets : Active(buckets[k]) => k \in DOMAIN Pruned
    BY DEF Pruned, Restrict
  <2>9. /\ DOMAIN Pruned \subseteq DOMAIN buckets
        /\ \A k \in DOMAIN Pruned : Pruned[k] = buckets[k]
    BY PrunedType
  <2> HIDE DEF key
  <2>10. {key} \in SUBSET Keys
    BY <2>1
  <2> QED
    BY <2>2, <2>3, <2>5, <2>6, <2>7, <2>8, <2>9, <2>10, MeasuredApart
<1>4. ASSUME NEW scope \in Scopes, NEW user \in Users, FailOpen(scope, user)
      PROVE  Measured'
  <2>1. now' = now /\ recent' = recent /\ buckets' = Pruned
    BY <1>4 DEF FailOpen
  <2>2. \A k \in DOMAIN buckets : Active(buckets[k]) => k \in DOMAIN Pruned
    BY DEF Pruned, Restrict
  <2>3. /\ DOMAIN Pruned \subseteq DOMAIN buckets
        /\ \A k \in DOMAIN Pruned : Pruned[k] = buckets[k]
    BY PrunedType
  <2>4. /\ \A key \in Keys \ {} : recent'[key] = recent[key]
        /\ \A key \in DOMAIN buckets' \ {} :
              key \in DOMAIN buckets /\ buckets'[key] = buckets[key]
        /\ \A key \in DOMAIN buckets \ {} :
              Active(buckets[key]) => key \in DOMAIN buckets'
    BY <2>1, <2>2, <2>3
  <2> QED
    BY <2>1, <2>4, {} \in SUBSET Keys, MeasuredApart
<1>5. CASE Tick
  <2>1. \A key \in DOMAIN buckets : buckets[key].start <= now
    BY DEF Measured
  <2>2. \A key \in DOMAIN buckets' : buckets'[key].start <= now'
    <3>1. /\ buckets' = buckets /\ now' = now + 1 /\ now \in Nat
          /\ \A key \in DOMAIN buckets : buckets[key].start \in Nat
      BY <1>5, SMT DEF Tick, TypeOK
    <3> QED
      BY <2>1, <3>1, SMT
  <2>3. \A key \in Keys : Weighed(key)'
    BY <1>5, <2>1, WeighedAfterTick DEF Measured
  <2> QED
    BY <2>2, <2>3 DEF Measured
<1>6. CASE Restart
  <2>1. DOMAIN buckets' = {} /\ recent' = [key \in Keys |-> {}]
    BY <1>6 DEF Restart
  <2>2. ASSUME NEW key \in Keys PROVE Weighed(key)'
    <3>1. recent'[key] = {} /\ ~Open(key)'
      BY <2>1 DEF Open
    <3>2. Cardinality({}) <= Limit[key[1]]
      <4>1. key[1] \in Scopes
        BY DEF Keys
      <4> QED
        BY <4>1, FS_EmptySet, RateAssumption, SMT
    <3> QED
      BY <3>1, <3>2 DEF Weighed, Numbered, Outside
  <2> QED
    BY <2>1, <2>2 DEF Measured
<1> QED
  BY <1>1, <1>2, <1>3, <1>4, <1>5, <1>6 DEF Next, Event

\* At all times the recent events of each key are measured by its window.
THEOREM AlwaysMeasured == Spec => []Measured
<1>1. Init => Measured
  <2> SUFFICES ASSUME Init PROVE Measured
    OBVIOUS
  <2>1. DOMAIN buckets = {} /\ recent = [key \in Keys |-> {}]
    BY DEF Init
  <2>2. ASSUME NEW key \in Keys PROVE Weighed(key)
    <3>1. recent[key] = {} /\ ~Open(key)
      BY <2>1 DEF Open
    <3>2. Cardinality({}) <= Limit[key[1]]
      <4>1. key[1] \in Scopes
        BY DEF Keys
      <4> QED
        BY <4>1, FS_EmptySet, RateAssumption, SMT
    <3> QED
      BY <3>1, <3>2 DEF Weighed, Numbered, Outside
  <2> QED
    BY <2>1, <2>2 DEF Measured
<1>2. TypeOK /\ Histories /\ Measured /\ [Next]_vars => Measured'
  BY MeasuredStep
<1> QED
  BY <1>1, <1>2, TypeCorrect, PTL DEF Spec

-----------------------------------------------------------------------------

\* Fixed windows admit at most twice the limit in any stretch of one window's
\* length, however windows are restarted and buckets pruned.
THEOREM SlidingBounded == Spec => []SlidingBound
<1>1. TypeOK /\ Histories /\ Measured => SlidingBound
  <2> SUFFICES ASSUME TypeOK, Histories, Measured, NEW scope \in Scopes, NEW user \in Users
               PROVE  Admitted(<<scope, user>>) <= 2 * Limit[scope]
    BY DEF SlidingBound
  <2> DEFINE key == <<scope, user>>
  <2>1. key \in Keys /\ key[1] = scope /\ Limit[scope] \in Nat \ {0}
    BY RateAssumption DEF Keys
  <2>2. Weighed(key)
    BY <2>1 DEF Measured
  <2>3. CASE Open(key)
    <3>1. /\ Cardinality(Since(key, buckets[key].start)) =
               IF buckets[key].count > Limit[scope] THEN Limit[scope]
                                                   ELSE buckets[key].count
          /\ Cardinality(Before(key, buckets[key].start)) <= Limit[scope]
      BY <2>1, <2>2, <2>3 DEF Weighed, Inside
    <3>2. buckets[key].start \in Nat /\ buckets[key].count \in Nat
      BY <2>3, SMT DEF Open, TypeOK
    <3> HIDE DEF key
    <3>3. /\ Cardinality(Since(key, buckets[key].start)) \in Nat
          /\ Cardinality(Before(key, buckets[key].start)) \in Nat
          /\ Cardinality(recent[key]) = Cardinality(Since(key, buckets[key].start))
                                         + Cardinality(Before(key, buckets[key].start))
      BY <2>1, <3>2, PartsOfRecent
    <3>4. Admitted(key) <= 2 * Limit[scope]
      BY <2>1, <3>1, <3>2, <3>3, SMT DEF Admitted
    <3> QED
      BY <3>4 DEF key
  <2>4. CASE ~Open(key)
    <3>1. Cardinality(recent[key]) <= Limit[scope]
      BY <2>1, <2>2, <2>4 DEF Weighed, Outside
    <3>2. Cardinality(recent[key]) \in Nat
      BY <2>1, FS_CardinalityType DEF Histories
    <3> QED
      BY <2>1, <3>1, <3>2, SMT DEF Admitted
  <2> QED
    BY <2>3, <2>4
<1> QED
  BY <1>1, TypeCorrect, AlwaysMeasured, PTL

\* Whoever is blocked had the full limit of that scope admitted within the
\* last window: nothing others do, and nothing in the other scope, adds to it.
THEOREM BlockedOnlyAtLimit == Spec => []BlockedJustified
<1>1. Init => BlockedJustified
  BY DEF Init, BlockedJustified
<1>2. ASSUME TypeOK, Histories, Measured, Measured', TypeOK', Histories',
             BlockedJustified, [Next]_vars
      PROVE  BlockedJustified'
  <2>1. CASE UNCHANGED vars
    BY <1>2, <2>1 DEF vars, BlockedJustified, Admitted
  <2>2. ASSUME NEW scope \in Scopes, NEW user \in Users, NEW count,
               Judge(scope, user, count), <<scope, user>> \in DOMAIN buckets',
               Active(buckets[<<scope, user>>])',
               count = buckets'[<<scope, user>>].count
        PROVE  BlockedJustified'
    <3> DEFINE key == <<scope, user>>
    <3>1. key \in Keys /\ key[1] = scope /\ Limit[scope] \in Nat \ {0}
      BY RateAssumption DEF Keys
    <3>2. CASE ~(count > Limit[scope])
      BY <2>2, <3>2 DEF BlockedJustified, Judge, Exceeds
    <3>3. CASE count > Limit[scope]
      <4>1. verdict'.key = key
        BY <2>2, <3>3 DEF Judge, Exceeds
      <4>2. Inside(key)'
        BY <1>2, <2>2, <3>1 DEF Measured, Weighed, Open
      <4>3. Cardinality(Since(key, buckets[key].start)') = Limit[scope]
        BY <2>2, <3>1, <3>3, <4>2 DEF Inside
      <4>4. IsFiniteSet(recent'[key])
        BY <1>2, <3>1 DEF Histories
      <4>5. Since(key, buckets[key].start)' \in SUBSET recent'[key]
        BY DEF Since
      <4>6. Cardinality(recent'[key]) >= Limit[scope]
        <5>1. /\ Cardinality(Since(key, buckets[key].start)') <= Cardinality(recent'[key])
              /\ Cardinality(recent'[key]) \in Nat
          BY <4>4, <4>5, FS_Subset, FS_CardinalityType
        <5> QED
          BY <3>1, <4>3, <5>1, SMT
      <4> QED
        BY <3>1, <4>1, <4>6 DEF BlockedJustified, Admitted
    <3> QED
      BY <3>2, <3>3
  <2>3. ASSUME NEW scope \in Scopes, NEW user \in Users, CountTracked(scope, user)
        PROVE  BlockedJustified'
    <3> DEFINE key == <<scope, user>>
    <3>1. /\ key \in DOMAIN buckets /\ now' = now /\ now \in Nat
          /\ buckets' = [buckets EXCEPT ![key] = Counted(buckets[key])]
          /\ Judge(scope, user, buckets'[key].count)
      BY <1>2, <2>3, SMT DEF CountTracked, TypeOK, BucketKey
    <3>2. /\ key \in DOMAIN buckets' /\ buckets'[key] = Counted(buckets[key])
          /\ buckets[key] \in [start : 0..MaxTime, count : 1..MaxCount]
      BY <1>2, <3>1 DEF TypeOK
    <3>3. Active(buckets[key])'
      BY <3>1, <3>2, RateAssumption, SMT DEF Active, Counted
    <3> QED
      BY <2>2, <3>1, <3>2, <3>3
  <2>4. ASSUME NEW scope \in Scopes, NEW user \in Users, TrackNew(scope, user)
        PROVE  BlockedJustified'
    <3>1. Judge(scope, user, 1) /\ Limit[scope] \in Nat \ {0}
      BY <2>4, RateAssumption DEF TrackNew
    <3>2. verdict'.answer = "admitted"
      BY <3>1, SMT DEF Judge, Exceeds
    <3> QED
      BY <3>2 DEF BlockedJustified
  <2>5. ASSUME NEW scope \in Scopes, NEW user \in Users, FailOpen(scope, user)
        PROVE  BlockedJustified'
    BY <2>5 DEF FailOpen, BlockedJustified
  <2>6. CASE Tick \/ Restart
    <3>1. verdict'.answer = "none"
      BY <1>2, <2>6 DEF Tick, Restart, TypeOK
    <3> QED
      BY <3>1 DEF BlockedJustified
  <2> QED
    BY <1>2, <2>1, <2>3, <2>4, <2>5, <2>6 DEF Next, Event
<1> QED
  BY <1>1, <1>2, TypeCorrect, AlwaysMeasured, PTL DEF Spec

-----------------------------------------------------------------------------

\* What the open windows are: the active buckets, as they are.
LEMMA OpenWindowsAre ==
    /\ DOMAIN OpenWindows = {key \in DOMAIN buckets : Active(buckets[key])}
    /\ \A key \in DOMAIN OpenWindows : OpenWindows[key] = buckets[key]
BY DEF OpenWindows

\* An event of a key that is counted in its own bucket, and leaves the other
\* active buckets in place, changes one window at most.
LEMMA OneWindow ==
    ASSUME TypeOK, NEW key \in DOMAIN buckets', now' = now, Active(buckets[key])',
           \A k \in DOMAIN buckets' \ {key} :
              k \in DOMAIN buckets /\ buckets'[k] = buckets[k],
           \A k \in DOMAIN buckets \ {key} :
              Active(buckets[k]) => k \in DOMAIN buckets'
    PROVE  OpenWindows' = [k \in DOMAIN OpenWindows \cup {key} |->
                             IF k = key THEN buckets'[key] ELSE OpenWindows[k]]
<1>1. DOMAIN OpenWindows = {k \in DOMAIN buckets : Active(buckets[k])}
  BY DEF OpenWindows
<1>2. {k \in DOMAIN buckets' : Active(buckets[k])'} = DOMAIN OpenWindows \cup {key}
  BY <1>1 DEF Active
<1>3. OpenWindows' = [k \in {x \in DOMAIN buckets' : Active(buckets[x])'} |-> buckets'[k]]
  BY DEF OpenWindows
<1>4. \A k \in DOMAIN OpenWindows : k # key => OpenWindows[k] = buckets'[k]
  BY <1>1 DEF OpenWindows, Active
<1> QED
  BY <1>2, <1>3, <1>4

\* Both modules mean the same by the size of a set.
LEMMA SameCardinality == ASSUME NEW S PROVE Abstract!Cardinality(S) = Cardinality(S)
BY DEF Abstract!Cardinality, Cardinality

\* The middleware's answer is the abstract one.
LEMMA JudgeIsVerdict ==
    ASSUME NEW scope \in Scopes, NEW user \in Users, NEW count,
           Judge(scope, user, count)
    PROVE  verdict' = Abstract!Verdict(<<scope, user>>, count)
BY DEF Judge, Exceeds, Abstract!Verdict

\* A store that finds no room after pruning has all its windows open.
LEMMA WindowsWithinStore ==
    ASSUME TypeOK, Bounded
    PROVE  /\ IsFiniteSet(DOMAIN buckets)
           /\ \A S \in SUBSET DOMAIN buckets :
                 IsFiniteSet(S) /\ Cardinality(S) \in Nat
           /\ Cardinality(DOMAIN OpenWindows) <= Cardinality(DOMAIN Pruned)
           /\ Full(Pruned) => Pruned = OpenWindows
<1>1. IsFiniteSet(DOMAIN buckets)
  BY DEF Bounded
<1>2. \A S \in SUBSET DOMAIN buckets : IsFiniteSet(S) /\ Cardinality(S) \in Nat
  BY <1>1, FS_Subset, FS_CardinalityType
<1>3. /\ DOMAIN Pruned \in SUBSET DOMAIN buckets
      /\ DOMAIN OpenWindows \in SUBSET DOMAIN Pruned
  <2>1. DOMAIN Pruned \in SUBSET DOMAIN buckets
    BY PrunedType
  <2>2. \A key \in DOMAIN buckets : Active(buckets[key]) => key \in DOMAIN Pruned
    BY DEF Pruned, Restrict
  <2> QED
    BY <2>1, <2>2, OpenWindowsAre
<1>4. Cardinality(DOMAIN OpenWindows) <= Cardinality(DOMAIN Pruned)
  BY <1>2, <1>3, FS_Subset
<1>5. ASSUME Full(Pruned) PROVE Pruned = OpenWindows
  <2>1. CASE Full(buckets)
    BY <2>1 DEF Pruned, Restrict, OpenWindows
  <2>2. CASE ~Full(buckets)
    BY <1>5, <2>2 DEF Pruned
  <2> QED
    BY <2>1, <2>2
<1> QED
  BY <1>1, <1>2, <1>4, <1>5

\* Each way of counting an event is a step of the open windows.
LEMMA EventImplements ==
    ASSUME TypeOK, Bounded, NEW scope \in Scopes, NEW user \in Users, Event(scope, user)
    PROVE  Abstract!WindowsNext
<1> DEFINE key == <<scope, user>>
<1>1. key \in Scopes \X Users /\ key \in Keys /\ key = BucketKey(scope, user)
  BY DEF Keys, BucketKey
<1>2. CASE CountTracked(scope, user)
  <2>1. now \in Nat /\ Window \in Nat \ {0}
    BY RateAssumption, SMT DEF TypeOK
  <2>2. /\ key \in DOMAIN buckets /\ now' = now
        /\ buckets' = [buckets EXCEPT ![key] = Counted(buckets[key])]
        /\ Active(buckets[key]) => buckets[key].count < MaxCount
        /\ Judge(scope, user, buckets'[key].count)
    BY <1>1, <1>2 DEF CountTracked
  <2>3. /\ DOMAIN buckets' = DOMAIN buckets
        /\ buckets'[key] = Counted(buckets[key])
        /\ \A k \in DOMAIN buckets : k # key => buckets'[k] = buckets[k]
        /\ buckets[key] \in [start : 0..MaxTime, count : 1..MaxCount]
    BY <2>2 DEF TypeOK
  <2>4. Active(buckets[key])'
    BY <2>1, <2>2, <2>3, SMT DEF Active, Counted
  <2>5. verdict' = Abstract!Verdict(key, buckets'[key].count)
    BY <2>2, JudgeIsVerdict
  <2> HIDE DEF key
  <2>6. OpenWindows' = [k \in DOMAIN OpenWindows \cup {key} |->
                          IF k = key THEN buckets'[key] ELSE OpenWindows[k]]
    BY <2>2, <2>3, <2>4, OneWindow
  <2>7. CASE Active(buckets[key])
    <3>1. key \in DOMAIN OpenWindows /\ OpenWindows[key] = buckets[key]
      BY <2>2, <2>7, OpenWindowsAre
    <3>2. buckets'[key] = [OpenWindows[key] EXCEPT !.count = OpenWindows[key].count + 1]
      BY <2>3, <2>7, <3>1 DEF Counted
    <3>3. OpenWindows' = [OpenWindows EXCEPT ![key] = buckets'[key]]
      <4>1. DOMAIN OpenWindows \cup {key} = DOMAIN OpenWindows
        BY <3>1
      <4>2. OpenWindows' = [k \in DOMAIN OpenWindows |->
                              IF k = key THEN buckets'[key] ELSE OpenWindows[k]]
        BY <2>6, <4>1
      <4>3. OpenWindows = [k \in DOMAIN OpenWindows |-> OpenWindows[k]]
        BY DEF OpenWindows
      <4> QED
        BY <3>1, <4>2, <4>3
    <3>4. buckets'[key].count = OpenWindows[key].count + 1
      BY <2>3, <3>1, <3>2, SMT
    <3>5. OpenWindows[key].count < MaxCount
      BY <2>2, <2>7, <3>1
    <3>6. Abstract!CountEvent(key)
      BY <2>2, <2>5, <3>1, <3>2, <3>3, <3>4, <3>5 DEF Abstract!CountEvent
    <3> QED
      BY <1>1, <3>6 DEF Abstract!WindowsNext
  <2>8. CASE ~Active(buckets[key])
    <3>1. buckets'[key] = [start |-> now, count |-> 1]
      BY <2>3, <2>8 DEF Counted
    <3>2. key \notin DOMAIN OpenWindows
      BY <2>8, OpenWindowsAre
    <3>3. Cardinality(DOMAIN OpenWindows) < Capacity
      <4>1. /\ IsFiniteSet(DOMAIN buckets)
            /\ DOMAIN OpenWindows \in SUBSET (DOMAIN buckets \ {key})
            /\ DOMAIN buckets \ {key} \in SUBSET DOMAIN buckets
        BY <3>2, OpenWindowsAre DEF Bounded
      <4>2. Cardinality(DOMAIN buckets \ {key}) = Cardinality(DOMAIN buckets) - 1
        BY <2>2, <4>1, FS_RemoveElement
      <4>3. /\ Cardinality(DOMAIN OpenWindows) <= Cardinality(DOMAIN buckets \ {key})
            /\ Cardinality(DOMAIN OpenWindows) \in Nat
            /\ Cardinality(DOMAIN buckets) \in Nat
        BY <4>1, FS_Subset, FS_CardinalityType
      <4> QED
        BY <4>2, <4>3, RateAssumption, SMT DEF Bounded, CapacityBound
    <3>4. verdict' = Abstract!Verdict(key, 1)
      BY <2>5, <3>1
    <3>5. Abstract!OpenWindow(key)
      BY <2>2, <2>6, <3>1, <3>2, <3>3, <3>4, SameCardinality DEF Abstract!OpenWindow
    <3> QED
      BY <1>1, <3>5 DEF Abstract!WindowsNext
  <2> QED
    BY <2>7, <2>8
<1>3. CASE TrackNew(scope, user)
  <2>1. now \in Nat /\ Window \in Nat \ {0}
    BY RateAssumption, SMT DEF TypeOK
  <2>2. /\ key \notin DOMAIN buckets /\ now' = now
        /\ ~Full(Pruned)
        /\ buckets' = Tracked(Pruned, key)
        /\ Judge(scope, user, 1)
    BY <1>1, <1>3 DEF TrackNew
  <2>3. /\ DOMAIN buckets' = DOMAIN Pruned \cup {key}
        /\ buckets'[key] = [start |-> now, count |-> 1]
        /\ \A k \in DOMAIN Pruned : k # key => buckets'[k] = Pruned[k]
    BY <2>2 DEF Tracked
  <2>4. Active(buckets[key])'
    BY <2>1, <2>2, <2>3, SMT DEF Active
  <2>5. verdict' = Abstract!Verdict(key, 1)
    BY <2>2, JudgeIsVerdict
  <2> HIDE DEF key
  <2>6. /\ DOMAIN Pruned \subseteq DOMAIN buckets
        /\ \A k \in DOMAIN Pruned : Pruned[k] = buckets[k]
        /\ \A k \in DOMAIN buckets : Active(buckets[k]) => k \in DOMAIN Pruned
    <3>1. \A k \in DOMAIN buckets : Active(buckets[k]) => k \in DOMAIN Pruned
      BY DEF Pruned, Restrict
    <3> QED
      BY <3>1, PrunedType
  <2>7. OpenWindows' = [k \in DOMAIN OpenWindows \cup {key} |->
                          IF k = key THEN buckets'[key] ELSE OpenWindows[k]]
    BY <2>2, <2>3, <2>4, <2>6, OneWindow
  <2>8. key \notin DOMAIN OpenWindows
    BY <2>2, OpenWindowsAre
  <2>9. Cardinality(DOMAIN OpenWindows) < Capacity
    <3>1. /\ Cardinality(DOMAIN OpenWindows) <= Cardinality(DOMAIN Pruned)
          /\ DOMAIN OpenWindows \in SUBSET DOMAIN buckets
          /\ \A S \in SUBSET DOMAIN buckets : Cardinality(S) \in Nat
      BY WindowsWithinStore, OpenWindowsAre
    <3>2. Cardinality(DOMAIN OpenWindows) \in Nat /\ Cardinality(DOMAIN Pruned) \in Nat
      BY <2>6, <3>1
    <3>3. ~(Cardinality(DOMAIN Pruned) >= Capacity)
      BY <2>2 DEF Full
    <3> QED
      BY <3>1, <3>2, <3>3, RateAssumption, SMT
  <2>10. Abstract!OpenWindow(key)
    BY <2>2, <2>3, <2>5, <2>7, <2>8, <2>9, SameCardinality DEF Abstract!OpenWindow
  <2> QED
    BY <1>1, <2>10 DEF Abstract!WindowsNext
<1>4. CASE FailOpen(scope, user)
  <2>1. /\ key \notin DOMAIN buckets /\ now' = now /\ Full(Pruned)
        /\ buckets' = Pruned
        /\ verdict' = [key |-> key, answer |-> "untracked"]
    BY <1>1, <1>4 DEF FailOpen
  <2> HIDE DEF key
  <2>2. Pruned = OpenWindows
    BY <2>1, WindowsWithinStore
  <2>3. OpenWindows' = OpenWindows
    <3>1. \A k \in DOMAIN buckets' : Active(buckets[k])'
      BY <2>1, FullOfActive DEF Active
    <3>2. OpenWindows' = [k \in DOMAIN buckets' |-> buckets'[k]]
      BY <3>1 DEF OpenWindows
    <3>3. OpenWindows = [k \in DOMAIN OpenWindows |-> OpenWindows[k]]
      BY DEF OpenWindows
    <3> QED
      BY <2>1, <2>2, <3>2, <3>3
  <2>4. key \notin DOMAIN OpenWindows /\ Cardinality(DOMAIN OpenWindows) >= Capacity
    BY <2>1, <2>2, OpenWindowsAre DEF Full
  <2>5. Abstract!PassUncounted(key)
    BY <2>1, <2>3, <2>4, SameCardinality DEF Abstract!PassUncounted
  <2> QED
    BY <1>1, <2>5 DEF Abstract!WindowsNext
<1> QED
  BY <1>2, <1>3, <1>4 DEF Event

\* The store that prunes on demand and restarts buckets in place is, seen from
\* outside, one where every window is gone the moment it is over: a key is
\* refused a window exactly when Capacity of them are open, never for the sake
\* of a bucket that is over.
THEOREM WindowsImplemented == Spec => ImplementsWindows
<1>1. Init => Abstract!WindowsInit
  <2> SUFFICES ASSUME Init PROVE Abstract!WindowsInit
    OBVIOUS
  <2>1. DOMAIN buckets = {} /\ now = 0 /\ verdict \in [key : Keys, answer : {"none"}]
    BY DEF Init
  <2>2. OpenWindows = [key \in {} |-> 0]
    BY <2>1 DEF OpenWindows
  <2> QED
    BY <2>1, <2>2 DEF Abstract!WindowsInit, Keys
<1>2. ASSUME TypeOK, Bounded, [Next]_vars
      PROVE  [Abstract!WindowsNext]_(Abstract!windowVars)
  <2>1. CASE UNCHANGED vars
    BY <2>1 DEF vars, Abstract!windowVars, OpenWindows, Active
  <2>2. ASSUME NEW scope \in Scopes, NEW user \in Users, Event(scope, user)
        PROVE  Abstract!WindowsNext
    BY <1>2, <2>2, EventImplements
  <2>3. CASE Tick
    <3>1. /\ now < MaxTime /\ now' = now + 1 /\ buckets' = buckets
          /\ verdict' = [verdict EXCEPT !.answer = "none"]
      BY <2>3 DEF Tick
    <3>2. /\ now \in Nat /\ Window \in Nat \ {0}
          /\ \A k \in DOMAIN buckets : buckets[k].start \in Nat
      BY <1>2, RateAssumption, SMT DEF TypeOK
    <3>3. \A k \in DOMAIN buckets :
             now' - buckets[k].start < Window => now - buckets[k].start < Window
      BY <3>1, <3>2, SMT
    <3>4. {k \in DOMAIN buckets' : Active(buckets[k])'} =
              {k \in DOMAIN OpenWindows : now' - OpenWindows[k].start < Window}
      BY <3>1, <3>3, OpenWindowsAre DEF Active
    <3>5. OpenWindows' =
              [key \in {k \in DOMAIN OpenWindows : now' - OpenWindows[k].start < Window} |->
                 OpenWindows[key]]
      <4>1. OpenWindows' =
              [key \in {k \in DOMAIN buckets' : Active(buckets[k])'} |-> buckets'[key]]
        BY DEF OpenWindows
      <4>2. \A k \in DOMAIN OpenWindows : buckets'[k] = OpenWindows[k]
        BY <3>1, OpenWindowsAre
      <4> QED
        BY <3>4, <4>1, <4>2
    <3>6. Abstract!TimePasses
      BY <3>1, <3>5 DEF Abstract!TimePasses
    <3> QED
      BY <3>6 DEF Abstract!WindowsNext
  <2>4. CASE Restart
    <3>1. /\ DOMAIN buckets' = {} /\ now' = now
          /\ verdict' = [verdict EXCEPT !.answer = "none"]
      BY <2>4 DEF Restart
    <3>2. OpenWindows' = [key \in {} |-> 0]
      BY <3>1 DEF OpenWindows
    <3>3. Abstract!Forget
      BY <3>1, <3>2 DEF Abstract!Forget
    <3> QED
      BY <3>3 DEF Abstract!WindowsNext
  <2> QED
    BY <1>2, <2>1, <2>2, <2>3, <2>4 DEF Next
<1> QED
  BY <1>1, <1>2, TypeCorrect, StoreBounded, PTL
     DEF Spec, ImplementsWindows, Abstract!WindowsSpec

=============================================================================
