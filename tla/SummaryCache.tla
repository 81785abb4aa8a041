---------------------------- MODULE SummaryCache ----------------------------
(***************************************************************************)
(* SummaryCache of dashboard/api/server.py, which GET /api/stats/summary   *)
(* asks from several threads.  get_summary reads the clock before it takes *)
(* the lock, and holds the lock while it asks the store.  What the store   *)
(* answers is represented by the number of changes made to it so far.      *)
(***************************************************************************)
EXTENDS Integers

CONSTANTS Getters,      \* threads that serve the endpoint
          Ttl,          \* ttl_seconds
          MaxClock,     \* bound on the clock
          MaxChanges    \* bound on the changes of the store

NoData == [ver |-> -1, at |-> 0]
NoHolder == "none"

ASSUME CacheAssumption ==
    Ttl \in Nat /\ MaxClock \in Nat /\ MaxChanges \in Nat /\ NoHolder \notin Getters

VARIABLES
    clock,       \* time.time()
    changes,     \* changes of the store so far
    cached,      \* _cached_data: its version and, for the record, when it was read
    lastTime,    \* _last_time
    holder,      \* the thread inside the lock
    getter,      \* where each thread is
    askedAt,     \* now of each thread
    fetched,     \* fresh_stats of each thread
    \* History:
    invalidated, \* the store's version when the cache was last invalidated
    since,       \* invalidated, as each call found it
    answer       \* the last answer: data, when it was asked for, since

cacheVars == <<clock, changes, cached, lastTime, holder, getter, askedAt, fetched,
               invalidated, since, answer>>

CacheInit ==
    /\ clock = 0 /\ changes = 0 /\ cached = NoData /\ lastTime = 0
    /\ holder = NoHolder
    /\ getter = [t \in Getters |-> "idle"]
    /\ askedAt = [t \in Getters |-> 0] /\ fetched = [t \in Getters |-> NoData]
    /\ invalidated = 0 /\ since = [t \in Getters |-> 0]
    /\ answer = [data |-> [ver |-> 0, at |-> 0], asked |-> 0, since |-> 0]

(* A call returns: its answer is recorded, its locals are gone.            *)
Returns(t, data) ==
    /\ answer' = [data |-> data, asked |-> askedAt[t], since |-> since[t]]
    /\ askedAt' = [askedAt EXCEPT ![t] = 0] /\ since' = [since EXCEPT ![t] = 0]
    /\ fetched' = [fetched EXCEPT ![t] = NoData]
Moves(t, from, to) == getter[t] = from /\ getter' = [getter EXCEPT ![t] = to]

CacheTick ==
    /\ clock < MaxClock /\ clock' = clock + 1
    /\ UNCHANGED <<changes, cached, lastTime, holder, getter, askedAt, fetched,
                   invalidated, since, answer>>

StoreChanges ==
    /\ changes < MaxChanges /\ changes' = changes + 1
    /\ UNCHANGED <<clock, cached, lastTime, holder, getter, askedAt, fetched,
                   invalidated, since, answer>>

-----------------------------------------------------------------------------
GetSummary(t) ==
    /\ Moves(t, "idle", "lock")
    /\ askedAt' = [askedAt EXCEPT ![t] = clock]
    /\ since' = [since EXCEPT ![t] = invalidated]
    /\ UNCHANGED <<clock, changes, cached, lastTime, holder, fetched, invalidated, answer>>

Fresh(t) == cached # NoData /\ askedAt[t] - lastTime < Ttl

BugLock(t) ==             \* the store is asked before the lock is taken
    /\ \/ holder = NoHolder /\ Fresh(t) /\ Moves(t, "lock", "idle") /\ Returns(t, cached)
       \/ ~Fresh(t) /\ Moves(t, "lock", "fetch") /\ UNCHANGED <<answer, askedAt, since, fetched>>
    /\ UNCHANGED <<clock, changes, cached, lastTime, holder, invalidated>>

Lock(t) ==
    /\ holder = NoHolder
    /\ \/ Fresh(t) /\ Moves(t, "lock", "idle") /\ Returns(t, cached) /\ UNCHANGED holder
       \/ ~Fresh(t) /\ Moves(t, "lock", "fetch") /\ holder' = t
          /\ UNCHANGED <<answer, askedAt, since, fetched>>
    /\ UNCHANGED <<clock, changes, cached, lastTime, invalidated>>

(* get_summary_stats, which may also raise.                                *)
Fetch(t) ==
    /\ \/ Moves(t, "fetch", "fill") /\ UNCHANGED holder
          /\ fetched' = [fetched EXCEPT ![t] = [ver |-> changes, at |-> clock]]
       \/ Moves(t, "fetch", "idle") /\ holder' = NoHolder /\ UNCHANGED fetched
    /\ UNCHANGED <<clock, changes, cached, lastTime, askedAt, invalidated, since, answer>>

Fill(t) ==
    /\ Moves(t, "fill", "idle") /\ holder' = NoHolder
    /\ cached' = fetched[t] /\ lastTime' = askedAt[t]
    /\ Returns(t, fetched[t])
    /\ UNCHANGED <<clock, changes, invalidated>>

Invalidate ==
    /\ holder = NoHolder
    /\ cached' = NoData /\ lastTime' = 0
    /\ invalidated' = changes
    /\ UNCHANGED <<clock, changes, holder, getter, askedAt, fetched, since, answer>>

CacheNext ==
    \/ CacheTick \/ StoreChanges \/ Invalidate
    \/ \E t \in Getters : GetSummary(t) \/ Lock(t) \/ Fetch(t) \/ Fill(t)

-----------------------------------------------------------------------------
(* server.py 79-93 with 452, 470, 496: an answer is never staler than the  *)
(* ttl, counted from the call, although threads wait for each other and    *)
(* fill the cache with the time they began at; and what was read before an *)
(* invalidation answers no call made after it: no call in flight puts it   *)
(* back.                                                                   *)
SummaryIsCurrent ==
    /\ answer.data.at >= answer.asked - Ttl
    /\ answer.data.ver >= answer.since

=============================================================================
