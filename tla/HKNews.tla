------------------------------- MODULE HKNews -------------------------------
(***************************************************************************)
(* News of a Hong Kong share: Pipeline._collect_hk_news and the store of   *)
(* its result (src/src/core/pipeline.py), the two keyword queries          *)
(* (src/src/data/hk_news.py) and the breaker.  A call makes at most one    *)
(* pair of queries; a result with a failed query is shown but must not     *)
(* replace a complete one in the cache.                                    *)
(*                                                                         *)
(* A news item is the day it was published on.  Days go on while calls     *)
(* run; a call reads, asks and stores without a lock around the whole.     *)
(***************************************************************************)
EXTENDS Integers

CONSTANTS
    Pipelines, PerPipeline,  \* pipelines that share the cache, threads of each
    Queries,    \* keywords: the code, and the name if there is one
    Window,     \* days an item is shown
    ServeFor,   \* age up to which the cached result is served
    Threshold, OpenFor,
    MaxTime,    \* bound: the clock
    MaxFaults,  \* bound: failing statements on the cache
    None

VARIABLES
    now,
    latest,             \* the cached snapshot
    fails, openUntil,   \* the breaker of each pipeline
    pc, refresh,
    previous,           \* what the thread read first
    waiting, errors,    \* queries that run, and queries that failed
    items,              \* what the queries brought so far
    got,                \* the new snapshot
    shown,              \* what the last call showed, and when
    faults

breaker == <<fails, openUntil>>
call == <<pc, refresh, previous, waiting, errors, items, got>>
vars == <<now, latest, fails, openUntil, call, shown, faults>>

Threads == Pipelines \X (1 .. PerPipeline)
Owner(t) == t[1]

Init ==
    /\ now = 0 /\ latest = None
    /\ fails = [p \in Pipelines |-> 0] /\ openUntil = [p \in Pipelines |-> None]
    /\ pc = [t \in Threads |-> "idle"] /\ refresh = [t \in Threads |-> FALSE]
    /\ previous = [t \in Threads |-> None]
    /\ waiting = [t \in Threads |-> {}] /\ errors = [t \in Threads |-> {}]
    /\ items = [t \in Threads |-> {}] /\ got = [t \in Threads |-> None]
    /\ shown = None /\ faults = 0

-----------------------------------------------------------------------------
\* current_news: only items of the last Window days, today included.
Current(set) == {d \in set : now - Window < d /\ d <= now}
Whole(e) == e.errors = {}

IsOpen(p) == openUntil[p] # None /\ now < openUntil[p]
Success(p) == /\ openUntil' = [openUntil EXCEPT ![p] = None]
              /\ fails' = [fails EXCEPT ![p] = 0]
Failure(p) == IF openUntil[p] # None THEN UNCHANGED breaker
              ELSE /\ fails' = [fails EXCEPT ![p] = @ + 1]
                   /\ openUntil' = IF fails[p] + 1 >= Threshold
                                   THEN [openUntil EXCEPT ![p] = now + OpenFor]
                                   ELSE openUntil

Goto(t, place) == pc' = [pc EXCEPT ![t] = place]

\* The call returns.  What it shows is filtered once more on the way into the
\* context of the analysis.
Show(t, e) ==
    /\ shown' = IF e = None THEN None
                ELSE [items |-> Current(e.items), at |-> e.at, day |-> now]
    /\ Goto(t, "idle")
    /\ refresh' = [refresh EXCEPT ![t] = FALSE]
    /\ previous' = [previous EXCEPT ![t] = None] /\ got' = [got EXCEPT ![t] = None]
    /\ waiting' = [waiting EXCEPT ![t] = {}] /\ errors' = [errors EXCEPT ![t] = {}]
    /\ items' = [items EXCEPT ![t] = {}]

\* The first read ignores the age.
Begin(t) ==
    /\ pc[t] = "idle"
    /\ \E b \in BOOLEAN : refresh' = [refresh EXCEPT ![t] = b]
    /\ previous' = [previous EXCEPT ![t] = latest]
    /\ Goto(t, "fresh") /\ shown' = None
    /\ UNCHANGED <<now, latest, breaker, waiting, errors, items, got, faults>>

Fresh == latest # None /\ now - latest.at <= ServeFor

Serve(t) ==
    /\ pc[t] = "fresh" /\ ~refresh[t] /\ Fresh
    /\ Show(t, latest)
    /\ UNCHANGED <<now, latest, breaker, faults>>

\* A person's refresh does not look at the breaker.  Without a usable name
\* only the code is searched.
Asks(t) == refresh[t] \/ ~IsOpen(Owner(t))
Ask(t) ==
    /\ pc[t] = "fresh" /\ (refresh[t] \/ ~Fresh) /\ Asks(t)
    /\ \E asked \in {Queries, {"code"}} : waiting' = [waiting EXCEPT ![t] = asked]
    /\ IF ~refresh[t] /\ openUntil[Owner(t)] # None THEN Success(Owner(t)) ELSE UNCHANGED breaker
    /\ errors' = [errors EXCEPT ![t] = Queries \ waiting'[t]]
    /\ Goto(t, "query")
    /\ UNCHANGED <<now, latest, refresh, previous, items, got, shown, faults>>

\* The breaker is open: the old snapshot, or nothing.
Rest(t) ==
    /\ pc[t] = "fresh" /\ ~Fresh /\ ~Asks(t)
    /\ Show(t, previous[t])
    /\ UNCHANGED <<now, latest, breaker, faults>>

\* The queries run side by side; each brings items or fails.
Query(t) ==
    /\ pc[t] = "query"
    /\ \E q \in waiting[t] :
          /\ waiting' = [waiting EXCEPT ![t] = @ \ {q}]
          /\ \/ /\ \E d \in 0 .. now : items' = [items EXCEPT ![t] = @ \union {d}]
                /\ UNCHANGED errors
             \/ errors' = [errors EXCEPT ![t] = @ \union {q}] /\ UNCHANGED items
    /\ UNCHANGED <<now, latest, breaker, pc, refresh, previous, got, shown, faults>>

\* One answer is enough; the keyword that was not searched counts as an error.
Collected(t) ==
    /\ pc[t] = "query" /\ waiting[t] = {} /\ errors[t] # Queries
    /\ got' = [got EXCEPT ![t] = [errors |-> errors[t], items |-> Current(items[t]), at |-> now]]
    /\ Goto(t, "store")
    /\ UNCHANGED <<now, latest, breaker, refresh, previous, waiting, errors, items, shown, faults>>

Failed(t) ==
    /\ pc[t] = "query" /\ waiting[t] = {} /\ errors[t] = Queries
    /\ Failure(Owner(t))
    /\ Show(t, previous[t])
    /\ UNCHANGED <<now, latest, faults>>

-----------------------------------------------------------------------------
\* _store_cache under the lock of the pipeline: the check and the put are two
\* statements.
LockFreeAlways(t) == TRUE
LockFree(t) == \A u \in Threads : Owner(u) = Owner(t) => pc[u] # "put"

Stores(t) == Whole(got[t]) \/ latest = None \/ ~Whole(latest)
Check(t) ==
    /\ pc[t] = "store" /\ LockFree(t)
    /\ Goto(t, IF Stores(t) THEN "put" ELSE "done")
    /\ UNCHANGED <<now, latest, breaker, refresh, previous, waiting, errors, items, got, shown, faults>>

Put(t) ==
    /\ pc[t] = "put"
    /\ \/ latest' = got[t] /\ UNCHANGED faults
       \/ faults < MaxFaults /\ faults' = faults + 1 /\ UNCHANGED latest
    /\ Goto(t, "done")
    /\ UNCHANGED <<now, breaker, refresh, previous, waiting, errors, items, got, shown>>

Done(t) ==
    /\ pc[t] = "done"
    /\ Success(Owner(t))
    /\ Show(t, got[t])
    /\ UNCHANGED <<now, latest, faults>>

Tick == /\ now < MaxTime /\ now' = now + 1
        /\ UNCHANGED <<latest, breaker, call, shown, faults>>

Next == \/ Tick
        \/ \E t \in Threads : \/ Begin(t) \/ Serve(t) \/ Ask(t) \/ Rest(t) \/ Query(t)
                              \/ Collected(t) \/ Failed(t) \/ Check(t) \/ Put(t) \/ Done(t)

Spec == Init /\ [][Next]_vars

-----------------------------------------------------------------------------
\* What is cached was collected in the past, from at least one query, and
\* holds nothing that was old then; a breaker is open when the failures are
\* enough.
NewsTypeOK ==
    /\ latest # None => /\ latest.at <= now /\ latest.errors # Queries
                        /\ \A d \in latest.items : latest.at - Window < d /\ d <= latest.at
    /\ \A p \in Pipelines : openUntil[p] # None <=> fails[p] >= Threshold

\* Action property: a complete snapshot in the cache is only ever replaced by
\* a complete one.
CompleteStays ==
    latest # None /\ Whole(latest) => Whole(latest')

\* Whatever is shown, from the cache, from the sources or as a fallback of a
\* failed call, holds only news of the days before it is shown.
ShownIsRecent ==
    shown # None => \A d \in shown.items : shown.day - Window < d /\ d <= shown.day
=============================================================================
