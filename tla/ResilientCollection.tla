------------------------- MODULE ResilientCollection ------------------------
(***************************************************************************)
(* Collection of one kind of data of one symbol through the cache:         *)
(* ResilientCollector (src/src/core/resilient_collection.py) with its      *)
(* CircuitBreaker and the three cache entries it keeps, "latest",          *)
(* "last_complete" and "last_attempt" (src/src/data/cache.py).             *)
(*                                                                         *)
(* A collector belongs to one runtime of one process: its lock serialises  *)
(* the calls of its own threads, but several collectors share the cache.   *)
(* An entry is its result state, the newest day of its rows and the time   *)
(* it was collected.  Every statement on the cache is a step of its own.   *)
(***************************************************************************)
EXTENDS Integers

CONSTANTS
    Collectors, \* runtimes that share the cache
    PerCollector,  \* bound: threads of each
    Sources,    \* number of sources
    Attempts,   \* source_attempts of the policy
    Days,       \* days rows may end at
    Dated,      \* rows of prices and financials may be late, news may not
    Compared,   \* and prices are measured against the last whole rows
    Normal,     \* data.cache_ttl of the kind
    Retry,      \* RETRY_TTL
    Threshold, OpenFor,  \* of the circuit breaker
    MaxTime,    \* bound: the clock
    MaxFaults,  \* bound: failing statements on the cache
    None

VARIABLES
    now,
    latest, complete, attempt,  \* the three entries
    fails, openUntil,           \* the breaker of each collector
    pc, refresh,                \* of each thread
    saw,                        \* what the thread read: [latest, complete, attempt]
    tries,                      \* sources x attempts used so far
    got,                        \* the entry it will store
    faults

cache == <<latest, complete, attempt>>
breaker == <<fails, openUntil>>
vars == <<now, latest, complete, attempt, fails, openUntil, pc, refresh, saw,
          tries, got, faults>>

Threads == Collectors \X (1 .. PerCollector)
Owner(t) == t[1]

Whole == {"complete", "empty"}
Entry == [state : Whole \union {"partial", "not_applicable", "failed"},
          day : Days \union {0}, at : 0 .. MaxTime]
HasRows(e) == e # None /\ e.day # 0

ASSUME BoundsAreNumbers ==
    /\ Sources \in Nat /\ Attempts \in Nat /\ Normal \in Nat /\ Retry \in Nat
    /\ Threshold \in Nat \ {0} /\ OpenFor \in Nat /\ MaxTime \in Nat
    /\ Days \subseteq Nat \ {0}
ASSUME KindsAreKnown == Dated \in BOOLEAN /\ Compared \in BOOLEAN /\ (Compared => Dated)
ASSUME NoneIsNothing == None \notin Nat /\ None \notin Entry

NoSight == [latest |-> None, complete |-> None, attempt |-> None]

Init == /\ now = 0
        /\ latest = None /\ complete = None /\ attempt = None
        /\ fails = [c \in Collectors |-> 0] /\ openUntil = [c \in Collectors |-> None]
        /\ pc = [t \in Threads |-> "idle"] /\ refresh = [t \in Threads |-> FALSE]
        /\ saw = [t \in Threads |-> NoSight] /\ tries = [t \in Threads |-> 0]
        /\ got = [t \in Threads |-> None]
        /\ faults = 0

-----------------------------------------------------------------------------
Wait == IF Normal < Retry THEN Normal ELSE Retry
Ttl(e) == IF e.state \in {"partial", "failed"} THEN Wait ELSE Normal
Fresh(e) == now - e.at <= Ttl(e)

\* An open breaker that has waited long enough closes and forgets.
IsOpen(c) == openUntil[c] # None /\ now < openUntil[c]
Closes(c) == IF openUntil[c] # None /\ ~IsOpen(c)
             THEN /\ openUntil' = [openUntil EXCEPT ![c] = None]
                  /\ fails' = [fails EXCEPT ![c] = 0]
             ELSE UNCHANGED breaker
Success(c) == /\ openUntil' = [openUntil EXCEPT ![c] = None]
              /\ fails' = [fails EXCEPT ![c] = 0]
Failure(c) == IF openUntil[c] # None THEN UNCHANGED breaker
              ELSE /\ fails' = [fails EXCEPT ![c] = @ + 1]
                   /\ openUntil' = IF fails[c] + 1 >= Threshold
                                   THEN [openUntil EXCEPT ![c] = now + OpenFor]
                                   ELSE openUntil

\* The answer itself is not kept: history is shown beside a result and never
\* stored or scored.
Return(t) ==
    /\ pc' = [pc EXCEPT ![t] = "idle"]
    /\ saw' = [saw EXCEPT ![t] = NoSight] /\ got' = [got EXCEPT ![t] = None]
    /\ tries' = [tries EXCEPT ![t] = 0] /\ refresh' = [refresh EXCEPT ![t] = FALSE]

Goto(t, place) == pc' = [pc EXCEPT ![t] = place]

\* The request lock of the collector.
LockIgnored(t) == TRUE
LockFree(t) == \A u \in Threads : Owner(u) = Owner(t) => pc[u] = "idle"

\* collect: the lock, then the three entries; a whole "latest" stands in for
\* a missing "last_complete".
Begin(t) ==
    /\ pc[t] = "idle" /\ LockFree(t)
    /\ refresh' \in {[refresh EXCEPT ![t] = b] : b \in BOOLEAN}
    /\ saw' = [saw EXCEPT ![t] =
          [latest |-> latest, attempt |-> attempt,
           complete |-> IF complete = None /\ latest # None /\ latest.state \in Whole
                        THEN latest ELSE complete]]
    /\ Goto(t, "decide")
    /\ UNCHANGED <<now, cache, breaker, tries, got, faults>>

HeldBackAlone(t) == /\ saw[t].attempt # None /\ ~refresh[t] /\ Fresh(saw[t].attempt)
                    /\ saw[t].latest = None
HeldBack(t) == saw[t].attempt # None /\ ~refresh[t] /\ Fresh(saw[t].attempt)
Served(t) == saw[t].attempt = None /\ saw[t].latest # None /\ ~refresh[t] /\ Fresh(saw[t].latest)

\* A fresh failure is answered with history only.
Hold(t) ==
    /\ pc[t] = "decide" /\ HeldBack(t)
    /\ Return(t)
    /\ UNCHANGED <<now, cache, breaker, faults>>

Serve(t) ==
    /\ pc[t] = "decide" /\ Served(t)
    /\ Return(t)
    /\ IF HasRows(saw[t].latest) THEN Success(Owner(t)) ELSE UNCHANGED breaker
    /\ UNCHANGED <<now, cache, faults>>

\* Otherwise the sources are asked, unless the breaker is open; a person's
\* refresh does not look at the breaker.
Ask(t) ==
    /\ pc[t] = "decide" /\ ~HeldBack(t) /\ ~Served(t)
    /\ IF ~refresh[t] /\ IsOpen(Owner(t))
       THEN /\ Goto(t, "storeFailure") /\ UNCHANGED breaker
            /\ got' = [got EXCEPT ![t] = [state |-> "failed", day |-> 0, at |-> now]]
       ELSE /\ Goto(t, "fetch") /\ UNCHANGED got
            /\ IF refresh[t] THEN UNCHANGED breaker ELSE Closes(Owner(t))
    /\ UNCHANGED <<now, cache, refresh, saw, tries, faults>>

Late(t, day) == Dated /\ HasRows(saw[t].latest) /\ day < saw[t].latest.day

\* classify: rows are whole if they are enough and, of prices, reach the last
\* whole day (the days are those of PricePolicy's window); FinancialPolicy looks
\* at the rows alone.
Classified(t, enough, day) ==
    IF enough /\ (Compared /\ HasRows(saw[t].complete) => day >= saw[t].complete.day)
    THEN "complete" ELSE "partial"

\* One answer of a source: facts, "not applicable" with or without rows, or
\* something unusable (an error, invalid rows, rows older than those seen
\* before).  What is not applicable is stored before its day is looked at.
Fetch(t) ==
    /\ pc[t] = "fetch" /\ tries[t] < Sources * Attempts
    /\ \/ \E enough \in BOOLEAN, day \in Days :
             /\ ~Late(t, day)
             /\ got' = [got EXCEPT ![t] =
                   [state |-> Classified(t, enough, day), day |-> day, at |-> now]]
             /\ Goto(t, "promote") /\ UNCHANGED tries
       \/ /\ \E day \in Days \union {0} :
                got' = [got EXCEPT ![t] = [state |-> "not_applicable", day |-> day, at |-> now]]
          /\ Goto(t, "promote") /\ UNCHANGED tries
       \/ tries' = [tries EXCEPT ![t] = @ + 1] /\ UNCHANGED <<got, pc>>
    /\ UNCHANGED <<now, cache, breaker, refresh, saw, faults>>

\* All sources failed.
FetchEnds(t) ==
    /\ pc[t] = "fetch" /\ tries[t] = Sources * Attempts
    /\ Failure(Owner(t))
    /\ got' = [got EXCEPT ![t] = [state |-> "failed", day |-> 0, at |-> now]]
    /\ Goto(t, "storeFailure")
    /\ UNCHANGED <<now, cache, refresh, saw, tries, faults>>

-----------------------------------------------------------------------------
(* _store: any statement may fail, and the rest is then left out.          *)

FailingStatement(t) ==
    /\ pc[t] \in {"promote", "put", "clear", "mark", "storeFailure"}
    /\ faults < MaxFaults /\ faults' = faults + 1
    /\ Goto(t, "return")
    /\ UNCHANGED <<now, cache, breaker, refresh, saw, tries, got>>

PromotableAny(t) == latest # None
Promotable(t) == /\ latest # None /\ latest.state \in Whole /\ got[t].state \notin Whole
                 /\ complete # None => latest.at >= complete.at

\* A whole "latest" is saved before something less replaces it.  The decision
\* reads the entries, and copy_entry reads "latest" once more.
Promote(t) ==
    /\ pc[t] = "promote"
    /\ Goto(t, IF Promotable(t) THEN "copy" ELSE "put")
    /\ UNCHANGED <<now, cache, breaker, refresh, saw, tries, got, faults>>

Copy(t) == /\ pc[t] = "copy"
           /\ complete' = IF latest = None THEN complete ELSE latest
           /\ Goto(t, "put")
           /\ UNCHANGED <<now, latest, attempt, breaker, refresh, saw, tries, got, faults>>

Put(t) == /\ pc[t] = "put"
          /\ latest' = got[t]
          /\ Goto(t, "clear")
          /\ UNCHANGED <<now, complete, attempt, breaker, refresh, saw, tries, got, faults>>

Clear(t) == /\ pc[t] = "clear"
            /\ attempt' = None
            /\ Goto(t, IF got[t].state \in Whole THEN "mark" ELSE "return")
            /\ UNCHANGED <<now, latest, complete, breaker, refresh, saw, tries, got, faults>>

Mark(t) == /\ pc[t] = "mark"
           /\ complete' = latest
           /\ Goto(t, "return")
           /\ UNCHANGED <<now, latest, attempt, breaker, refresh, saw, tries, got, faults>>

FailureStored(t) == got[t]

StoreFailure(t) ==
    /\ pc[t] = "storeFailure"
    /\ attempt' = FailureStored(t)
    /\ Goto(t, "return")
    /\ UNCHANGED <<now, latest, complete, breaker, refresh, saw, tries, got, faults>>

\* The result of this call, whether or not it could be stored.
Answer(t) ==
    /\ pc[t] = "return"
    /\ Return(t)
    /\ IF got[t].state = "failed" THEN UNCHANGED breaker ELSE Success(Owner(t))
    /\ UNCHANGED <<now, cache, faults>>

\* The process of a collector is killed; its breaker is lost, the cache stays.
Crash(c) ==
    /\ \E t \in Threads : Owner(t) = c /\ pc[t] # "idle"
    /\ faults < MaxFaults /\ faults' = faults + 1
    /\ pc' = [t \in Threads |-> IF Owner(t) = c THEN "idle" ELSE pc[t]]
    /\ saw' = [t \in Threads |-> IF Owner(t) = c THEN NoSight ELSE saw[t]]
    /\ tries' = [t \in Threads |-> IF Owner(t) = c THEN 0 ELSE tries[t]]
    /\ got' = [t \in Threads |-> IF Owner(t) = c THEN None ELSE got[t]]
    /\ refresh' = [t \in Threads |-> IF Owner(t) = c THEN FALSE ELSE refresh[t]]
    /\ Success(c)
    /\ UNCHANGED <<now, cache>>

\* Time passes between calls.
Tick == /\ now < MaxTime /\ now' = now + 1
        /\ \A t \in Threads : pc[t] = "idle"
        /\ UNCHANGED <<cache, breaker, pc, refresh, saw, tries, got, faults>>

Call(t) == \/ Begin(t) \/ Hold(t) \/ Serve(t) \/ Ask(t) \/ Fetch(t) \/ FetchEnds(t)
           \/ FailingStatement(t) \/ Promote(t) \/ Copy(t) \/ Put(t) \/ Clear(t)
           \/ Mark(t) \/ StoreFailure(t) \/ Answer(t)

Next == (\E t \in Threads : Call(t)) \/ (\E c \in Collectors : Crash(c)) \/ Tick

Spec == Init /\ [][Next]_vars

-----------------------------------------------------------------------------
\* Every variable keeps to its domain.
CollectionTypeOK ==
    /\ now \in 0 .. MaxTime
    /\ {latest, complete, attempt} \subseteq Entry \union {None}
    /\ fails \in [Collectors -> 0 .. Threshold]
    /\ openUntil \in [Collectors -> Nat \union {None}]
    /\ \A t \in Threads : got[t] \in Entry \union {None}
    /\ tries \in [Threads -> 0 .. Sources * Attempts]
    /\ attempt # None => attempt.state = "failed"
    /\ latest # None => latest.state # "failed"

\* Action property: the history that results are compared with and shown
\* beside is never lost, never replaced by less than a whole result and never
\* by one collected earlier, wherever a call stops.
HistoryIsKept ==
    complete # None => /\ complete' # None
                       /\ complete'.state \in Whole
                       /\ complete'.at >= complete.at

HistoryKept == [][HistoryIsKept]_vars

\* Action property: the history of prices never goes back to an earlier day,
\* whatever "latest" held in between.  That of financials may: an older answer
\* that is not applicable replaces "latest", and the next whole one is late
\* against nothing newer.
HistoryMovesOn == Compared /\ complete # None => complete'.day >= complete.day

\* Action property: once rows of a day are the current facts, older rows
\* replace them only as an answer that says they are not applicable.
FactsMoveOn ==
    Dated /\ HasRows(latest) /\ HasRows(latest') /\ latest'.state # "not_applicable"
        => latest'.day >= latest.day

\* Action property: after a remembered failure the sources rest for the retry
\* time, unless a person asks for a refresh.
SourcesAreRested ==
    attempt # None => \A t \in Threads : pc[t] # "fetch" /\ pc'[t] = "fetch" =>
       refresh[t] \/ now - attempt.at > Wait

SourcesRest == [][SourcesAreRested]_vars
=============================================================================
