------------------------- MODULE DedicatedCollection ------------------------
(***************************************************************************)
(* The kinds of data Pipeline.collect fetches itself (src/src/core/        *)
(* pipeline.py): the valuation of an A-share, the valuation of a Hong Kong *)
(* share and the industry of a share.  All go through fetch_one and the    *)
(* breaker of the pipeline; only the valuations are cached, and only the   *)
(* Hong Kong one has a second entry "last_complete", falls back to old     *)
(* entries and completes a fresh answer with old evidence.                 *)
(*                                                                         *)
(* Threads of one pipeline share its lock and its breaker; pipelines share *)
(* the cache.  No lock covers a whole call.                                *)
(***************************************************************************)
EXTENDS Integers, FiniteSets

CONSTANTS
    Pipelines,    \* pipelines that share the cache
    PerPipeline,  \* bound: threads of each
    Kind,         \* "a-valuation", "hk-valuation" or "industry"
    Sources, Attempts,
    Parts,        \* evidence beside the figures: histories, the PS figure
    Answers,      \* what a source may return
    Normal, Retry,       \* data.cache_ttl.daily and HK_VALUATION_DEGRADED_TTL
    Threshold, OpenFor,  \* of the circuit breaker
    MaxTime,      \* bound: the clock
    MaxFaults,    \* bound: failing statements of a store
    None

VARIABLES
    now,
    latest, last,      \* the two entries; "last" is last_complete
    fails, openUntil,  \* the breaker of each pipeline
    pc, refresh,
    old,               \* what a thread may fall back to
    wasOpen,           \* the breaker as the thread found it
    tries, got,
    known,             \* auxiliary: what the cache held when the call began
    failedRow, failedAt,  \* auxiliary: collections that failed in a row
    faults

cache == <<latest, last>>
breaker == <<fails, openUntil>>
row == <<failedRow, failedAt>>
vars == <<now, latest, last, fails, openUntil, pc, refresh, old, wasOpen, tries,
          got, known, failedRow, failedAt, faults>>

Threads == Pipelines \X (1 .. PerPipeline)
Owner(t) == t[1]
Cached == Kind # "industry"
HK == Kind = "hk-valuation"

\* _is_healthy and not cache_degraded.
Complete(e) == e.positive /\ ~e.degraded

Init ==
    /\ now = 0 /\ latest = None /\ last = None
    /\ fails = [p \in Pipelines |-> 0] /\ openUntil = [p \in Pipelines |-> None]
    /\ pc = [t \in Threads |-> "idle"] /\ refresh = [t \in Threads |-> FALSE]
    /\ old = [t \in Threads |-> None] /\ wasOpen = [t \in Threads |-> FALSE]
    /\ tries = [t \in Threads |-> 0] /\ got = [t \in Threads |-> None]
    /\ known = [t \in Threads |-> None]
    /\ failedRow = [p \in Pipelines |-> 0] /\ failedAt = [p \in Pipelines |-> 0]
    /\ faults = 0

-----------------------------------------------------------------------------
Goto(t, place) == pc' = [pc EXCEPT ![t] = place]
IsOpen(p) == openUntil[p] # None /\ now < openUntil[p]

Success(p) == /\ openUntil' = [openUntil EXCEPT ![p] = None]
              /\ fails' = [fails EXCEPT ![p] = 0]
Failure(p) == IF openUntil[p] # None THEN UNCHANGED breaker
              ELSE /\ fails' = [fails EXCEPT ![p] = @ + 1]
                   /\ openUntil' = IF fails[p] + 1 >= Threshold
                                   THEN [openUntil EXCEPT ![p] = now + OpenFor]
                                   ELSE openUntil

\* Bookkeeping of the properties: failures in a row, and when the row was full.
Full(p) == failedRow[p] >= Threshold
FailedOnceMore(p) ==
    IF Full(p) THEN UNCHANGED row
    ELSE /\ failedRow' = [failedRow EXCEPT ![p] = @ + 1]
         /\ failedAt' = [failedAt EXCEPT ![p] = now]
RowBegins(p) ==
    /\ failedRow' = IF Full(p) /\ now >= failedAt[p] + OpenFor
                    THEN [failedRow EXCEPT ![p] = 0] ELSE failedRow
    /\ UNCHANGED failedAt

\* The call returns; its thread may be used again.
Return(t) ==
    /\ Goto(t, "idle")
    /\ known' = [known EXCEPT ![t] = None] /\ old' = [old EXCEPT ![t] = None] /\ got' = [got EXCEPT ![t] = None]
    /\ tries' = [tries EXCEPT ![t] = 0] /\ wasOpen' = [wasOpen EXCEPT ![t] = FALSE]
    /\ refresh' = [refresh EXCEPT ![t] = FALSE]

Begin(t) ==
    /\ pc[t] = "idle"
    /\ \E b \in BOOLEAN : refresh' = [refresh EXCEPT ![t] = b]
    /\ Goto(t, CASE HK -> "readLatest" [] Kind = "a-valuation" -> "readFresh"
                 [] OTHER -> "gate")
    /\ known' = [known EXCEPT ![t] = IF latest # None THEN latest ELSE last]
    /\ UNCHANGED <<now, cache, breaker, row, old, wasOpen, tries, got, faults>>

\* _get_stale_cached: any figures will do, whatever their age.
ReadLatest(t) ==
    /\ pc[t] = "readLatest"
    /\ old' = [old EXCEPT ![t] = latest]
    /\ Goto(t, IF latest = None THEN "readLast" ELSE "readFresh")
    /\ UNCHANGED <<now, cache, breaker, row, refresh, wasOpen, tries, got, known, faults>>

ReadLast(t) ==
    /\ pc[t] = "readLast"
    /\ old' = [old EXCEPT ![t] = last]
    /\ Goto(t, "readFresh")
    /\ UNCHANGED <<now, cache, breaker, row, refresh, wasOpen, tries, got, known, faults>>

\* _get_cached.  A degraded entry is kept for the shorter time.
Ttl(e) == IF HK /\ e.degraded /\ Retry < Normal THEN Retry ELSE Normal
Fresh(e) == now - e.at <= Ttl(e)
Hit == latest # None /\ Fresh(latest) /\ latest.positive

Serve(t) ==
    /\ pc[t] = "readFresh" /\ ~refresh[t] /\ Hit
    /\ Success(Owner(t))
    /\ failedRow' = [failedRow EXCEPT ![Owner(t)] = 0]
    /\ Return(t)
    /\ UNCHANGED <<now, cache, failedAt, faults>>

\* An expired entry is deleted by the read, except the Hong Kong one.
Miss(t) ==
    /\ pc[t] = "readFresh" /\ (refresh[t] \/ ~Hit)
    /\ latest' = IF ~refresh[t] /\ ~HK /\ latest # None /\ ~Fresh(latest) THEN None ELSE latest
    /\ Goto(t, "gate")
    /\ UNCHANGED <<now, last, breaker, row, refresh, old, wasOpen, tries, got, known, faults>>

\* An open breaker is answered with the old entry; the industry is still
\* asked, from its own cache only.  An expired breaker closes and forgets.
Rest(t) ==
    /\ pc[t] = "gate" /\ IsOpen(Owner(t)) /\ Kind # "industry"
    /\ Return(t)
    /\ UNCHANGED <<now, cache, breaker, row, faults>>

Ask(t) ==
    /\ pc[t] = "gate" /\ (IsOpen(Owner(t)) => Kind = "industry")
    /\ wasOpen' = [wasOpen EXCEPT ![t] = IsOpen(Owner(t))]
    /\ IF openUntil[Owner(t)] # None /\ ~IsOpen(Owner(t)) THEN Success(Owner(t))
       ELSE UNCHANGED breaker
    /\ RowBegins(Owner(t))
    /\ Goto(t, "fetch")
    /\ UNCHANGED <<now, cache, refresh, old, tries, got, known, faults>>

\* _merge_hk_valuation: only a degraded answer is completed.  A value read
\* off the end of a curve gives way to a newer one, and what could not be
\* fetched is taken from the old entry.
Supplied(o, a) == a.has \union (o.has \cap (IF a.failed = {} THEN Parts ELSE a.failed))
MergedCurve(o, a) ==
    [day |-> a.day, positive |-> a.positive, degraded |-> TRUE,
     curve |-> a.curve, has |-> Supplied(o, a), at |-> now]
MergedFigures(o, a) ==
    [day |-> IF a.curve /\ o.day > a.day THEN o.day ELSE a.day,
     positive |-> IF a.curve /\ o.day > a.day THEN o.positive ELSE a.positive,
     degraded |-> TRUE, curve |-> a.curve, has |-> a.has, at |-> now]
Merged(o, a) ==
    [day |-> IF a.curve /\ o.day > a.day THEN o.day ELSE a.day,
     positive |-> IF a.curve /\ o.day > a.day THEN o.positive ELSE a.positive,
     degraded |-> TRUE, curve |-> a.curve, has |-> Supplied(o, a), at |-> now]
Result(t, a) ==
    IF HK /\ old[t] # None /\ a.degraded THEN Merged(old[t], a)
    ELSE [day |-> a.day, positive |-> a.positive, degraded |-> a.degraded,
          curve |-> a.curve, has |-> a.has, at |-> now]

\* One request to a source: figures, nothing of use (an exception, no rows,
\* no figure), or a broken contract, which ends the call at once.
Answered(t) ==
    /\ pc[t] = "fetch" /\ tries[t] < Sources * Attempts
    /\ \E a \in Answers : got' = [got EXCEPT ![t] = Result(t, a)]
    /\ Goto(t, IF Cached THEN "store" ELSE "judge")
    /\ UNCHANGED <<now, cache, breaker, row, refresh, old, wasOpen, tries, known, faults>>

Unanswered(t) ==
    /\ pc[t] = "fetch" /\ tries[t] < Sources * Attempts
    /\ tries' = [tries EXCEPT ![t] = @ + 1]
    /\ UNCHANGED <<now, cache, breaker, row, pc, refresh, old, wasOpen, got, known, faults>>

Broken(t) ==
    /\ pc[t] = "fetch" /\ tries[t] < Sources * Attempts
    /\ Return(t)
    /\ UNCHANGED <<now, cache, breaker, row, faults>>

\* Every request failed.  The failure is counted, and then forgotten again if
\* there is an old entry to show.
Failed(t) ==
    /\ pc[t] = "fetch" /\ tries[t] = Sources * Attempts
    /\ IF wasOpen[t] THEN UNCHANGED <<breaker, row>>
       ELSE /\ IF old[t] # None THEN Success(Owner(t)) ELSE Failure(Owner(t))
            /\ FailedOnceMore(Owner(t))
    /\ Return(t)
    /\ UNCHANGED <<now, cache, faults>>

\* An industry answer is not stored.  It counts only if it was asked live.
Judge(t) ==
    /\ pc[t] = "judge"
    /\ IF wasOpen[t] THEN UNCHANGED <<breaker, row>>
       ELSE IF Complete(got[t])
       THEN /\ Success(Owner(t))
            /\ failedRow' = [failedRow EXCEPT ![Owner(t)] = 0] /\ UNCHANGED failedAt
       ELSE /\ Failure(Owner(t))
            /\ FailedOnceMore(Owner(t))
    /\ Return(t)
    /\ UNCHANGED <<now, cache, faults>>

-----------------------------------------------------------------------------
(* _store_cache, under the lock of the pipeline for the Hong Kong kind.    *)

Locked == {"check", "keep", "put", "mark"}
LockFreeAlways(t) == TRUE
LockFree(t) == HK => \A u \in Threads : Owner(u) = Owner(t) => pc[u] \notin Locked

Lock(t) ==
    /\ pc[t] = "store" /\ LockFree(t)
    /\ Goto(t, IF HK /\ ~Complete(got[t]) THEN "check" ELSE "put")
    /\ UNCHANGED <<now, cache, breaker, row, refresh, old, wasOpen, tries, got, known, faults>>

\* A complete "latest" is kept before something less replaces it.
Keeps(t) == latest # None /\ Complete(latest)

Check(t) ==
    /\ pc[t] = "check"
    /\ Goto(t, IF Keeps(t) THEN "keep" ELSE "put")
    /\ UNCHANGED <<now, cache, breaker, row, refresh, old, wasOpen, tries, got, known, faults>>

Keep(t) ==
    /\ pc[t] = "keep"
    /\ last' = IF latest = None THEN last ELSE latest
    /\ Goto(t, "put")
    /\ UNCHANGED <<now, latest, breaker, row, refresh, old, wasOpen, tries, got, known, faults>>

Put(t) ==
    /\ pc[t] = "put"
    /\ latest' = got[t]
    /\ Goto(t, IF HK /\ Complete(got[t]) THEN "mark" ELSE "done")
    /\ UNCHANGED <<now, last, breaker, row, refresh, old, wasOpen, tries, got, known, faults>>

Mark(t) ==
    /\ pc[t] = "mark"
    /\ last' = latest
    /\ Goto(t, "done")
    /\ UNCHANGED <<now, latest, breaker, row, refresh, old, wasOpen, tries, got, known, faults>>

\* A statement that fails leaves out the rest of the store.
StoreFails(t) ==
    /\ pc[t] \in Locked
    /\ faults < MaxFaults /\ faults' = faults + 1
    /\ Goto(t, "done")
    /\ UNCHANGED <<now, cache, breaker, row, refresh, old, wasOpen, tries, got, known>>

Done(t) ==
    /\ pc[t] = "done"
    /\ Success(Owner(t))
    /\ failedRow' = [failedRow EXCEPT ![Owner(t)] = 0]
    /\ Return(t)
    /\ UNCHANGED <<now, cache, failedAt, faults>>

\* Time passes between calls.
Tick ==
    /\ now < MaxTime /\ now' = now + 1
    /\ \A t \in Threads : pc[t] = "idle"
    /\ UNCHANGED <<cache, breaker, row, pc, refresh, old, wasOpen, tries, got, known, faults>>

Next == \/ Tick
        \/ \E t \in Threads :
              \/ Begin(t) \/ ReadLatest(t) \/ ReadLast(t) \/ Serve(t) \/ Miss(t)
              \/ Rest(t) \/ Ask(t) \/ Answered(t) \/ Unanswered(t) \/ Broken(t)
              \/ Failed(t) \/ Judge(t) \/ Lock(t) \/ Check(t) \/ Keep(t) \/ Put(t)
              \/ Mark(t) \/ StoreFails(t) \/ Done(t)

Spec == Init /\ [][Next]_vars

-----------------------------------------------------------------------------
\* What the cache and the breaker may hold: nothing without a figure is kept,
\* nothing complete but whole evidence is "last_complete", and the breaker is
\* open exactly when enough failures were counted.
DedicatedTypeOK ==
    /\ now \in 0 .. MaxTime /\ faults \in 0 .. MaxFaults
    /\ ~HK => last = None
    /\ ~Cached => latest = None
    /\ \A p \in Pipelines : openUntil[p] # None <=> fails[p] >= Threshold

\* "last_complete" holds a complete snapshot, never a degraded one.
LastIsComplete == last # None => Complete(last)

\* Action property: once there is a complete snapshot in the cache there is
\* always one, whatever is collected later and wherever a store fails.
HasComplete == \E e \in {latest, last} \ {None} : Complete(e)
CompleteIsKept ==
    HK /\ HasComplete => HasComplete'

\* What the cache held when a call began is not lost on the way: the fallback
\* carries it, and so does an answer that was completed.
EvidenceShown ==
    \A t \in Threads : HK /\ known[t] # None =>
        /\ pc[t] \in {"gate", "fetch"} => old[t] # None /\ known[t].has \subseteq old[t].has
        /\ pc[t] = "done" => known[t].has \subseteq got[t].has

\* Action property: a value read off the end of a curve never replaces a
\* newer one in the cache.
NewerIsKept ==
    HK /\ latest # None /\ latest' # latest /\ latest'.curve
       => latest'.day >= latest.day

\* Action property: after Threshold collections that failed in a row the
\* sources are left alone for OpenFor.
FailingAreRested ==
    \A t \in Threads : pc[t] = "gate" /\ pc'[t] = "fetch" /\ ~wasOpen'[t] =>
       ~ (Full(Owner(t)) /\ now < failedAt[Owner(t)] + OpenFor)

\* Action property: a breaker that is open closes early only by a call that
\* asked the sources themselves.
LiveCloses ==
    \A p \in Pipelines : Kind = "industry" /\ IsOpen(p) /\ openUntil'[p] = None =>
       \E t \in Threads : Owner(t) = p /\ pc[t] # pc'[t] /\ ~wasOpen[t]
=============================================================================
