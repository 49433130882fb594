------------------------------ MODULE GoldSources ------------------------------
(***************************************************************************)
(* One source of the gold reports.  Runs of the web server and of the      *)
(* command line share three files under one lock: the latest series, the   *)
(* last complete one and the last failed attempt.  A run answers from the  *)
(* files or asks the source, files what it got step by step, and falls     *)
(* back to what was filed.                                                 *)
(* One unit of time is a tick of the clock and a day of observations; a    *)
(* run lasts a minute at most, so it sees one tick.                        *)
(***************************************************************************)
EXTENDS Integers, FiniteSets

CONSTANTS
    Callers,        \* runs of a report
    Answers,        \* what the source may hold: sets of days
    FirstDay, LastDay, \* the clock
    CacheFor,       \* cache_seconds
    Retry,          \* _RETRY_SECONDS
    MaxAge,         \* max_age_days
    Span, Enough,   \* how far back a series reaches, and with how many days
    Window,         \* how far back the source is asked
    Lag,            \* days of the source that are not closed yet
    MaxVisits, MaxMishaps,
    None

VARIABLES
    hour,           \* the clock
    filed,          \* the files: [latest, whole, attempt]
    visit,          \* [caller |-> where its run is]
    told,           \* the last answer of a run
    seen            \* of the past: [visits, mishaps, whole: a complete series was filed,
                    \*   last: the last day of an answer that is in the files]

gsvars == <<hour, filed, visit, told, seen>>

-----------------------------------------------------------------------------
LastOf(days) == CHOOSE d \in days : \A e \in days : e <= d
FirstOf(days) == CHOOSE d \in days : \A e \in days : e >= d
Sooner(x, y) == IF x < y THEN x ELSE y
Asked(days, h) == {d \in days : d >= h - Window}

\* fetch_source: what of the source is in the interval asked and closed; days to come
\* and an empty answer are errors.
Fetched(days, h) == IF \E d \in days : d > h THEN {} ELSE {d \in Asked(days, h) : d <= h - Lag}

Covers(days) == Cardinality(days) >= Enough /\ FirstOf(days) <= LastOf(days) - Span

\* classify_gold, of days that are valid: old is what was complete before, or None.
Classify(days, old, h) ==
    IF \/ h - LastOf(days) > MaxAge \/ ~Covers(days)
       \/ old # None /\ (LastOf(days) < LastOf(old) \/ ~(Asked(old, h) \subseteq days))
    THEN "partial" ELSE "complete"

\* _read_cache: a series that has aged is partial, and kept as long as a partial one.
ReadCache(s, h) ==
    IF s = None \/ s.fetched > h \/ s.stored > h THEN None
    ELSE LET state == IF Classify(s.days, None, h) = "partial" THEN "partial" ELSE s.state
         IN [s EXCEPT !.state = state, !.expires = IF state = "partial" THEN Sooner(@, s.stored + Retry) ELSE @]
\* _read_attempt
Failing(h) == filed.attempt # None /\ h - filed.attempt \in 0 .. Retry - 1

\* What a run answers: with the collection record of the answer and where the data are from.
Answer(days, state, from) == [days |-> days, state |-> state, from |-> from]
\* _reference: the old data, marked as failed.
Reference(latest, whole) ==
    Answer(IF latest # None THEN latest.days ELSE IF whole # None THEN whole.days ELSE {}, "failed", "files")

Idle == [pc |-> "idle", at |-> 0, refresh |-> FALSE, latest |-> None, whole |-> None, kept |-> FALSE, value |-> None]
Inside(c) == visit[c].pc \in {"asking", "whole0", "latest", "whole", "unlink"}
Mishap == seen.mishaps < MaxMishaps
OneMore == [seen EXCEPT !.mishaps = @ + 1]

GSInit ==
    /\ hour = FirstDay
    /\ filed = [latest |-> None, whole |-> None, attempt |-> None]
    /\ visit = [c \in Callers |-> Idle]
    /\ told = None
    /\ seen = [visits |-> 0, mishaps |-> 0, whole |-> FALSE, last |-> 0]

-----------------------------------------------------------------------------
\* GoldCollector.collect: a run begins; the source waits for its turn and its lock.
Visit(c) ==
    /\ visit[c].pc = "idle" /\ seen.visits < MaxVisits
    /\ \E r \in BOOLEAN : visit' = [visit EXCEPT ![c] = [Idle EXCEPT !.pc = "waits", !.at = hour, !.refresh = r]]
    /\ seen' = [seen EXCEPT !.visits = @ + 1]
    /\ UNCHANGED <<hour, filed, told>>

\* The run answers; what it says of days the files have is remembered.
Tell(c, ans) ==
    /\ told' = ans
    /\ visit' = [visit EXCEPT ![c] = Idle]
Remember(ans) == IF ans.days = {} THEN seen ELSE [seen EXCEPT !.last = IF LastOf(ans.days) > @ THEN LastOf(ans.days) ELSE @]

\* _collect_source, with the lock: the files are read; without refresh a failure of a
\* moment ago, or a fresh series, is the answer.
Enter(c) ==
    /\ visit[c].pc = "waits" /\ \A o \in Callers : ~Inside(o)
    /\ LET latest == ReadCache(filed.latest, hour)
           stored == ReadCache(filed.whole, hour)
           kept == stored = None /\ latest # None /\ Classify(latest.days, None, latest.fetched) = "complete"
           whole == IF kept THEN latest ELSE stored
           old == Reference(latest, whole)
       IN IF ~visit[c].refresh /\ Failing(hour) /\ (latest = None \/ filed.latest.stored < filed.attempt)
          THEN Tell(c, old) /\ seen' = Remember(old)
          ELSE IF ~visit[c].refresh /\ latest # None /\ latest.expires > hour
          THEN LET ans == Answer(latest.days, latest.state, "files") IN Tell(c, ans) /\ seen' = Remember(ans)
          ELSE /\ visit' = [visit EXCEPT ![c] = [@ EXCEPT !.pc = "asking", !.at = hour, !.latest = latest, !.whole = whole, !.kept = kept]]
               /\ UNCHANGED <<told, seen>>
    /\ UNCHANGED <<hour, filed>>

\* The lock or the turn did not come in time: the files are read without the lock.
GiveUp(c) ==
    /\ visit[c].pc = "waits"
    /\ LET ans == Reference(ReadCache(filed.latest, hour), ReadCache(filed.whole, hour))
       IN Tell(c, ans) /\ seen' = Remember(ans)
    /\ UNCHANGED <<hour, filed>>

\* _write_attempt: not over a newer success or failure.
WriteAttempt ==
    IF \/ filed.latest # None /\ filed.latest.stored > hour
       \/ filed.attempt # None /\ filed.attempt > hour
    THEN filed ELSE [filed EXCEPT !.attempt = hour]

\* GoldSourceAdapter: a failed request.  The caller's own error is not filed, and the
\* file may not be written.
Fail(c) ==
    /\ visit[c].pc = "asking"
    /\ \/ filed' = WriteAttempt
       \/ UNCHANGED filed
    /\ LET ans == Reference(visit[c].latest, visit[c].whole) IN Tell(c, ans) /\ seen' = Remember(ans)
    /\ UNCHANGED hour

\* The source answers.  A series that ends before the latest one counts as a failure.
Deliver(c) ==
    /\ visit[c].pc = "asking"
    /\ \E days \in Answers :
         LET v == visit[c]
             got == Fetched(days, v.at)
             state == Classify(got, IF v.whole = None THEN None ELSE v.whole.days, hour)
         IN /\ got # {}
            /\ IF v.latest # None /\ LastOf(got) < LastOf(v.latest.days)
               THEN /\ filed' = WriteAttempt
                    /\ Tell(c, Reference(v.latest, v.whole)) /\ seen' = Remember(Reference(v.latest, v.whole))
               ELSE /\ visit' = [visit EXCEPT ![c] = [v EXCEPT !.pc = IF state = "partial" /\ v.kept THEN "whole0" ELSE "latest",
                                    !.value = [days |-> got, state |-> state, fetched |-> v.at]]]
                    /\ UNCHANGED <<filed, told, seen>>
    /\ UNCHANGED hour

\* _write_cache: a file that has a series fetched later is not written.
Late(file, s) == file # None /\ file.fetched > s.fetched
Snapshot(s) == [days |-> s.days, state |-> s.state, fetched |-> s.fetched, stored |-> hour,
                expires |-> hour + (IF s.state = "partial" THEN Sooner(CacheFor, Retry) ELSE CacheFor)]
Live(c) == Answer(visit[c].value.days, visit[c].value.state, "files")
Unfiled(c) == Tell(c, [Live(c) EXCEPT !.from = "source"]) /\ UNCHANGED filed

\* The files are written one after another; the first that fails ends it, and the answer
\* is given all the same.
SaveOldWhole(c) ==
    /\ visit[c].pc = "whole0"
    /\ \/ /\ filed' = [filed EXCEPT !.whole = [visit[c].whole EXCEPT !.state = "complete", !.stored = visit[c].whole.fetched]]
          /\ visit' = [visit EXCEPT ![c].pc = "latest"]
          /\ UNCHANGED <<told, seen>>
       \/ Mishap /\ Unfiled(c) /\ seen' = OneMore
    /\ UNCHANGED hour
SaveLatest(c) ==
    /\ visit[c].pc = "latest"
    /\ LET v == visit[c].value
       IN \/ /\ ~Late(filed.latest, v)
             /\ filed' = [filed EXCEPT !.latest = Snapshot(v)]
             /\ visit' = [visit EXCEPT ![c].pc = IF v.state = "complete" THEN "whole" ELSE "unlink"]
             /\ seen' = [seen EXCEPT !.whole = @ \/ v.state = "complete"]
             /\ UNCHANGED told
          \/ (Mishap \/ Late(filed.latest, v)) /\ Unfiled(c) /\ seen' = IF Late(filed.latest, v) THEN seen ELSE OneMore
    /\ UNCHANGED hour
SaveWhole(c) ==
    /\ visit[c].pc = "whole"
    /\ \/ /\ ~Late(filed.whole, visit[c].value)
          /\ filed' = [filed EXCEPT !.whole = Snapshot(visit[c].value)]
          /\ visit' = [visit EXCEPT ![c].pc = "unlink"]
          /\ UNCHANGED <<told, seen>>
       \/ Mishap /\ Tell(c, Live(c)) /\ seen' = [Remember(Live(c)) EXCEPT !.mishaps = @ + 1] /\ UNCHANGED filed
    /\ UNCHANGED hour
Unlink(c) ==
    /\ visit[c].pc = "unlink"
    /\ filed' = [filed EXCEPT !.attempt = None]
    /\ Tell(c, Live(c)) /\ seen' = Remember(Live(c))
    /\ UNCHANGED hour

\* _collect_without_cache: the lock cannot be used, the source is asked without the files.
Bare(c) ==
    /\ visit[c].pc = "waits" /\ Mishap
    /\ \/ Tell(c, Answer({}, "failed", "source"))
       \/ \E days \in Answers : /\ Fetched(days, hour) # {}
                                /\ Tell(c, Answer(Fetched(days, hour), Classify(Fetched(days, hour), None, hour), "source"))
    /\ seen' = OneMore
    /\ UNCHANGED <<hour, filed>>

\* The process of a run dies; its lock is free again.
Die(c) ==
    /\ visit[c].pc # "idle" /\ Mishap
    /\ visit' = [visit EXCEPT ![c] = Idle]
    /\ seen' = OneMore
    /\ UNCHANGED <<hour, filed, told>>

Tick ==
    /\ hour < LastDay /\ \A c \in Callers : visit[c].pc # "idle" => visit[c].at = hour
    /\ hour' = hour + 1
    /\ UNCHANGED <<filed, visit, told, seen>>

GSNext ==
    \/ Tick
    \/ \E c \in Callers : \/ Visit(c) \/ Enter(c) \/ GiveUp(c) \/ Fail(c) \/ Deliver(c) \/ SaveOldWhole(c)
                          \/ SaveLatest(c) \/ SaveWhole(c) \/ Unlink(c) \/ Bare(c) \/ Die(c)

-----------------------------------------------------------------------------
\* Every variable keeps to its domain.
GSTypeOK ==
    /\ hour \in FirstDay .. LastDay
    /\ \A f \in {filed.latest, filed.whole} : f # None =>
         /\ f.days # {} /\ f.state \in {"complete", "partial"}
         /\ f.fetched <= f.stored /\ f.stored <= hour /\ f.expires \in Nat
    /\ filed.attempt \in (FirstDay .. hour) \union {None}
    /\ told = None \/ told.state \in {"complete", "partial", "failed"}

\* Once a complete series was filed, one is known for ever, whatever dies between the
\* writes; there is one run with the lock.
GSSafe ==
    /\ seen.whole => \/ filed.whole # None
                     \/ filed.latest # None /\ Classify(filed.latest.days, None, filed.latest.fetched) = "complete"
    /\ \A c, o \in Callers : Inside(c) /\ Inside(o) => c = o

\* Action property: the latest series never goes back, the complete one is replaced only
\* by one with all its days that are still asked for, no answer with the files behind it
\* ends before an earlier one, and what is called complete has the days of the complete
\* series.
GSStep ==
    /\ filed'.latest # filed.latest /\ filed.latest # None =>
         LastOf(filed'.latest.days) >= LastOf(filed.latest.days) /\ filed'.latest.fetched >= filed.latest.fetched
    /\ filed'.whole # filed.whole /\ filed.whole # None =>
         Asked(filed.whole.days, hour) \subseteq filed'.whole.days
    /\ told' # told /\ told'.from = "files" =>
         /\ seen.last > 0 => told'.days # {} /\ LastOf(told'.days) >= seen.last
         /\ told'.state = "complete" /\ filed.whole # None => Asked(filed.whole.days, hour) \subseteq told'.days
=============================================================================
