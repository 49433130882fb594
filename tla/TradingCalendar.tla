--------------------------- MODULE TradingCalendar ---------------------------
(***************************************************************************)
(* The calendar of trading days and its cache                              *)
(* (src/src/radar/calendar.py): the collector refreshes it, the pages read *)
(* it, the commands do both, each with an instance of its own.             *)
(*                                                                         *)
(* Time is counted in ticks of at least five minutes; a day has TicksADay  *)
(* of them and its session is over in the last.  The source lists trading  *)
(* days up to a day that may lie before today: those of a new year come    *)
(* late.  A download takes a while and brings what was listed as it began. *)
(***************************************************************************)
EXTENDS Integers, FiniteSetsExt

CONSTANTS
    Writers,     \* instances that may refresh
    Readers,     \* instances that may not: refresh_enabled is FALSE
    Trading,     \* the trading days there will be
    LastDay,     \* bound on the days
    Ahead,       \* how far ahead the days may be published, or behind: a set
    MaxAsks,     \* bound on the questions
    None

TicksADay == 2
Instances == Writers \union Readers

VARIABLES
    tick,        \* the clock
    cache,       \* the row of the cache: None or what is stored
    retry,       \* _retry_after of each writer, 0 when it is None
    ask,         \* what each instance was asked, and where it is
    asks         \* questions so far

vars == <<tick, cache, retry, ask, asks>>

Day(t) == 1 + (t \div TicksADay)
Closed(t) == t % TicksADay = TicksADay - 1

Idle == [pc |-> "idle", kind |-> None, from |-> 0, to |-> 0, at |-> 0, data |-> None,
         valid |-> FALSE, answer |-> None]

Init == /\ tick = 0 /\ cache = None /\ asks = 0
        /\ retry = [i \in Writers |-> 0]
        /\ ask = [i \in Instances |-> Idle]

At(i, pc) == ask[i].pc = pc
Go(i, a) == ask' = [ask EXCEPT ![i] = a]

\* _validate: the days are sorted and lie in the range they claim.
Published(t, ahead) == {d \in Trading : d <= Day(t) + ahead}
Calendar(days, t) == [days |-> days, first |-> Min(days), last |-> Max(days), at |-> t]
Inside(data, from, to) == data # None /\ data.first <= from /\ from <= to /\ to <= data.last
IsStale(data, now) == data # None /\ now - data.at > TicksADay

-----------------------------------------------------------------------------
\* The questions: the last completed day, the days of a range, the next schedule.
Ask(i, kind, from, to) ==
    /\ ask[i].pc \in {"idle", "done"} /\ asks < MaxAsks
    /\ asks' = asks + 1
    /\ Go(i, [Idle EXCEPT !.pc = "read", !.kind = kind, !.at = tick, !.from = from, !.to = to])
    /\ UNCHANGED <<tick, cache, retry>>

\* An unreadable or invalid row counts as none.
Read(i) ==
    /\ At(i, "read")
    /\ \E data \in {cache, None} :
          LET a == ask[i]
              valid == Inside(data, a.from, a.to)
          IN Go(i, [a EXCEPT !.data = data, !.valid = valid,
                             !.pc = IF ~valid \/ (IsStale(data, tick) /\ i \in Writers)
                                    THEN "refresh" ELSE "answer"])
    /\ UNCHANGED <<tick, cache, retry, asks>>

\* Without a right to refresh, or too early, the cache must do.
MayRefresh(i) == i \in Writers /\ tick >= retry[i]

Refuse(i) ==
    /\ At(i, "refresh")
    /\ ~MayRefresh(i)
    /\ Go(i, [ask[i] EXCEPT !.pc = IF ask[i].valid THEN "answer" ELSE "done", !.data = IF ask[i].valid THEN @ ELSE None])
    /\ UNCHANGED <<tick, cache, retry, asks>>

Download(i) ==
    /\ At(i, "refresh") /\ MayRefresh(i)
    /\ Go(i, [ask[i] EXCEPT !.pc = "store", !.at = tick])
    /\ UNCHANGED <<tick, cache, retry, asks>>

NextTry(i) == ask[i].at + 1

Fail(i) ==
    /\ At(i, "store")
    /\ retry' = [retry EXCEPT ![i] = NextTry(i)]
    /\ Go(i, [ask[i] EXCEPT !.pc = IF ask[i].valid THEN "answer" ELSE "done", !.data = IF ask[i].valid THEN @ ELSE None])
    /\ UNCHANGED <<tick, cache, asks>>

\* fetched_at is stamped when the download has ended.
Store(i) ==
    /\ At(i, "store")
    /\ \E ahead \in Ahead :
          LET days == Published(ask[i].at, ahead)
          IN /\ days # {}
             /\ cache' = Calendar(days, tick)
             /\ Go(i, [ask[i] EXCEPT !.pc = "answer", !.data = Calendar(days, tick)])
    /\ retry' = [retry EXCEPT ![i] = NextTry(i)]
    /\ UNCHANGED <<tick, asks>>

\* The days outside what was downloaded are unknown, a new year as much as a holiday.
Covered(data, from, to) == Inside(data, from, to)

\* latest_completed, trading_days, next_scheduled; None when the calendar cannot say.
Eligible(data, t) == {d \in data.days : d < Day(t) \/ (d = Day(t) /\ Closed(t))}
Coming(data, t) == {d \in data.days : d > Day(t) \/ (d = Day(t) /\ ~Closed(t))}
Least(S) == IF S = {} THEN None ELSE Min(S)
Most(S) == IF S = {} THEN None ELSE Max(S)

Answer(i) ==
    /\ At(i, "answer")
    /\ LET a == ask[i]
           t == TicksADay * (a.from - 1) + IF a.kind = "closed" THEN TicksADay - 1 ELSE 0
       IN Go(i, [Idle EXCEPT !.pc = "done", !.kind = a.kind, !.from = a.from, !.to = a.to, !.at = t,
                   !.answer = IF ~Covered(a.data, a.from, a.to) THEN None
                              ELSE CASE a.kind = "range" -> {d \in a.data.days : a.from <= d /\ d <= a.to}
                                     [] a.kind = "next" -> Least(Coming(a.data, t))
                                     [] OTHER -> Most(Eligible(a.data, t))])
    /\ UNCHANGED <<tick, cache, retry, asks>>

Tick == /\ Day(tick + 1) <= LastDay /\ tick' = tick + 1
        /\ UNCHANGED <<cache, retry, ask, asks>>

Today == Day(tick)
Next ==
    \/ \E i \in Instances :
          \/ \E kind \in {"next", IF Closed(tick) THEN "closed" ELSE "open"} : Ask(i, kind, Today, Today)
          \/ \E from \in 1 .. Today : Ask(i, "range", from, Today)
          \/ Read(i) \/ Refuse(i) \/ Answer(i)
    \/ \E i \in Writers : Download(i) \/ Fail(i) \/ Store(i)
    \/ Tick

Spec == Init /\ [][Next]_vars

-----------------------------------------------------------------------------
CalendarTypeOK ==
    /\ tick \in Nat /\ asks \in 0 .. MaxAsks /\ retry \in [Writers -> Nat]
    /\ cache # None => cache.days \subseteq Trading /\ cache.first <= cache.last
    /\ \A i \in Instances :
          /\ ask[i].pc \in {"idle", "read", "refresh", "store", "answer", "done"}
          /\ {ask[i].from, ask[i].to} \subseteq 0 .. LastDay

\* What the calendar answers is true: the trading days of a range, the last one whose
\* session is over, the next one to come.  Where the published days do not reach, it
\* does not answer, whatever was downloaded by whom and when.
AnswersAreTrue ==
    \A i \in Instances : At(i, "done") /\ ask[i].answer # None =>
        LET a == ask[i]
            whole == [days |-> Trading]
        IN a.answer = CASE a.kind = "range" -> {d \in Trading : a.from <= d /\ d <= a.to}
                        [] a.kind = "next" -> Least(Coming(whole, a.at))
                        [] OTHER -> Most(Eligible(whole, a.at))
=============================================================================
