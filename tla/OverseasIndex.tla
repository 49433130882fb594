---------------------------- MODULE OverseasIndex ----------------------------
(***************************************************************************)
(* The closes of an index that an overseas ETF tracks                      *)
(* (src/src/radar/overseas.py): the collector refreshes the caches of the  *)
(* index's sources after each update, the page derives its view from what  *)
(* is cached and from the day of the ETF's prices.                         *)
(*                                                                         *)
(* Time is counted in ticks of half a day.  The session of a day of the    *)
(* index ends in its second half, after that of the ETF, which ends in the *)
(* first.  A row is a day of one source; the prices of two sources are not *)
(* comparable.                                                             *)
(***************************************************************************)
EXTENDS Integers, Sequences, FiniteSetsExt

CONSTANTS
    Sources,    \* the primary source and its fallbacks, in their order
    LastDay,    \* bound on the days
    None

VARIABLES
    tick,       \* the clock
    cached,     \* overseas_cache: [rows, checked, error] by source
    job,        \* the refresh of the collector
    etf         \* the snapshot of the ETF: [status, day] or None

vars == <<tick, cached, job, etf>>

Days == 1 .. LastDay
Numbers == DOMAIN Sources
Close(d) == 2 * d + 1       \* close_at
EtfClose(d) == 2 * d        \* 15:00 in Shanghai
Missing == [rows |-> {}, checked |-> None, error |-> FALSE]

Init == /\ tick = 2 /\ etf = None
        /\ cached = [n \in Numbers |-> Missing]
        /\ job = [pc |-> "idle", now |-> 0, cutoff |-> None, n |-> 0, rows |-> {}]

-----------------------------------------------------------------------------
\* _cutoff: the close of the day the ETF's prices are of; those of a stale item are
\* older than the snapshot, and a failed item has none.  A close to come is dropped.
Cutoff(item, now) ==
    IF item = None \/ item.status = "failed" THEN None
    ELSE IF EtfClose(item.day) > now THEN None ELSE EtfClose(item.day)

Begin == /\ job.pc = "idle"
         /\ job' = [pc |-> "read", now |-> tick, cutoff |-> Cutoff(etf, tick), n |-> 1, rows |-> {}]
         /\ UNCHANGED <<tick, cached, etf>>

ReadCache == /\ job.pc = "read"
             /\ job' = [job EXCEPT !.pc = "fetch", !.rows = cached[job.n].rows]
             /\ UNCHANGED <<tick, cached, etf>>

\* parse_daily: only the days whose session was over when the refresh began.
Closed(d, now) == Close(d) <= now

CompleteRows(rows, cutoff) ==
    /\ Cardinality(rows) > 1
    /\ cutoff = None \/ \E d \in rows : Close(d) <= cutoff

Store(n, rows, error) == cached' = [cached EXCEPT ![n] = [rows |-> rows, checked |-> job.now, error |-> error]]

Onward == job' = IF job.n = Len(Sources) THEN [job EXCEPT !.pc = "idle", !.rows = {}, !.cutoff = None]
                 ELSE [job EXCEPT !.pc = "read", !.n = @ + 1, !.rows = {}]

\* No answer, or one of another index, currency or zone, with an impossible price, with
\* a day twice or with no day that is over: what was cached stays.
Refused == /\ job.pc = "fetch"
           /\ Store(job.n, job.rows, TRUE)
           /\ Onward
           /\ UNCHANGED <<tick, etf>>

\* A source need not have every day.  With a complete range the fallbacks are not asked.
Fetched == /\ job.pc = "fetch"
           /\ \E offered \in SUBSET {d \in Days : 2 * d <= tick} :
                 LET new == {d \in offered : Closed(d, job.now)}
                     rows == job.rows \union new
                 IN /\ new # {}
                    /\ Store(job.n, rows, FALSE)
                    /\ IF CompleteRows(rows, job.cutoff)
                       THEN job' = [job EXCEPT !.pc = "idle", !.rows = {}, !.cutoff = None] ELSE Onward
           /\ UNCHANGED <<tick, etf>>

Tick == tick < 2 * LastDay + 1 /\ tick' = tick + 1 /\ UNCHANGED <<cached, job, etf>>

\* A snapshot of the ETF is published: fresh, stale with the prices of an earlier day,
\* or failed.
Snapshot ==
    /\ \E d \in {d \in Days : EtfClose(d) <= tick}, status \in {"fresh", "stale", "failed"} :
          /\ status = "fresh" => IF etf = None THEN TRUE ELSE etf.day <= d
          /\ status = "stale" => IF etf = None THEN FALSE ELSE etf.day = d
          /\ etf' = [status |-> status, day |-> d]
    /\ UNCHANGED <<tick, cached, job>>

Crash == job.pc # "idle" /\ job' = [job EXCEPT !.pc = "idle", !.rows = {}, !.cutoff = None]
         /\ UNCHANGED <<tick, cached, etf>>

Next == Begin \/ ReadCache \/ Refused \/ Fetched \/ Tick \/ Snapshot \/ Crash

Spec == Init /\ [][Next]_vars

-----------------------------------------------------------------------------
(* view: the source and the figures the page shows.                        *)

Over(rows) == {d \in rows : Close(d) <= tick}
Latest(rows) == IF rows = {} THEN 0 ELSE Max(rows)
Bit(b) == IF b THEN 1 ELSE 0

\* A complete range, then any rows, the latest close, no error; the first of equals.
Rank(n, cutoff) ==
    LET rows == Over(cached[n].rows)
    IN <<Bit(CompleteRows(rows, cutoff)), Bit(rows # {}), Latest(rows), Bit(~cached[n].error)>>
Below(a, b) == \E i \in 1 .. 4 : a[i] < b[i] /\ \A j \in 1 .. i - 1 : a[j] = b[j]
Selected(cutoff) ==
    CHOOSE n \in Numbers : \A m \in Numbers :
        \/ Below(Rank(m, cutoff), Rank(n, cutoff))
        \/ Rank(m, cutoff) = Rank(n, cutoff) /\ n <= m

BaseOf(rows, cutoff) == IF cutoff = None THEN 0 ELSE Latest({d \in rows : Close(d) <= cutoff})

View == LET cutoff == Cutoff(etf, tick)
            n == Selected(cutoff)
            rows == Over(cached[n].rows)
            last == Latest(rows)
        IN [source |-> n, last |-> last, before |-> Latest(rows \ {last}),
            base |-> BaseOf(rows, cutoff), status |-> IF rows = {} THEN "unavailable"
                                                       ELSE IF cached[n].error THEN "stale" ELSE "fresh"]

OverseasTypeOK ==
    /\ tick \in 2 .. 2 * LastDay + 1
    /\ \A n \in Numbers : cached[n].rows \subseteq Days /\ cached[n].error \in BOOLEAN
    /\ job.pc \in {"idle", "read", "fetch"}
    /\ etf # None => etf.day \in Days

\* A close that is cached was over when it was fetched; the change since the ETF's day
\* starts with a close before the ETF's own, and no later than the close it ends with;
\* and a source with a complete range is preferred to one without.
OverseasSound ==
    /\ \A n \in Numbers : \A d \in cached[n].rows : Close(d) <= cached[n].checked
    /\ View.base # 0 => /\ View.base <= View.last
                        /\ View.base < etf.day
                        /\ etf.status # "failed"
    /\ LET cutoff == Cutoff(etf, tick)
           Whole(n) == CompleteRows(Over(cached[n].rows), cutoff)
       IN (\E n \in Numbers : Whole(n)) => Whole(View.source)

\* Step predicate: no refresh takes away a close that was cached.
ClosesAreKept == \A n \in Numbers : cached[n].rows \subseteq cached'[n].rows
=============================================================================
