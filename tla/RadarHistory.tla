---------------------------- MODULE RadarHistory ----------------------------
(***************************************************************************)
(* The daily history of one instrument of the radar: the tables of         *)
(* HistoryStore, the synchronizer that fills them and the chain of data    *)
(* sources it asks (src/src/radar/history.py, src/src/radar/data.py).      *)
(*                                                                         *)
(* A row stands for the prices of a trading day; its value is the base of  *)
(* adjustment they were computed with, 0 when there is none.  Rows of two  *)
(* bases are not comparable.  A series belongs to one source, whose        *)
(* adjustment is fixed: all of them are "qfq" or "unknown", and the        *)
(* overlap is checked for both.                                            *)
(*                                                                         *)
(* Every connection is a step of its own, as is every request: the process *)
(* of the collector, the web server and the command line synchronize one   *)
(* table without a common lock.                                            *)
(***************************************************************************)
EXTENDS Integers, Sequences, FiniteSetsExt

CONSTANTS
    Syncs,      \* synchronizers, each of a process or a request
    Chain,      \* the sources in the order they are asked
    LastDay,    \* the trading days are 1..LastDay
    Listings,   \* what Listed may be
    Starts,     \* first days of requests
    Overlap,    \* 10 days: what a normal refresh fetches again
    MaxBase,    \* bound on the adjustments of a source
    Answers,    \* what a source may answer: some of AllAnswers
    None

Days == 1 .. LastDay
Sources == {Chain[i] : i \in DOMAIN Chain}
NoRows == [d \in Days |-> 0]
RowsOf(f) == {d \in Days : f[d] # 0}
Between(f, s, e) == [d \in Days |-> IF d \in s .. e THEN f[d] ELSE 0]
Larger(m, n) == IF m > n THEN m ELSE n
Smaller(m, n) == IF m < n THEN m ELSE n

VARIABLES
    prices,    \* daily_prices: prices[s][d]
    asked,     \* daily_coverage.requested_start, None without a row
    missing,   \* daily_coverage.missing_dates
    selected,  \* daily_selected_series
    pinned,    \* daily_target_series
    base,      \* the base each source computes with now
    listed,    \* the first day each source has
    today,     \* the last completed trading day
    sync,      \* where each synchronizer is, and what it holds
    crowd,     \* history variable: those whose request met one of another synchronizer
    past       \* history variable: what may have brought rows of two bases together

tables == <<prices, asked, missing, selected, pinned>>
world == <<base, listed, today, crowd, past>>
vars == <<tables, world, sync>>

Idle == [pc |-> "idle", mode |-> None, start |-> 0, end |-> 0, key |-> None, cover |-> None,
         rows |-> NoRows, from |-> 0, to |-> 0, got |-> None, rebuilt |-> FALSE, gaps |-> {},
         open |-> {}]

Init == /\ prices = [s \in Sources |-> NoRows]
        /\ asked = [s \in Sources |-> None] /\ missing = [s \in Sources |-> {}]
        /\ selected = None /\ pinned = [d \in Days |-> None]
        /\ base = [s \in Sources |-> 1]
        /\ listed \in Listings
        /\ today = 2
        /\ sync = [t \in Syncs |-> Idle]
        /\ crowd = {} /\ past = {}

At(t, pc) == sync[t].pc = pc
AtWork == {t \in Syncs : sync[t].pc \notin {"idle", "done", "failed"}}
Go(t, r) == sync' = [sync EXCEPT ![t] = r]
Failed == [Idle EXCEPT !.pc = "failed"]

\* A RadarDataError: read_or_sync catches that of its first attempt and tries again
\* without what is cached.
Refused(r) == IF r.mode = "query"
              THEN [Idle EXCEPT !.pc = "key", !.mode = "sync", !.start = r.start, !.end = r.end,
                                !.open = r.open]
              ELSE Failed

-----------------------------------------------------------------------------
(* The sources.  What may come back from one: a network error, another     *)
(* error, no table, a table without its columns or with a bad date, no     *)
(* rows in the range, a hole or an end before the target, the last day     *)
(* only, or the rows.                                                      *)

AllAnswers == {"network", "error", "shape", "columns", "date", "empty", "short", "last", "rows"}

\* Outcomes: "rows" and "last" go on to the checks of the chain, "failed" and
\* "empty" ask the next source, "raised" leaves the chain.
Plain(a) == CASE a \in {"rows", "short", "last", "empty"} -> a [] OTHER -> "failed"

AkShareReply(a) == [out |-> Plain(a), opens |-> a \in {"network", "error", "shape", "columns"}]
SinaReply(a) == [out |-> IF a = "shape" THEN "raised" ELSE Plain(a), opens |-> a = "network"]
\* Only KeyError, TypeError and ValueError are caught beside network errors.
TencentReply(a) == [out |-> IF a \in {"shape", "error"} THEN "raised" ELSE Plain(a),
                    opens |-> a = "network"]
OfficialReply(a) == [out |-> Plain(a), opens |-> a = "network"]
\* A file: it has no circuit, and a missing one is a failure.
LocalReply(a) == [out |-> Plain(a), opens |-> FALSE]

Reply(s, a) == CASE s = "akshare" -> AkShareReply(a) [] s = "sina" -> SinaReply(a)
                 [] s = "tencent" -> TencentReply(a) [] s = "official" -> OfficialReply(a)
                 [] OTHER -> LocalReply(a)

\* fetch_daily_result of one source for the days b..e: an open circuit fails it.
Outcome(s, a, b, e, open) ==
    IF s \in open THEN "failed"
    ELSE IF a \in {"rows", "short", "last"} /\ Larger(b, listed[s]) > e THEN "empty"
    ELSE Reply(s, a).out

\* What the chain takes: the first source whose rows reach the target day with
\* no trading day missing; none when a source raises or all are passed over.
Taken(answer, b, e, open) ==
    LET out(i) == Outcome(Chain[i], answer[i], b, e, open)
        ends == {i \in DOMAIN Chain : out(i) \in {"rows", "last", "raised"}}
    IN IF ends = {} THEN 0 ELSE Min(ends)

Asked(answer, b, e, open) ==
    LET n == Taken(answer, b, e, open) IN IF n = 0 THEN DOMAIN Chain ELSE 1 .. n

\* _fetch_result, of a source that has been taken.
Fetched(n, a, b, e) ==
    [source |-> Chain[n], base |-> base[Chain[n]],
     first |-> IF a = "last" THEN e ELSE Larger(b, listed[Chain[n]])]

Opened(answer, b, e, open) ==
    open \union {Chain[i] : i \in {j \in Asked(answer, b, e, open) : Reply(Chain[j], answer[j]).opens}}

Download(got, e) == [d \in Days |-> IF d \in got.first .. e THEN got.base ELSE 0]

\* A request of synchronizer t for the days b..e; next is what it does with rows.
\* What a source raises is no RadarDataError and ends the whole attempt.
Fetch(t, b, e, next(_)) ==
    /\ \E answer \in [DOMAIN Chain -> Answers] :
          LET r == [sync[t] EXCEPT !.open = Opened(answer, b, e, @)]
              n == Taken(answer, b, e, sync[t].open)
          IN Go(t, IF n = 0 THEN Refused(r)
                   ELSE IF Outcome(Chain[n], answer[n], b, e, sync[t].open) = "raised" THEN Failed
                   ELSE next([r EXCEPT !.got = Fetched(n, answer[n], b, e)]))
    /\ UNCHANGED <<tables, world>>

-----------------------------------------------------------------------------
(* prepare_result and read_or_sync.                                        *)

\* A refresh ("sync"), an instrument a retry leaves alone ("reuse"), a query of the
\* web server or the command line ("query": reuse, then sync).  Other instruments
\* of the refresh may have opened circuits: these fail like the sources they belong to.
Begin(t, mode, start, end) ==
    /\ t \notin AtWork
    /\ start <= end /\ end <= today
    /\ Go(t, [Idle EXCEPT !.pc = "key", !.mode = mode, !.start = start, !.end = end])
    /\ crowd' = IF AtWork = {} THEN crowd \ {t} ELSE crowd \union AtWork \union {t}
    /\ past' = IF AtWork # {} /\ \E s \in Sources : base[s] > 1 THEN past \union {"raced"} ELSE past
    /\ UNCHANGED <<tables, base, listed, today>>

\* first_date and last_date are those of the rows: one transaction writes both.
CoverOf(s) == IF asked[s] = None THEN None
              ELSE [asked |-> asked[s], first |-> Min(RowsOf(prices[s])),
                    last |-> Max(RowsOf(prices[s])), missing |-> missing[s]]

SyncStart(r) == IF r.cover = None THEN r.start ELSE Smaller(r.start, r.cover.first)
Known(r) == IF r.cover = None THEN {} ELSE {d \in r.cover.missing : d <= r.end}

\* _gaps: trading days without a row, from the first row on.
Gaps(f, s, e) == IF RowsOf(f) = {} THEN {}
                 ELSE (Larger(s, Min(RowsOf(f))) .. e) \ RowsOf(f)
Valid(f, s, e) == RowsOf(f) # {} /\ Max(RowsOf(f)) = e /\ Gaps(f, s, e) = {}

Reusable(r) == /\ r.cover # None /\ r.cover.asked <= r.start
               /\ Valid(r.rows, SyncStart(r), r.end)
               /\ Known(r) \subseteq RowsOf(r.rows)

RequestStart(r) ==
    LET lost == Gaps(r.rows, SyncStart(r), r.end) \union (Known(r) \ RowsOf(r.rows))
        tail == IF r.cover # None /\ r.cover.asked <= r.start /\ RowsOf(r.rows) # {}
                THEN Larger(SyncStart(r), r.end - Overlap) ELSE SyncStart(r)
    IN IF lost = {} THEN tail ELSE Smaller(tail, Min(lost))

\* Without a key a retry synchronizes like a refresh.
Planned(r) == IF r.mode = "sync" \/ r.key = None
              THEN [r EXCEPT !.pc = "fetch", !.from = RequestStart(r), !.to = r.end]
              ELSE IF Reusable(r) THEN [r EXCEPT !.pc = "read"] ELSE Refused(r)

Key(t) ==
    /\ At(t, "key")
    /\ LET r == sync[t]
           key == IF pinned[r.end] # None THEN pinned[r.end] ELSE selected
       IN Go(t, IF key = None THEN Planned(r) ELSE [r EXCEPT !.key = key, !.pc = "cover"])
    /\ UNCHANGED <<tables, world>>

Cover(t) ==
    /\ At(t, "cover")
    /\ Go(t, [sync[t] EXCEPT !.cover = CoverOf(sync[t].key), !.pc = "cached"])
    /\ UNCHANGED <<tables, world>>

Cached(t) ==
    /\ At(t, "cached")
    /\ LET r == sync[t]
       IN Go(t, Planned([r EXCEPT !.rows = Between(prices[r.key], SyncStart(r), r.end)]))
    /\ UNCHANGED <<tables, world>>

SwitchedNever(r) == FALSE
\* Another source than the cached one must give the whole range, not a tail.
Switched(r) == r.key # r.got.source /\ r.from > SyncStart(r)

FetchFirst(t) ==
    /\ At(t, "fetch")
    /\ Fetch(t, sync[t].from, sync[t].to,
             LAMBDA r : [r EXCEPT !.pc = IF Switched(r) THEN "whole" ELSE "old"])

FetchWhole(t) ==
    /\ At(t, "whole")
    /\ Fetch(t, SyncStart(sync[t]), sync[t].to,
             LAMBDA r : [r EXCEPT !.from = SyncStart(r), !.pc = "old"])

\* _overlap_changed: a day both have differs.
Changed(old, new) == \E d \in RowsOf(old) \intersect RowsOf(new) : old[d] # new[d]

Old(t) ==
    /\ At(t, "old")
    /\ LET r == sync[t]
           old == Between(prices[r.got.source], SyncStart(r), r.end)
       IN Go(t, [r EXCEPT !.rows = old,
                          !.pc = IF Changed(old, Download(r.got, r.end)) THEN "range" ELSE "merge"])
    /\ UNCHANGED <<tables, world>>

RebuildEndShort(r, c) == r.end
RebuildEnd(r, c) == IF c = None THEN r.end ELSE Larger(r.end, c.last)

\* The base changed: all that is stored of this source is fetched again.
RebuildRange(t) ==
    /\ At(t, "range")
    /\ LET r == sync[t]
           c == CoverOf(r.got.source)
       IN Go(t, [r EXCEPT !.pc = "rebuild", !.rebuilt = TRUE,
                          !.from = IF c = None THEN SyncStart(r) ELSE Smaller(SyncStart(r), c.first),
                          !.to = RebuildEnd(r, c),
                          !.rows = [d \in Days |-> IF c # None /\ d \in c.missing THEN 1 ELSE 0]])
    /\ UNCHANGED <<tables, world>>

\* From the same source only, and every day known to be missing must be there.
Rebuild(t) ==
    /\ At(t, "rebuild")
    /\ Fetch(t, sync[t].from, sync[t].to, LAMBDA r :
           IF r.got.source = sync[t].got.source /\ RowsOf(r.rows) \subseteq r.got.first .. r.to
           THEN [r EXCEPT !.rows = NoRows, !.pc = "merge"] ELSE Refused(r))

\* merge: rows and coverage in one transaction.  The gaps are those of what the
\* synchronizer read before, together with what it fetched.
Merge(t) ==
    /\ At(t, "merge")
    /\ LET r == sync[t]
           s == r.got.source
           new == Download(r.got, r.to)
           Over(f) == [d \in Days |-> IF new[d] # 0 THEN new[d] ELSE f[d]]
           combined == Over(r.rows)
           gaps == Gaps(combined, SyncStart(r), r.to)
                     \union (IF r.key = s THEN Known(r) \ RowsOf(combined) ELSE {})
       IN /\ prices' = [prices EXCEPT ![s] = IF r.rebuilt THEN new ELSE Over(@)]
          /\ asked' = [asked EXCEPT ![s] =
                           IF @ = None \/ r.rebuilt THEN r.from ELSE Smaller(@, r.from)]
          /\ missing' = [missing EXCEPT ![s] = gaps]
          /\ Go(t, [r EXCEPT !.pc = "select", !.gaps = gaps])
    /\ UNCHANGED <<selected, pinned, world>>

Select(t) ==
    /\ At(t, "select")
    /\ selected' = sync[t].got.source
    /\ Go(t, [sync[t] EXCEPT !.pc = "check", !.key = sync[t].got.source])
    /\ UNCHANGED <<prices, asked, missing, pinned, world>>

\* What is stored now is validated; days found missing at the merge refuse it too.
Check(t) ==
    /\ At(t, "check")
    /\ LET r == sync[t]
       IN Go(t, IF Valid(Between(prices[r.key], SyncStart(r), r.end), SyncStart(r), r.end) /\ r.gaps = {}
                THEN [r EXCEPT !.pc = "pin", !.rows = NoRows] ELSE Refused(r))
    /\ UNCHANGED <<tables, world>>

Pin(t) ==
    /\ At(t, "pin")
    /\ selected' = sync[t].key
    /\ pinned' = [pinned EXCEPT ![sync[t].end] = sync[t].key]
    /\ Go(t, [sync[t] EXCEPT !.pc = "read"])
    /\ UNCHANGED <<prices, asked, missing, world>>

\* The frame that is returned.
Read(t) ==
    /\ At(t, "read")
    /\ LET r == sync[t]
       IN Go(t, [Idle EXCEPT !.pc = "done", !.start = r.start, !.end = r.end, !.key = r.key,
                             !.rows = Between(prices[r.key], r.start, r.end)])
    /\ UNCHANGED <<tables, world>>

-----------------------------------------------------------------------------
(* The world.                                                              *)

\* An ex-dividend day: a source computes all its history with a new base.  From then
\* on two synchronizers at once may rebuild and merge over each other.
Readjust(s) ==
    /\ base[s] < MaxBase
    /\ base' = [base EXCEPT ![s] = @ + 1]
    /\ past' = IF \E t, u \in AtWork : t # u THEN past \union {"raced"} ELSE past
    /\ UNCHANGED <<tables, listed, today, sync, crowd>>

\* Nobody has asked for the instrument for longer than the overlap: what is fetched
\* next begins behind the last stored row, and no day of both tells of a new base.
LeftAlone(day) == \E s \in Sources : /\ selected = s /\ RowsOf(prices[s]) # {}
                                     /\ day - Max(RowsOf(prices[s])) > Overlap

\* A trading day ends; a synchronization is over before the next one does.
NextDay ==
    /\ today < LastDay /\ AtWork = {}
    /\ today' = today + 1
    /\ past' = IF LeftAlone(today + 1) THEN past \union {"left"} ELSE past
    /\ UNCHANGED <<tables, base, listed, sync, crowd>>

Step(t) == \/ Key(t) \/ Cover(t) \/ Cached(t) \/ FetchFirst(t) \/ FetchWhole(t)
           \/ Old(t) \/ RebuildRange(t) \/ Rebuild(t) \/ Merge(t) \/ Select(t) \/ Check(t)
           \/ Pin(t) \/ Read(t)

Next == \/ \E t \in Syncs : Step(t)
        \/ \E t \in Syncs, mode \in {"sync", "reuse", "query"}, start \in Starts,
              end \in {today - 1, today} : Begin(t, mode, start, end)
        \/ \E s \in Sources : Readjust(s)
        \/ NextDay

Spec == Init /\ [][Next]_vars

-----------------------------------------------------------------------------
HistoryTypeOK ==
    /\ prices \in [Sources -> [Days -> 0 .. MaxBase]]
    /\ asked \in [Sources -> Days \union {None}] /\ missing \in [Sources -> SUBSET Days]
    /\ selected \in Sources \union {None} /\ pinned \in [Days -> Sources \union {None}]
    /\ crowd \subseteq Syncs /\ past \subseteq {"left", "raced"}

\* What a synchronizer returns ends with the day that was asked for, has no hole and
\* begins where the source begins (prepare_result), whatever absences and races went
\* before: only a request beside another one, with a new base, may miss days that
\* the rebuilding of the other has taken.
ServedWhole ==
    \A t \in Syncs : At(t, "done") /\ (t \in crowd => "raced" \notin past) =>
        LET f == sync[t].rows
        IN /\ RowsOf(f) = Min(RowsOf(f)) .. sync[t].end
           /\ "last" \notin Answers => Min(RowsOf(f)) = Larger(sync[t].start, listed[sync[t].key])

\* And it has one base of adjustment, as long as the instrument has never been left
\* alone for longer than the overlap and no two synchronizers have raced over a new
\* base: nothing in prepare_result tells the bases apart after either.
ServedOneBase ==
    \A t \in Syncs : At(t, "done") /\ past = {} =>
        Cardinality({sync[t].rows[d] : d \in RowsOf(sync[t].rows)}) = 1

\* The day a series was pinned for is in that series, and no step of a
\* synchronizer takes back a day that was stored (rebuilding included), before a race.
PinnedIsStored == "raced" \notin past =>
                      \A d \in Days : pinned[d] # None => prices[pinned[d]][d] # 0
RowsAreKept == "raced" \notin past =>
                   \A s \in Sources : RowsOf(prices[s]) \subseteq RowsOf(prices'[s])
=============================================================================
