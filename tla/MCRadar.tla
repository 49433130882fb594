------------------------------- MODULE MCRadar -------------------------------
(***************************************************************************)
(* Small instances of the modules the radar rests on besides its queue.  A *)
(* behaviour belongs to one part; the variables the part does not have are *)
(* None.                                                                   *)
(*   history   one synchronizer, two sources, every answer, a new base, an *)
(*             absence longer than the overlap                             *)
(*   short     the same with answers that hold the last days only          *)
(*   two       two synchronizers of one symbol, two sources, one base      *)
(*   race      the same with one source and a new base                     *)
(*   refresh   two refreshes at once, two runs in all                      *)
(*   again     one refresh after the other, three runs                     *)
(*   calendar  the collector that refreshes, a page that only reads        *)
(*   startup   an old collector, its task and launcher, a new one, a page  *)
(*   starters  the same with two new ones and no page                      *)
(*   overseas  the collector's refresh with one fallback                   *)
(*   rotation  two instruments of one category or two, five days           *)
(*   scores    three instruments of one category, three days              *)
(*   runs      a run of the command line and one of the page               *)
(***************************************************************************)
EXTENDS Integers, Sequences, FiniteSets

CONSTANTS None, ca, cb, cx, cy, co1, cn1, cn2

VARIABLES
    part,
    prices, asked, missing, selected, pinned, base, listed, today, sync, crowd, past,
    runs, work, cancel,
    tick, cache, retry, ask, asks,
    task, launcher, marker, running, lock, serving, login, mig, web,
    cached, job, etf,
    world, split, bench, dates, day, book, ended,
    start, edition, dirs, run, page, faults,
    history, factors, result

Two == <<"akshare", "sina">>
Later == {[akshare |-> 2, sina |-> 1]}
History == INSTANCE RadarHistory WITH
    Syncs <- {ca}, Chain <- Two, LastDay <- 4, Listings <- Later, Starts <- {1}, Overlap <- 1,
    MaxBase <- 2, Answers <- {"network", "shape", "date", "empty", "rows"}
Short == INSTANCE RadarHistory WITH
    Syncs <- {ca}, Chain <- Two, LastDay <- 3, Listings <- Later, Starts <- {1}, Overlap <- 2,
    MaxBase <- 1, Answers <- {"network", "shape", "date", "empty", "last", "rows"}
TwoSyncs == INSTANCE RadarHistory WITH
    Syncs <- {ca, cb}, Chain <- Two, LastDay <- 2, Listings <- Later, Starts <- {1},
    Overlap <- 2, MaxBase <- 1, Answers <- {"network", "rows"}
Race == INSTANCE RadarHistory WITH
    Syncs <- {ca, cb}, Chain <- <<"akshare">>, LastDay <- 2, Listings <- {[akshare |-> 1]}, Starts <- {1},
    Overlap <- 1, MaxBase <- 2, Answers <- {"network", "rows"}

Grown == <<{cx}, {cx, cy}>>
Refresh == INSTANCE RadarRefresh WITH Refreshers <- {ca, cb}, Members <- Grown, MaxRuns <- 2
Again == INSTANCE RadarRefresh WITH Refreshers <- {ca}, Members <- Grown, MaxRuns <- 3

Cal == INSTANCE TradingCalendar WITH
    Writers <- {ca}, Readers <- {cb}, Trading <- {1, 3, 4}, LastDay <- 3, Ahead <- {-1, 1}, MaxAsks <- 2

Left == {[task |-> "on", launcher |-> "edited", marker |-> FALSE],
         [task |-> "other", launcher |-> "ours", marker |-> FALSE]}
Startup == INSTANCE CollectorStartup WITH
    Old <- {co1}, Fresh <- {cn1}, Pages <- {"web"}, Installed <- {CHOOSE left \in Left : left.task = "on"}
Starters == INSTANCE CollectorStartup WITH Old <- {co1}, Fresh <- {cn1, cn2}, Pages <- {}, Installed <- Left

Overseas == INSTANCE OverseasIndex WITH Sources <- <<"eastmoney", "yahoo">>, LastDay <- 2

\* One instrument with gaps before its category mate or beside another category.
Prices == {[s \in {cx, cy} |-> IF s = cx THEN f ELSE g] :
              f \in [1 .. 5 -> {0, 1, 2}],
              g \in {h \in [1 .. 5 -> {1, 2, 9}] : h[1] # 9 /\ h[3] = h[4] /\ h[5] = h[2] /\ h[2] # 2 /\ h[1] = 1}}
\* And the same with its prices of 1 and 2 exchanged.
Swapped(h) == [s \in {cx, cy} |-> [d \in 1 .. 5 |-> IF h[s][d] \in {1, 2} THEN 3 - h[s][d] ELSE h[s][d]]]
Rotation == INSTANCE RadarBacktest WITH
    Symbols <- {cx, cy}, Category <- [s \in {cx, cy} |-> s], Month <- <<1, 1, 2, 2, 3>>, Histories <- {<<h, Swapped(h)>> : h \in Prices},
    Benchmarks <- {{}, {{2, 3, 4}}}, InitialCash <- 64

Day(closes) == {[close |-> c, amount |-> IF c = 1 THEN 2 ELSE 1] : c \in closes}
Scores == INSTANCE RadarScores WITH
    Symbols <- {cx, cy, cb}, Category <- [s \in {cx, cy, cb} |-> 1], MinimumCategorySize <- 2, Scale <- 4, LastDay <- 3,
    Windows <- [short |-> 1, medium |-> 2, drawdown |-> 2, volatility |-> 2, liquidity |-> 1],
    Weights <- [trend |-> 35, drawdown |-> 25, volatility |-> 20, liquidity |-> 20],
    Rows <- [s \in {cx, cy, cb} |-> Day(IF s = cx THEN {0, 1, 2} ELSE IF s = cy THEN {1, 2, 4} ELSE {1, 2})]

Dated == <<<<0, 1>>, <<0, 2>>, <<0, 3>>, <<1, 1>>, <<1, 3>>, <<2, 1>>, <<2, 3>>>>
Backtests == INSTANCE BacktestRuns WITH
    Runs <- {"cli", "web"}, WebRun <- {"web"}, Calendar <- Dated, Starts <- {2}, Years <- 1, Editions <- 2,
    MaxDirs <- 2, MaxFaults <- 1

-----------------------------------------------------------------------------
H == <<prices, asked, missing, selected, pinned, base, listed, today, sync, crowd, past>>
R == <<runs, work, cancel>>
C == <<cache, retry, ask, asks>>
S == <<launcher, marker, running, lock, serving, login, mig, web>>
O == <<cached, job, etf>>
B == <<world, split, bench, dates, day, book, ended>>
D == <<start, edition, dirs, run, page, faults>>
F == <<history, factors, result>>

NoH == /\ prices = None /\ asked = None /\ missing = None /\ selected = None /\ pinned = None
       /\ base = None /\ listed = None /\ today = None /\ sync = None /\ crowd = None /\ past = None
NoR == runs = None /\ work = None /\ cancel = None
NoC == cache = None /\ retry = None /\ ask = None /\ asks = None
NoS == /\ launcher = None /\ marker = None /\ running = None /\ lock = None /\ serving = None
       /\ login = None /\ mig = None /\ web = None
NoO == cached = None /\ job = None /\ etf = None
NoB == /\ world = None /\ split = None /\ bench = None /\ dates = None /\ day = None /\ book = None
       /\ ended = None
NoF == history = None /\ factors = None /\ result = None
NoD == /\ start = None /\ edition = None /\ dirs = None /\ run = None /\ page = None /\ faults = None

Parts == {"history", "short", "two", "race", "refresh", "again", "calendar", "startup", "starters",
          "overseas", "rotation", "scores", "runs"}

Init ==
    /\ part \in Parts /\ (part # "scores" => NoF)
    /\ \/ /\ part \in {"history", "short", "two", "race"}
          /\ (CASE part = "history" -> History!Init [] part = "short" -> Short!Init
                [] part = "two" -> TwoSyncs!Init [] OTHER -> Race!Init)
          /\ NoR /\ NoC /\ NoS /\ NoO /\ NoB /\ NoD /\ tick = None /\ task = None
       \/ /\ part \in {"refresh", "again"} /\ (IF part = "refresh" THEN Refresh!Init ELSE Again!Init)
          /\ NoH /\ NoC /\ NoS /\ NoO /\ NoB /\ NoD /\ tick = None /\ task = None
       \/ part = "calendar" /\ Cal!Init /\ NoH /\ NoR /\ NoS /\ NoO /\ NoB /\ NoD /\ task = None
       \/ /\ part \in {"startup", "starters"} /\ (IF part = "startup" THEN Startup!Init ELSE Starters!Init)
          /\ NoH /\ NoR /\ NoC /\ NoO /\ NoB /\ NoD /\ tick = None
       \/ part = "overseas" /\ Overseas!Init /\ NoH /\ NoR /\ NoC /\ NoS /\ NoB /\ NoD /\ task = None
       \/ part = "rotation" /\ Rotation!Init /\ NoH /\ NoR /\ NoC /\ NoS /\ NoO /\ NoD /\ tick = None /\ task = None
       \/ part = "runs" /\ Backtests!Init /\ NoH /\ NoR /\ NoC /\ NoS /\ NoO /\ NoB /\ tick = None
       \/ part = "scores" /\ Scores!Init /\ NoH /\ NoR /\ NoC /\ NoS /\ NoO /\ NoB /\ NoD /\ tick = None /\ task = None

Next ==
    /\ UNCHANGED part
    /\ \/ part = "history" /\ History!Next /\ UNCHANGED <<R, C, S, O, B, D, F, tick, task>>
       \/ part = "short" /\ Short!Next /\ UNCHANGED <<R, C, S, O, B, D, F, tick, task>>
       \/ part = "two" /\ TwoSyncs!Next /\ UNCHANGED <<R, C, S, O, B, D, F, tick, task>>
       \/ part = "race" /\ Race!Next /\ UNCHANGED <<R, C, S, O, B, D, F, tick, task>>
       \/ part = "refresh" /\ Refresh!Next /\ UNCHANGED <<H, C, S, O, B, D, F, tick, task>>
       \/ part = "again" /\ Again!Next /\ UNCHANGED <<H, C, S, O, B, D, F, tick, task>>
       \/ part = "calendar" /\ Cal!Next /\ UNCHANGED <<H, R, S, O, B, D, F, task>>
       \/ part = "startup" /\ Startup!Next /\ UNCHANGED <<H, R, C, O, B, D, F, tick>>
       \/ part = "starters" /\ Starters!Next /\ UNCHANGED <<H, R, C, O, B, D, F, tick>>
       \/ part = "overseas" /\ Overseas!Next /\ UNCHANGED <<H, R, C, S, B, D, F, task>>
       \/ part = "rotation" /\ Rotation!Next /\ UNCHANGED <<H, R, C, S, O, D, F, tick, task>>
       \/ part = "runs" /\ Backtests!Next /\ UNCHANGED <<H, R, C, S, O, B, F, tick>>
       \/ part = "scores" /\ Scores!Next /\ UNCHANGED <<H, R, C, S, O, B, D, tick, task>>

all == <<part, H, R, C, S, O, B, D, F, tick, task>>
RadarSpec == Init /\ [][Next]_all

-----------------------------------------------------------------------------
\* Every variable keeps to its domain.
RadarTypeOK ==
    CASE part = "history" -> History!HistoryTypeOK
      [] part = "short" -> Short!HistoryTypeOK
      [] part = "two" -> TwoSyncs!HistoryTypeOK
      [] part = "race" -> Race!HistoryTypeOK
      [] part = "refresh" -> Refresh!RefreshTypeOK
      [] part = "again" -> Again!RefreshTypeOK
      [] part = "calendar" -> Cal!CalendarTypeOK
      [] part = "startup" -> Startup!StartupTypeOK
      [] part = "starters" -> Starters!StartupTypeOK
      [] part = "overseas" -> Overseas!OverseasTypeOK
      [] part = "rotation" -> Rotation!BacktestTypeOK
      [] part = "scores" -> Scores!ScoresTypeOK
      [] part = "runs" -> Backtests!RunsTypeOK

\* What the radar shows is what it says it is: a series served is whole, of one base and
\* stored; a snapshot has every member of its day, with a value whose day it names, and no
\* value is lost that an earlier one had; the calendar never takes a day for a trading day
\* or a day of rest it cannot know; no collector of an older version works beside the new
\* one, and what is called migrated is; a reading of the overseas index names the source and
\* the age it has; a backtest never looks ahead; what is better in every factor ranks
\* first; a result answers the question it is shown for.
RadarSafe ==
    CASE part = "history" -> History!ServedWhole /\ History!ServedOneBase /\ History!PinnedIsStored
      [] part = "short" -> Short!ServedWhole /\ Short!ServedOneBase /\ Short!PinnedIsStored
      [] part = "two" -> TwoSyncs!ServedWhole /\ TwoSyncs!ServedOneBase /\ TwoSyncs!PinnedIsStored
      [] part = "race" -> Race!ServedWhole /\ Race!ServedOneBase /\ Race!PinnedIsStored
      [] part = "refresh" -> Refresh!SnapshotsSound /\ Refresh!NoValueIsLost
      [] part = "again" -> Again!SnapshotsSound /\ Again!NoValueIsLost
      [] part = "calendar" -> Cal!AnswersAreTrue
      [] part = "startup" -> Startup!NoOldCollectorBeside /\ Startup!CleanMeansClean
      [] part = "starters" -> Starters!NoOldCollectorBeside /\ Starters!CleanMeansClean
      [] part = "overseas" -> Overseas!OverseasSound
      [] part = "rotation" -> Rotation!NoLookAhead
      [] part = "scores" -> Scores!ScoresSound
      [] part = "runs" -> Backtests!ResultsSound

\* The design's direction of the drawdown percentile (2026-09-05-配置雷达设计.md:106).
SmallerDrawdownFirst == part = "scores" => Scores!SmallerDrawdownFirst

\* Action property: stored rows, closed runs, closes of past days and finished backtests
\* stay, and an execution of the rotation neither makes nor loses money.
RadarStepsKept ==
    [][/\ part = "history" => History!RowsAreKept
       /\ part = "short" => Short!RowsAreKept
       /\ part = "two" => TwoSyncs!RowsAreKept
       /\ part = "race" => Race!RowsAreKept
       /\ part = "refresh" => Refresh!ClosedRunsStay
       /\ part = "again" => Again!ClosedRunsStay
       /\ part = "overseas" => Overseas!ClosesAreKept
       /\ part = "rotation" => Rotation!MoneyIsKept
       /\ part = "runs" => Backtests!FinishedRunsStay]_all
=============================================================================
